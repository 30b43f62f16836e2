--------------------------- MODULE AdmissionProofs ---------------------------
(***************************************************************************)
(* Proofs about Admission, for any processes, keys, clauses, guards and    *)
(* sites, and whatever a site evaluates to.                                *)
(*                                                                         *)
(* Shape is the type invariant with what each step of a process holds in   *)
(* its hands; it is inductive, and every other invariant is so on top of   *)
(* it.                                                                     *)
(***************************************************************************)
EXTENDS Admission, TLAPS

\* An object in hand is stored or judged; one judged is in the table.
WritersHold ==
  \A p \in Arenas \cup Clerks :
    /\ pc[p] \in {"idle", "store", "judge"}
    /\ pc[p] # "idle" => held[p] \in Objects
    /\ pc[p] = "judge" => rows[held[p].key] # None

LoadersHold ==
  \A l \in Loaders :
    /\ pc[l] \in {"idle", "load", "strict", "rejudge"}
    /\ pc[l] = "rejudge" => /\ held[l] \in Members /\ held[l].judged = None
                            /\ rows[held[l].obj.key] # None
    /\ \A k \in Keys : listed[l][k] # None => rows[k] # None

RowsKeyed ==
  \A k \in Keys : rows[k] # None => rows[k].obj.key = k /\ rows[k].stamp <= stores

ReportsKeyed ==
  \A p \in Arenas \cup Clerks, k \in Keys :
    reports[p][k] # None => reports[p][k].obj.key = k

Shape == TypeOK /\ WritersHold /\ LoadersHold /\ RowsKeyed /\ ReportsKeyed

-----------------------------------------------------------------------------
(* Objects, rows and reports. *)

LEMMA CorporaHold ==
  /\ Census \in Corpora /\ Boards \subseteq Corpora
  /\ \A b \in Boards : b < MaxGrowth => b + 1 \in Boards
BY BoundsAreNat DEF Census, Corpora, Boards

LEMMA CorpusOfProcess ==
  ASSUME TypeOK, NEW p
  PROVE  CorpusOf(p) \in Corpora
BY CorporaHold DEF CorpusOf, TypeOK

LEMMA Rewritten ==
  ASSUME NEW o \in Objects, NEW g \in Guards, NEW op \in Ops
  PROVE  LET n == [o EXCEPT !.guard = g, !.op = op]
         IN  n \in Objects /\ n.key = o.key /\ n.guard = g /\ n.op = op /\ n.hook = o.hook
BY DEF Objects

LEMMA LiveIsAnObject ==
  ASSUME NEW o \in Objects
  PROVE  Live(o) \in Objects /\ Live(o).key = o.key /\ Live(o).guard = o.guard /\ ~ Live(o).hook
BY DEF Live, Objects

LEMMA MintedAreGuards ==
  ASSUME NEW k, NEW c, NEW up, NEW g \in Minted(k, c, up)
  PROVE  g \in SUBSET Clauses /\ g \in Guards /\ Covers(g, k, c, up)
BY DEF Minted, Guards

LEMMA RelaxedIsAGuard ==
  ASSUME NEW g \in Guards, g # Unguarded, NEW cl
  PROVE  Relaxed(g, cl) \in Guards
BY DEF Relaxed, Guards

LEMMA RowIsARow ==
  ASSUME TypeOK, NEW k \in Keys, rows[k] # None
  PROVE  /\ rows[k] \in Rows /\ rows[k].obj \in Objects
         /\ rows[k].stamp \in 1 .. MaxStores
BY DEF TypeOK, Rows

LEMMA ReferredAreObjects ==
  ASSUME TypeOK, RowsKeyed, NEW k \in Keys, NEW o \in Referred(k)
  PROVE  o \in Objects /\ o.key = k
<1>1. CASE k \in Shipped
  BY <1>1, LibraryIsShipped DEF Referred
<1>2. CASE k \notin Shipped
  BY <1>2, RowIsARow, LiveIsAnObject DEF Referred, RowsKeyed
<1> QED
  BY <1>1, <1>2

LEMMA ReportIsAReport ==
  ASSUME NEW row \in Rows, NEW c \in Corpora, NEW up, NEW pays, NEW again \in BOOLEAN
  PROVE  LET r == Report(row, c, up, pays, again)
         IN  /\ r \in Reports /\ r # None /\ r.obj = row.obj /\ r.stamp = row.stamp
             /\ r.corpus = c /\ r.retry = again
<1> DEFINE r == Report(row, c, up, pays, again)
<1>1. row.obj \in Objects /\ row.stamp \in 1 .. MaxStores
  BY DEF Rows
<1>2. r.truth \in BOOLEAN /\ r.usable \in BOOLEAN
  BY DEF Report
<1>3. /\ r = [obj |-> r.obj, stamp |-> r.stamp, corpus |-> r.corpus, truth |-> r.truth,
              usable |-> r.usable, retry |-> r.retry]
      /\ r.obj = row.obj /\ r.stamp = row.stamp /\ r.corpus = c /\ r.retry = again
  BY DEF Report
<1>4. r \in Reports
  BY <1>1, <1>2, <1>3 DEF Reports
<1> QED
  BY <1>3, <1>4, SentinelsAreFresh
-----------------------------------------------------------------------------
(* Every step keeps the shape. *)

LEMMA InitShape == Init => Shape
<1> SUFFICES ASSUME Init PROVE Shape
  OBVIOUS
<1>1. TypeOK
  BY BoundsAreNat DEF Init, Blank, TypeOK, Boards, Procs
<1>2. WritersHold /\ LoadersHold /\ RowsKeyed /\ ReportsKeyed
  BY DEF Init, Blank, WritersHold, LoadersHold, RowsKeyed, ReportsKeyed, Procs
<1> QED
  BY <1>1, <1>2 DEF Shape

\* A process that takes an object to store.
LEMMA TakeShape ==
  ASSUME Shape, NEW p \in Arenas \cup Clerks, NEW o \in Objects, Take(p, o),
         UNCHANGED <<rows, stores, board, reports, declined, loadVars>>
  PROVE  Shape'
<1>1. TypeOK'
  BY DEF Shape, TypeOK, Take, Procs, loadVars
<1>2. WritersHold'
  BY DEF Shape, TypeOK, WritersHold, Take, Procs, loadVars
<1>3. LoadersHold'
  BY KindsDiffer DEF Shape, TypeOK, LoadersHold, Take, Procs, loadVars
<1>4. RowsKeyed' /\ ReportsKeyed'
  BY DEF Shape, RowsKeyed, ReportsKeyed
<1> QED
  BY <1>1, <1>2, <1>3, <1>4 DEF Shape

LEMMA ConstructShape ==
  ASSUME Shape, NEW a \in Arenas, NEW k \in Keys, Construct(a, k)
  PROVE  Shape'
BY GivenAreData, TakeShape DEF Construct

LEMMA AutoCondShape ==
  ASSUME Shape, NEW a \in Arenas, NEW k \in Keys, AutoCond(a, k)
  PROVE  Shape'
<1>1. PICK o \in Referred(k), up \in SUBSET Flips : \E g \in Minted(k, board[a], up) :
        Take(a, [o EXCEPT !.guard = g, !.op = "auto_cond"])
  BY DEF AutoCond
<1>2. PICK g \in Minted(k, board[a], up) : Take(a, [o EXCEPT !.guard = g, !.op = "auto_cond"])
  BY <1>1
<1>3. [o EXCEPT !.guard = g, !.op = "auto_cond"] \in Objects
  BY ReferredAreObjects, MintedAreGuards, Rewritten DEF Shape, Ops
<1> QED
  BY <1>2, <1>3, TakeShape DEF AutoCond

LEMMA RelaxGuardShape ==
  ASSUME Shape, NEW a \in Arenas, NEW k \in Keys, RelaxGuard(a, k)
  PROVE  Shape'
<1>1. PICK o \in Referred(k), cl \in Clauses :
        /\ o.guard # Unguarded
        /\ Take(a, [o EXCEPT !.guard = Relaxed(o.guard, cl), !.op = "relax_guard"])
  BY DEF RelaxGuard
<1>2. o \in Objects /\ o.guard \in Guards
  BY ReferredAreObjects DEF Shape, Objects
<1>3. [o EXCEPT !.guard = Relaxed(o.guard, cl), !.op = "relax_guard"] \in Objects
  BY <1>1, <1>2, RelaxedIsAGuard, Rewritten DEF Ops
<1> QED
  BY <1>1, <1>3, TakeShape DEF RelaxGuard

LEMMA StoreShippedShape ==
  ASSUME Shape, NEW c \in Clerks, NEW k \in Keys, StoreShipped(c, k)
  PROVE  Shape'
BY ReferredAreObjects, TakeShape DEF StoreShipped, Shape

LEMMA IngestShape ==
  ASSUME Shape, NEW a \in Arenas, Ingest(a)
  PROVE  Shape'
<1>1. TypeOK'
  BY CorporaHold DEF Shape, TypeOK, Ingest, loadVars
<1>2. WritersHold' /\ LoadersHold' /\ RowsKeyed' /\ ReportsKeyed'
  BY DEF Shape, WritersHold, LoadersHold, RowsKeyed, ReportsKeyed, Ingest, loadVars
<1> QED
  BY <1>1, <1>2 DEF Shape

\* What Store does: the object in hand is the row of its key.
LEMMA StoreEffect ==
  ASSUME Shape, NEW p \in Arenas \cup Clerks, Store(p)
  PROVE  LET k == held[p].key
             row == rows'[k]
         IN  /\ held[p] \in Objects /\ k \in Keys
             /\ row \in Rows /\ row # None /\ row.obj = held[p] /\ row.stamp = stores'
             /\ row.writer = p /\ (p \in Arenas => row.corpus = CorpusOf(p))
             /\ \A j \in Keys \ {k} : rows'[j] = rows[j]
             /\ DOMAIN rows' = Keys /\ stores' = stores + 1 /\ stores \in Nat
<1> DEFINE row == rows'[held[p].key]
<1>1. held[p] \in Objects /\ held[p].key \in Keys
  BY DEF Shape, WritersHold, Store, Objects
<1>2. /\ row \in Rows /\ row # None /\ row.obj = held[p] /\ row.stamp = stores'
      /\ row.writer = p /\ (p \in Arenas => row.corpus = CorpusOf(p))
      /\ \A k \in Keys \ {held[p].key} : rows'[k] = rows[k]
      /\ DOMAIN rows' = Keys /\ stores' = stores + 1 /\ stores \in Nat
  <2>1. stores \in Nat /\ stores < MaxStores /\ stores + 1 \in 1 .. MaxStores
    BY BoundsAreNat DEF Shape, TypeOK, Store
  <2>2. CorpusOf(p) \in Corpora
    BY CorpusOfProcess DEF Shape
  <2>3. rows[held[p].key] # None => rows[held[p].key].corpus \in Corpora
    BY <1>1 DEF Shape, TypeOK, Rows
  <2>4. /\ row \in Rows /\ row.obj = held[p] /\ row.stamp = stores + 1
        /\ row.writer = p /\ (p \in Arenas => row.corpus = CorpusOf(p))
    BY <1>1, <2>1, <2>2, <2>3, KindsDiffer DEF Store, Rows, Shape, TypeOK, Procs
  <2> QED
    BY <1>1, <2>1, <2>4, SentinelsAreFresh DEF Store, Shape, TypeOK
<1> QED
  BY <1>1, <1>2

LEMMA StoreShape ==
  ASSUME Shape, NEW p \in Arenas \cup Clerks, Store(p)
  PROVE  Shape'
<1> DEFINE row == rows'[held[p].key]
<1>1. held[p] \in Objects /\ held[p].key \in Keys
  BY StoreEffect
<1>2. /\ row \in Rows /\ row # None /\ row.obj = held[p] /\ row.stamp = stores'
      /\ \A k \in Keys \ {held[p].key} : rows'[k] = rows[k]
      /\ DOMAIN rows' = Keys /\ stores' = stores + 1 /\ stores \in Nat
  BY StoreEffect
<1>3. rows' \in [Keys -> Rows \cup {None}]
  BY <1>1, <1>2 DEF Store, Shape, TypeOK
<1>4. /\ pc' \in [Procs -> {"idle", "store", "judge", "load", "strict", "rejudge"}]
      /\ held' \in [Procs -> Objects \cup Members \cup {None}]
      /\ \A q \in Procs \ {p} : pc'[q] = pc[q] /\ held'[q] = held[q]
      /\ pc'[p] \in {"idle", "judge"} /\ (pc'[p] = "judge" => held'[p] = held[p])
  <2>1. CASE held[p].op = "shipped"
    BY <2>1 DEF Store, Leave, Shape, TypeOK, Procs
  <2>2. CASE held[p].op # "shipped"
    BY <2>2 DEF Store, Shape, TypeOK, Procs
  <2> QED
    BY <2>1, <2>2
<1>5. TypeOK'
  BY <1>2, <1>3, <1>4 DEF Shape, TypeOK, Store, loadVars
<1>6. \A k \in Keys : rows[k] # None => rows'[k] # None
  BY <1>2
<1>7. WritersHold'
  <2> SUFFICES ASSUME NEW q \in Arenas \cup Clerks
               PROVE  /\ pc'[q] \in {"idle", "store", "judge"}
                      /\ pc'[q] # "idle" => held'[q] \in Objects
                      /\ pc'[q] = "judge" => rows'[held'[q].key] # None
    BY DEF WritersHold
  <2>1. CASE q = p
    BY <1>1, <1>2, <1>4, <2>1
  <2>2. CASE q # p
    <3>1. pc'[q] = pc[q] /\ held'[q] = held[q]
      BY <1>4, <2>2 DEF Procs
    <3>2. pc[q] = "judge" => held[q].key \in Keys
      BY DEF Shape, WritersHold, Objects
    <3> QED
      BY <1>6, <3>1, <3>2 DEF Shape, WritersHold
  <2> QED
    BY <2>1, <2>2
<1>8. LoadersHold'
  <2> SUFFICES ASSUME NEW l \in Loaders
               PROVE  /\ pc'[l] \in {"idle", "load", "strict", "rejudge"}
                      /\ pc'[l] = "rejudge" =>
                           /\ held'[l] \in Members /\ held'[l].judged = None
                           /\ rows'[held'[l].obj.key] # None
                      /\ \A k \in Keys : listed'[l][k] # None => rows'[k] # None
    BY DEF LoadersHold
  <2>1. pc'[l] = pc[l] /\ held'[l] = held[l] /\ listed'[l] = listed[l]
    BY <1>4, KindsDiffer DEF Procs, Store, loadVars
  <2>2. pc[l] = "rejudge" => held[l].obj.key \in Keys
    BY DEF Shape, LoadersHold, Members, Objects
  <2> QED
    BY <1>6, <2>1, <2>2 DEF Shape, LoadersHold
<1>9. RowsKeyed'
  <2> SUFFICES ASSUME NEW k \in Keys, rows'[k] # None
               PROVE  rows'[k].obj.key = k /\ rows'[k].stamp <= stores'
    BY DEF RowsKeyed
  <2>1. CASE k = held[p].key
    BY <1>2, <2>1
  <2>2. CASE k # held[p].key
    <3>1. rows'[k] = rows[k]
      BY <1>2, <2>2
    <3>2. rows[k].obj.key = k /\ rows[k].stamp <= stores /\ rows[k].stamp \in Nat
      BY <3>1, RowIsARow DEF Shape, RowsKeyed
    <3> QED
      BY <1>2, <3>1, <3>2
  <2> QED
    BY <2>1, <2>2
<1> QED
  BY <1>5, <1>7, <1>8, <1>9 DEF Shape, ReportsKeyed, Store
LEMMA StoreRaisesShape ==
  ASSUME Shape, NEW p \in Arenas \cup Clerks, StoreRaises(p)
  PROVE  Shape'
<1>1. TypeOK'
  BY DEF Shape, TypeOK, StoreRaises, Leave, Procs, loadVars
<1>2. WritersHold'
  BY DEF Shape, TypeOK, WritersHold, StoreRaises, Leave, Procs, loadVars
<1>3. LoadersHold'
  BY KindsDiffer DEF Shape, TypeOK, LoadersHold, StoreRaises, Leave, Procs, loadVars
<1>4. RowsKeyed' /\ ReportsKeyed'
  BY DEF Shape, RowsKeyed, ReportsKeyed, StoreRaises
<1> QED
  BY <1>1, <1>2, <1>3, <1>4 DEF Shape

\* What Judge does: the object in hand is let go, and its report, if there is
\* one, is of the row under its key.
LEMMA JudgeEffect ==
  ASSUME Shape, NEW p \in Arenas \cup Clerks, Judge(p)
  PROVE  LET k == held[p].key
         IN  /\ k \in Keys /\ rows[k] \in Rows /\ rows[k] # None /\ rows[k].obj.key = k
             /\ UNCHANGED <<rows, stores, board, listed, pack>>
             /\ pc[p] = "judge" /\ Leave(p, "idle")
             /\ \/ /\ reports' = reports
                   /\ declined' = [declined EXCEPT ![p] = @ \cup {k}]
                \/ /\ declined' = [declined EXCEPT ![p] = @ \ {k}]
                   /\ \E up \in SUBSET Flips : \E pays \in Payments(rows[k].obj, up) :
                        reports' = [reports EXCEPT ![p][k] =
                          Report(rows[k], CorpusOf(p), up, pays, p \in Clerks /\ rows[k].writer = p)]
<1>1. held[p] \in Objects /\ held[p].key \in Keys /\ rows[held[p].key] # None
  BY DEF Shape, WritersHold, Judge, Objects
<1>2. rows[held[p].key] \in Rows /\ rows[held[p].key].obj.key = held[p].key
  BY <1>1, RowIsARow DEF Shape, RowsKeyed
<1>3. UNCHANGED <<rows, stores, board, listed, pack>> /\ pc[p] = "judge" /\ Leave(p, "idle")
  BY DEF Judge, loadVars
<1>4. \/ /\ reports' = reports
         /\ declined' = [declined EXCEPT ![p] = @ \cup {held[p].key}]
      \/ /\ declined' = [declined EXCEPT ![p] = @ \ {held[p].key}]
         /\ \E up \in SUBSET Flips : \E pays \in Payments(rows[held[p].key].obj, up) :
              reports' = [reports EXCEPT ![p][held[p].key] =
                Report(rows[held[p].key], CorpusOf(p), up, pays,
                       p \in Clerks /\ rows[held[p].key].writer = p)]
  BY DEF Judge
<1> QED
  BY <1>1, <1>2, <1>3, <1>4

\* The reports stay reports, each of its key, when one is made of a row.
LEMMA ReportedShape ==
  ASSUME Shape, NEW p \in Arenas \cup Clerks, NEW k \in Keys, NEW r \in Reports, r # None,
         r.obj.key = k, reports' = [reports EXCEPT ![p][k] = r]
  PROVE  ReportsKeyed' /\ reports' \in [Arenas \cup Clerks -> [Keys -> Reports \cup {None}]]
<1>1. reports \in [Arenas \cup Clerks -> [Keys -> Reports \cup {None}]]
  BY DEF Shape, TypeOK
<1>2. \A q \in Arenas \cup Clerks, j \in Keys :
        reports'[q][j] = IF q = p /\ j = k THEN r ELSE reports[q][j]
  BY <1>1
<1> QED
  BY <1>1, <1>2 DEF Shape, ReportsKeyed

LEMMA JudgeShape ==
  ASSUME Shape, NEW p \in Arenas \cup Clerks, Judge(p)
  PROVE  Shape'
<1> DEFINE k == held[p].key
<1>1. /\ k \in Keys /\ rows[k] \in Rows /\ rows[k].obj.key = k
      /\ UNCHANGED <<rows, stores, board, listed, pack>> /\ Leave(p, "idle")
  BY JudgeEffect
<1>2. ReportsKeyed' /\ reports' \in [Arenas \cup Clerks -> [Keys -> Reports \cup {None}]]
  <2>1. CASE reports' = reports
    BY <2>1 DEF Shape, TypeOK, ReportsKeyed
  <2>2. CASE \E up \in SUBSET Flips : \E pays \in Payments(rows[k].obj, up) : reports' = [reports EXCEPT ![p][k] =
               Report(rows[k], CorpusOf(p), up, pays, p \in Clerks /\ rows[k].writer = p)]
    <3>5. PICK up \in SUBSET Flips : \E pays \in Payments(rows[k].obj, up) :
            reports' = [reports EXCEPT ![p][k] =
              Report(rows[k], CorpusOf(p), up, pays, p \in Clerks /\ rows[k].writer = p)]
      BY <2>2
    <3>1. PICK pays \in Payments(rows[k].obj, up) : reports' = [reports EXCEPT ![p][k] =
            Report(rows[k], CorpusOf(p), up, pays, p \in Clerks /\ rows[k].writer = p)]
      BY <3>5
    <3> DEFINE again == p \in Clerks /\ rows[k].writer = p
               r == Report(rows[k], CorpusOf(p), up, pays, again)
    <3>2. again \in BOOLEAN /\ CorpusOf(p) \in Corpora
      BY CorpusOfProcess DEF Shape
    <3> HIDE DEF again
    <3>3. r \in Reports /\ r # None /\ r.obj.key = k
      BY <1>1, <3>2, ReportIsAReport
    <3>4. reports' = [reports EXCEPT ![p][k] = r]
      BY <3>1 DEF again
    <3> HIDE DEF r
    <3> QED
      BY <1>1, <3>3, <3>4, ReportedShape
  <2> QED
    BY <2>1, <2>2, JudgeEffect
<1>3. declined' \in [Arenas \cup Clerks -> SUBSET Keys]
  <2>1. declined' = [declined EXCEPT ![p] = @ \cup {k}] \/ declined' = [declined EXCEPT ![p] = @ \ {k}]
    BY JudgeEffect
  <2> QED
    BY <1>1, <2>1 DEF Shape, TypeOK
<1>4. TypeOK'
  BY <1>1, <1>2, <1>3 DEF Shape, TypeOK, Leave, Procs
<1>5. WritersHold'
  BY <1>1 DEF Shape, TypeOK, WritersHold, Leave, Procs
<1>6. LoadersHold'
  BY <1>1, KindsDiffer DEF Shape, TypeOK, LoadersHold, Leave, Procs
<1> QED
  BY <1>1, <1>2, <1>4, <1>5, <1>6 DEF Shape, RowsKeyed

LEMMA AdmitShape ==
  ASSUME Shape, NEW c \in Clerks, NEW k \in Keys, Admit(c, k)
  PROVE  Shape'
<1>1. rows[k] \in Rows /\ rows[k].obj \in Objects /\ rows[k].obj.key = k
  BY RowIsARow DEF Admit, Shape, RowsKeyed
<1>2. UNCHANGED <<rows, stores, board, declined, loadVars>>
  BY DEF Admit
<1>3. CASE UNCHANGED <<pc, held>> /\ \E up \in SUBSET Flips : \E pays \in Payments(rows[k].obj, up) :
             reports' = [reports EXCEPT ![c][k] = Report(rows[k], Census, up, pays, FALSE)]
  <2>4. PICK up \in SUBSET Flips : \E pays \in Payments(rows[k].obj, up) :
          reports' = [reports EXCEPT ![c][k] = Report(rows[k], Census, up, pays, FALSE)]
    BY <1>3
  <2>1. PICK pays \in Payments(rows[k].obj, up) :
          reports' = [reports EXCEPT ![c][k] = Report(rows[k], Census, up, pays, FALSE)]
    BY <2>4
  <2> DEFINE r == Report(rows[k], Census, up, pays, FALSE)
  <2>2. r \in Reports /\ r # None /\ r.obj.key = k
    <3>1. FALSE \in BOOLEAN
      OBVIOUS
    <3>2. \A again \in BOOLEAN :
            /\ Report(rows[k], Census, up, pays, again) \in Reports
            /\ Report(rows[k], Census, up, pays, again) # None
            /\ Report(rows[k], Census, up, pays, again).obj = rows[k].obj
      BY <1>1, CorporaHold, ReportIsAReport
    <3> QED
      BY <1>1, <3>1, <3>2
  <2> HIDE DEF r
  <2>3. ReportsKeyed' /\ reports' \in [Arenas \cup Clerks -> [Keys -> Reports \cup {None}]]
    BY <2>1, <2>2, ReportedShape DEF r
  <2> QED
    BY <1>2, <1>3, <2>3 DEF Shape, TypeOK, WritersHold, LoadersHold, RowsKeyed, loadVars
<1>4. CASE UNCHANGED reports /\ \E again \in SUBSET Flips : \E g \in Minted(k, Census, again) :
             Take(c, [Live(rows[k].obj) EXCEPT !.guard = g, !.op = "auto_cond"])
  <2>1. PICK again \in SUBSET Flips : \E g \in Minted(k, Census, again) :
          Take(c, [Live(rows[k].obj) EXCEPT !.guard = g, !.op = "auto_cond"])
    BY <1>4
  <2>2. PICK g \in Minted(k, Census, again) :
          Take(c, [Live(rows[k].obj) EXCEPT !.guard = g, !.op = "auto_cond"])
    BY <2>1
  <2>3. [Live(rows[k].obj) EXCEPT !.guard = g, !.op = "auto_cond"] \in Objects
    BY <1>1, LiveIsAnObject, MintedAreGuards, Rewritten DEF Ops
  <2> QED
    BY <1>2, <1>4, <2>2, <2>3, TakeShape
<1> QED
  BY <1>3, <1>4 DEF Admit
LEMMA ListShape ==
  ASSUME Shape, NEW l \in Loaders, List(l)
  PROVE  Shape'
<1>1. /\ \A k \in Keys : listed'[l][k] \in 1 .. MaxStores \cup {None}
      /\ \A k \in Keys : listed'[l][k] # None => rows[k] # None
      /\ listed' \in [Loaders -> [Keys -> 1 .. MaxStores \cup {None}]]
      /\ \A m \in Loaders \ {l} : listed'[m] = listed[m]
  <2> DEFINE seen == [k \in Keys |-> IF rows[k] # None /\ rows[k].obj.name \in Ledger
                                     THEN rows[k].stamp ELSE None]
  <2>1. seen \in [Keys -> 1 .. MaxStores \cup {None}]
    BY RowIsARow DEF Shape
  <2>2. listed' = [listed EXCEPT ![l] = seen]
    BY DEF List
  <2>3. \A k \in Keys : seen[k] # None => rows[k] # None
    OBVIOUS
  <2> HIDE DEF seen
  <2> QED
    BY <2>1, <2>2, <2>3 DEF Shape, TypeOK
<1>2. TypeOK'
  BY <1>1 DEF Shape, TypeOK, List, Procs
<1>3. WritersHold'
  BY KindsDiffer DEF Shape, TypeOK, WritersHold, List, Procs
<1>4. LoadersHold'
  <2>1. pc'[l] \in {"strict", "load"} /\ \A m \in Loaders \ {l} : pc'[m] = pc[m]
    BY DEF Shape, TypeOK, List, Procs
  <2> QED
    BY <1>1, <2>1 DEF Shape, LoadersHold, List
<1> QED
  BY <1>2, <1>3, <1>4 DEF Shape, RowsKeyed, ReportsKeyed, List

\* A loader treats a row that is in the table.
LEMMA RebuiltIsAMember ==
  ASSUME Shape, NEW l \in Loaders, NEW k \in Keys, k \in Newest(l)
  PROVE  LET m == [obj |-> rows[k].obj, stamp |-> rows[k].stamp, judged |-> None]
         IN  m \in Members /\ rows[k] # None /\ m.obj.key = k
<1>1. rows[k] # None
  BY DEF Shape, LoadersHold, Newest
<1>2. rows[k].obj \in Objects /\ rows[k].stamp \in 1 .. MaxStores /\ rows[k].obj.key = k
  BY <1>1, RowIsARow DEF Shape, RowsKeyed
<1> QED
  BY <1>1, <1>2 DEF Members

LEMMA RebuildShape ==
  ASSUME Shape, NEW l \in Loaders, NEW k \in Keys, Rebuild(l, k)
  PROVE  Shape'
<1> DEFINE m == [obj |-> rows[k].obj, stamp |-> rows[k].stamp, judged |-> None]
<1>1. m \in Members /\ m.judged = None /\ rows[m.obj.key] # None
  BY RebuiltIsAMember DEF Rebuild
<1>2. /\ listed' \in [Loaders -> [Keys -> 1 .. MaxStores \cup {None}]]
      /\ \A j \in Loaders, i \in Keys : listed'[j][i] # None => listed[j][i] # None
      /\ UNCHANGED <<rows, stores, board, reports, declined>>
  BY DEF Rebuild, Shape, TypeOK
<1>3. \/ UNCHANGED <<pc, held, pack>>
      \/ UNCHANGED <<pc, held>> /\ pack' = [pack EXCEPT ![l] = @ \cup {m}]
      \/ /\ held' = [held EXCEPT ![l] = m] /\ pc' = [pc EXCEPT ![l] = "rejudge"]
         /\ UNCHANGED pack
  BY DEF Rebuild
<1> HIDE DEF m
<1>4. TypeOK'
  <2>1. pack' \in [Loaders -> SUBSET Members]
    BY <1>1, <1>3 DEF Shape, TypeOK
  <2>2. /\ pc' \in [Procs -> {"idle", "store", "judge", "load", "strict", "rejudge"}]
        /\ held' \in [Procs -> Objects \cup Members \cup {None}]
    BY <1>1, <1>3 DEF Shape, TypeOK
  <2> QED
    BY <1>2, <2>1, <2>2 DEF Shape, TypeOK
<1>5. WritersHold'
  BY <1>2, <1>3, KindsDiffer DEF Shape, TypeOK, WritersHold, Procs
<1>6. LoadersHold'
  BY <1>1, <1>2, <1>3 DEF Shape, TypeOK, LoadersHold, Procs
<1> QED
  BY <1>2, <1>4, <1>5, <1>6 DEF Shape, RowsKeyed, ReportsKeyed

\* What Rejudge does: the pack grows, at most, by the object in hand with the
\* report of the row that is under its key.
LEMMA RejudgeEffect ==
  ASSUME Shape, NEW l \in Loaders, Rejudge(l)
  PROVE  LET k == held[l].obj.key
         IN  /\ held[l] \in Members /\ k \in Keys /\ rows[k] \in Rows /\ rows[k].obj.key = k
             /\ UNCHANGED <<rows, stores, board, reports, declined, listed>> /\ Leave(l, "strict")
             /\ \/ pack' = pack
                \/ \E up \in SUBSET Flips : \E pays \in Payments(rows[k].obj, up) :
                     LET r == Report(rows[k], Census, up, pays, FALSE)
                         m == [held[l] EXCEPT !.judged = r]
                     IN  /\ r \in Reports /\ r.usable /\ m \in Members
                         /\ m.obj = held[l].obj /\ m.stamp = held[l].stamp /\ m.judged = r
                         /\ pack' = [pack EXCEPT ![l] = @ \cup {m}]
<1> DEFINE k == held[l].obj.key
<1>1. held[l] \in Members /\ k \in Keys /\ rows[k] # None
  BY DEF Shape, LoadersHold, Rejudge, Members, Objects
<1>2. rows[k] \in Rows /\ rows[k].obj.key = k
  BY <1>1, RowIsARow DEF Shape, RowsKeyed
<1>3. UNCHANGED <<rows, stores, board, reports, declined, listed>> /\ Leave(l, "strict")
  BY DEF Rejudge
<1>4. PICK up \in SUBSET Flips : \E pays \in Payments(rows[k].obj, up) :
        LET r == Report(rows[k], Census, up, pays, FALSE)
        IN  pack' = IF r.usable
                    THEN [pack EXCEPT ![l] = @ \cup {[held[l] EXCEPT !.judged = r]}]
                    ELSE pack
  BY DEF Rejudge
<1>8. PICK pays \in Payments(rows[k].obj, up) :
        LET r == Report(rows[k], Census, up, pays, FALSE)
        IN  pack' = IF r.usable
                    THEN [pack EXCEPT ![l] = @ \cup {[held[l] EXCEPT !.judged = r]}]
                    ELSE pack
  BY <1>4
<1> DEFINE r == Report(rows[k], Census, up, pays, FALSE)
           m == [held[l] EXCEPT !.judged = r]
<1>5. r \in Reports
  <2>1. FALSE \in BOOLEAN
    OBVIOUS
  <2>2. \A again \in BOOLEAN : Report(rows[k], Census, up, pays, again) \in Reports
    BY <1>2, CorporaHold, ReportIsAReport
  <2> QED
    BY <2>1, <2>2
<1>6. \A q \in Reports : LET n == [held[l] EXCEPT !.judged = q]
                        IN  /\ n \in Members /\ n.judged = q
                            /\ n.obj = held[l].obj /\ n.stamp = held[l].stamp
  BY <1>1 DEF Members
<1>7. m \in Members /\ m.obj = held[l].obj /\ m.stamp = held[l].stamp /\ m.judged = r
  BY <1>5, <1>6
<1> QED
  BY <1>1, <1>2, <1>3, <1>5, <1>7, <1>8

LEMMA RejudgeShape ==
  ASSUME Shape, NEW l \in Loaders, Rejudge(l)
  PROVE  Shape'
<1>1. UNCHANGED <<rows, stores, board, reports, declined, listed>> /\ Leave(l, "strict")
  BY RejudgeEffect
<1>2. pack' \in [Loaders -> SUBSET Members]
  <2>1. pack \in [Loaders -> SUBSET Members]
    BY DEF Shape, TypeOK
  <2>2. pack' = pack \/ \E m \in Members : pack' = [pack EXCEPT ![l] = @ \cup {m}]
    BY RejudgeEffect
  <2> QED
    BY <2>1, <2>2
<1>3. TypeOK'
  BY <1>1, <1>2 DEF Shape, TypeOK, Leave, Procs
<1>4. WritersHold'
  BY <1>1, KindsDiffer DEF Shape, TypeOK, WritersHold, Leave, Procs
<1>5. LoadersHold'
  BY <1>1 DEF Shape, TypeOK, LoadersHold, Leave, Procs
<1> QED
  BY <1>1, <1>3, <1>4, <1>5 DEF Shape, RowsKeyed, ReportsKeyed

LEMMA StutterShape == Shape /\ UNCHANGED vars => Shape'
BY DEF Shape, TypeOK, WritersHold, LoadersHold, RowsKeyed, ReportsKeyed, vars, procVars, loadVars

LEMMA StepShape == Shape /\ [Next]_vars => Shape'
BY StoreShape, StoreRaisesShape, JudgeShape, IngestShape, ConstructShape, AutoCondShape,
   RelaxGuardShape, StoreShippedShape, AdmitShape, ListShape, RejudgeShape, RebuildShape,
   StutterShape DEF Next

\* The types, for any constants.
THEOREM TypeCorrect == Spec => []TypeOK
<1>1. Shape => TypeOK
  BY DEF Shape
<1> QED
  BY <1>1, InitShape, StepShape, PTL DEF Spec
-----------------------------------------------------------------------------
(* Usable means clean. *)

CleanReport(r) ==
  (r.usable /\ r.obj.guard # Unguarded) => Clean(r.obj.guard, r.obj.key, r.corpus)

LEMMA ReportsComeClean ==
  ASSUME NEW row \in Rows, NEW c \in Corpora, NEW up, NEW pays \in Payments(row.obj, up),
         NEW again \in BOOLEAN
  PROVE  CleanReport(Report(row, c, up, pays, again))
<1> DEFINE r == Report(row, c, up, pays, again)
           g == row.obj.guard
           k == row.obj.key
<1>1. r.obj = row.obj /\ r.corpus = c
  BY DEF Report
<1>2. SUFFICES ASSUME r.usable, g # Unguarded PROVE Clean(g, k, c)
  BY <1>1 DEF CleanReport
<1>3. Truth(g, k, c, up) /\ pays
  BY <1>2 DEF Report
<1>4. \A s \in Window(g, k) \cup Region(g, InReal(k, c)) : ~ Bad(s, up)
  BY <1>2, <1>3 DEF Truth
<1>5. \A s \in Region(g, Probe[k]) : Outcome[s] # "ill"
  BY <1>3 DEF Payments, TypedPay
<1> QED
  BY <1>4, <1>5 DEF Clean, Failing, Bad

LEMMA InitUsable == Init => UsableIsClean
BY DEF Init, Blank, UsableIsClean

\* A report that is new was made of the row of its key.
LEMMA ReportsChange ==
  ASSUME Shape, [Next]_vars
  PROVE  \/ reports' = reports
         \/ \E p \in Arenas \cup Clerks, k \in Keys, c \in Corpora, up \in SUBSET Flips,
               again \in BOOLEAN : \E pays \in Payments(rows[k].obj, up) :
              /\ rows[k] \in Rows /\ rows[k].obj.key = k
              /\ reports' = [reports EXCEPT ![p][k] = Report(rows[k], c, up, pays, again)]
<1>1. ASSUME NEW p \in Arenas \cup Clerks, Judge(p) PROVE
        \/ reports' = reports
        \/ \E k \in Keys, c \in Corpora, up \in SUBSET Flips, again \in BOOLEAN :
           \E pays \in Payments(rows[k].obj, up) :
             /\ rows[k] \in Rows /\ rows[k].obj.key = k
             /\ reports' = [reports EXCEPT ![p][k] = Report(rows[k], c, up, pays, again)]
  <2> DEFINE k == held[p].key
             again == p \in Clerks /\ rows[k].writer = p
  <2>1. again \in BOOLEAN /\ CorpusOf(p) \in Corpora
    BY CorpusOfProcess DEF Shape
  <2>2. /\ k \in Keys /\ rows[k] \in Rows /\ rows[k].obj.key = k
        /\ \/ reports' = reports
           \/ \E up \in SUBSET Flips : \E pays \in Payments(rows[k].obj, up) :
                reports' = [reports EXCEPT ![p][k] = Report(rows[k], CorpusOf(p), up, pays, again)]
    BY <1>1, JudgeEffect
  <2> HIDE DEF k, again
  <2> QED
    BY <2>1, <2>2
<1>2. ASSUME NEW c \in Clerks, NEW k \in Keys, Admit(c, k) PROVE
        \/ reports' = reports
        \/ \E up \in SUBSET Flips : \E pays \in Payments(rows[k].obj, up) :
             /\ rows[k] \in Rows /\ rows[k].obj.key = k
             /\ reports' = [reports EXCEPT ![c][k] = Report(rows[k], Census, up, pays, FALSE)]
  <2>1. rows[k] \in Rows /\ rows[k].obj.key = k
    BY <1>2, RowIsARow DEF Admit, Shape, RowsKeyed
  <2> QED
    BY <1>2, <2>1 DEF Admit
<1>3. CASE \E p \in Arenas \cup Clerks : Judge(p)
  BY <1>1, <1>3
<1>4. CASE \E c \in Clerks, k \in Keys : Admit(c, k)
  <2>1. FALSE \in BOOLEAN
    OBVIOUS
  <2>2. PICK c \in Clerks, k \in Keys : Admit(c, k)
    BY <1>4
  <2>3. c \in Arenas \cup Clerks
    OBVIOUS
  <2>4. CASE reports' = reports
    BY <2>4
  <2>5. CASE reports' # reports
    <3>1. PICK up \in SUBSET Flips : \E pays \in Payments(rows[k].obj, up) :
            /\ rows[k] \in Rows /\ rows[k].obj.key = k
            /\ reports' = [reports EXCEPT ![c][k] = Report(rows[k], Census, up, pays, FALSE)]
      BY <1>2, <2>2, <2>5
    <3> QED
      BY <2>1, <2>3, <3>1, CorporaHold
  <2> QED
    BY <2>4, <2>5
<1>5. CASE ~ (\E p \in Arenas \cup Clerks : Judge(p)) /\ ~ (\E c \in Clerks, k \in Keys : Admit(c, k))
  BY <1>5 DEF Next, Store, StoreRaises, Ingest, Construct, AutoCond, RelaxGuard, StoreShipped,
     List, Rejudge, Rebuild, vars, procVars
<1> QED
  BY <1>3, <1>4, <1>5

LEMMA StepUsable == Shape /\ UsableIsClean /\ [Next]_vars => UsableIsClean'
<1> SUFFICES ASSUME Shape, UsableIsClean, [Next]_vars PROVE UsableIsClean'
  OBVIOUS
<1>1. CASE reports' = reports
  BY <1>1 DEF UsableIsClean
<1>2. CASE \E p \in Arenas \cup Clerks, k \in Keys, c \in Corpora, up \in SUBSET Flips,
               again \in BOOLEAN : \E pays \in Payments(rows[k].obj, up) :
             /\ rows[k] \in Rows /\ rows[k].obj.key = k
             /\ reports' = [reports EXCEPT ![p][k] = Report(rows[k], c, up, pays, again)]
  <2>1. PICK p \in Arenas \cup Clerks, k \in Keys, c \in Corpora, up \in SUBSET Flips,
               again \in BOOLEAN : \E pays \in Payments(rows[k].obj, up) :
             /\ rows[k] \in Rows /\ rows[k].obj.key = k
             /\ reports' = [reports EXCEPT ![p][k] = Report(rows[k], c, up, pays, again)]
    BY <1>2
  <2>7. PICK pays \in Payments(rows[k].obj, up) :
          reports' = [reports EXCEPT ![p][k] = Report(rows[k], c, up, pays, again)]
    BY <2>1
  <2> DEFINE r == Report(rows[k], c, up, pays, again)
  <2>2. CleanReport(r) /\ r.obj.key = k
    BY <2>1, ReportsComeClean, ReportIsAReport
  <2>3. reports' = [reports EXCEPT ![p][k] = r]
    BY <2>7
  <2> HIDE DEF r
  <2>4. SUFFICES ASSUME NEW q \in Arenas \cup Clerks, NEW j \in Keys,
                        reports'[q][j] # None, reports'[q][j].usable,
                        reports'[q][j].obj.guard # Unguarded
                 PROVE  LET s == reports'[q][j]
                            g == s.obj.guard
                        IN  Clean(g, j, s.corpus)
    BY DEF UsableIsClean
  <2>5. CASE q = p /\ j = k
    <3>1. reports'[q][j] = r
      BY <2>3, <2>5 DEF Shape, TypeOK
    <3> QED
      BY <2>2, <2>4, <2>5, <3>1 DEF CleanReport
  <2>6. CASE ~ (q = p /\ j = k)
    <3>1. reports'[q][j] = reports[q][j]
      BY <2>3, <2>6 DEF Shape, TypeOK
    <3> QED
      BY <2>4, <3>1 DEF UsableIsClean
  <2> QED
    BY <2>5, <2>6
<1> QED
  BY <1>1, <1>2, ReportsChange

\* What the gauntlet calls usable with a guard fires on no failing site of the
\* matches and of the window, and on nothing ill-typed in the probe, on any rule,
\* corpus and guard.
THEOREM UsableIsCleanAlways == Spec => []UsableIsClean
<1>1. Init => Shape /\ UsableIsClean
  BY InitShape, InitUsable
<1>2. Shape /\ UsableIsClean /\ [Next]_vars => (Shape /\ UsableIsClean)'
  BY StepShape, StepUsable
<1> QED
  BY <1>1, <1>2, PTL DEF Spec
-----------------------------------------------------------------------------
(* Minted guards, in hand and in the table. *)

\* The guard was minted on a corpus.
MintedOn(o, c) ==
  o.guard \in SUBSET Clauses /\ \E up \in SUBSET Flips : Covers(o.guard, o.key, c, up)

MintsHold ==
  /\ \A c \in Clerks : pc[c] \in {"store", "judge"} =>
       \/ held[c].op = "shipped" /\ pc[c] = "store"
       \/ held[c].op = "auto_cond" /\ ~ held[c].hook /\ MintedOn(held[c], Census)
  /\ \A c \in Clerks : pc[c] = "judge" =>
       (rows[held[c].key].writer = c => rows[held[c].key].obj = held[c])
  /\ \A a \in Arenas : pc[a] = "store" =>
       held[a].op # "shipped" /\ (held[a].op = "auto_cond" => MintedOn(held[a], board[a]))
  /\ \A k \in Keys :
       rows[k] # None /\ rows[k].obj.op = "auto_cond" /\ rows[k].writer \in Arenas
         => MintedOn(rows[k].obj, rows[k].corpus)

\* A minted guard fires on the sites that hold, and on none that fails.
LEMMA MintedSeparates ==
  ASSUME NEW o, NEW c, MintedOn(o, c)
  PROVE  /\ Region(o.guard, Failing(Measured(o.key, c))) = {}
         /\ Holding(Measured(o.key, c)) \subseteq Region(o.guard, Measured(o.key, c))
BY DEF MintedOn, Covers, Region, Failing, Holding, Equal, Bad

\* It passes the truth gate on the corpus it was minted on, if no site of it
\* flips and one of the default window holds.
LEMMA MintedPasses ==
  ASSUME NEW o, NEW c, MintedOn(o, c), o.key \in Keys \ Nested, Holding(Synth[o.key]) # {},
         Flips \cap (Measured(o.key, c) \cup Deep[o.key]) = {}, NEW up
  PROVE  Truth(o.guard, o.key, c, up)
<1> DEFINE g == o.guard
           k == o.key
<1>1. PICK u \in SUBSET Flips : Covers(g, k, c, u)
  BY DEF MintedOn
<1>2. Synth[k] \cup InReal(k, c) \subseteq Measured(k, c)
  BY DEF Measured
<1>3. Synth[k] \subseteq Sites
  BY SitesAreSites
<1>4. PICK e \in Synth[k] : Outcome[e] = "equal"
  BY DEF Holding
<1>5. e \in Region(g, Synth[k])
  BY <1>1, <1>2, <1>4 DEF Covers, Equal, Region
<1>6. Window(g, k) = Region(g, Synth[k])
  BY <1>5 DEF Window
<1>7. ASSUME NEW s \in Window(g, k) \cup Region(g, InReal(k, c)) PROVE ~ Bad(s, up)
  <2>1. s \in Measured(k, c) /\ Fires(g, s)
    BY <1>2, <1>6 DEF Region
  <2>2. s \notin Flips
    BY <2>1
  <2>3. ~ Bad(s, u)
    BY <1>1, <2>1 DEF Covers
  <2> QED
    BY <2>2, <2>3 DEF Bad
<1>8. g # Unguarded
  BY SentinelsAreFresh DEF MintedOn
<1>9. e \in Window(g, k) /\ Equal(e, up)
  BY <1>4, <1>5, <1>6 DEF Equal
<1> QED
  BY <1>7, <1>8, <1>9 DEF Truth

LEMMA InitMints == Init => MintsHold
BY DEF Init, Blank, MintsHold, Procs

LEMMA TakeMints ==
  ASSUME Shape, MintsHold, NEW p \in Arenas \cup Clerks, NEW o \in Objects, Take(p, o),
         pc[p] = "idle", UNCHANGED <<rows, board>>,
         p \in Clerks => o.op = "shipped" \/ (o.op = "auto_cond" /\ ~ o.hook /\ MintedOn(o, Census)),
         p \in Arenas => o.op # "shipped" /\ (o.op = "auto_cond" => MintedOn(o, board[p]))
  PROVE  MintsHold'
<1>1. /\ \A q \in Arenas \cup Clerks : q # p => pc'[q] = pc[q] /\ held'[q] = held[q]
      /\ pc'[p] = "store" /\ held'[p] = o
  BY DEF Take, Shape, TypeOK, Procs
<1>2. \A x, c : MintedOn(x, c)' <=> MintedOn(x, c)
  BY DEF MintedOn
<1> QED
  BY <1>1, <1>2, KindsDiffer DEF MintsHold, Shape, WritersHold

\* A process that puts its object down, or stays as it is.
LEMMA IdleMints ==
  ASSUME Shape, MintsHold, UNCHANGED <<rows, board>>,
         \A p \in Arenas \cup Clerks :
           pc'[p] = "idle" \/ (pc'[p] = pc[p] /\ held'[p] = held[p])
  PROVE  MintsHold'
BY DEF MintsHold, MintedOn

LEMMA StoreMints ==
  ASSUME Shape, MintsHold, NEW p \in Arenas \cup Clerks, Store(p)
  PROVE  MintsHold'
<1> DEFINE k == held[p].key
<1>1. /\ k \in Keys /\ rows'[k].obj = held[p] /\ rows'[k].writer = p
      /\ (p \in Arenas => rows'[k].corpus = board[p])
      /\ \A j \in Keys \ {k} : rows'[j] = rows[j]
  BY StoreEffect DEF CorpusOf
<1>2. /\ pc[p] = "store" /\ board' = board
      /\ \A q \in Arenas \cup Clerks : q # p => pc'[q] = pc[q] /\ held'[q] = held[q]
      /\ \/ pc'[p] = "idle"
         \/ pc'[p] = "judge" /\ held'[p] = held[p] /\ held[p].op # "shipped"
  <2>1. CASE held[p].op = "shipped"
    BY <2>1 DEF Store, Leave, Shape, TypeOK, Procs
  <2>2. CASE held[p].op # "shipped"
    BY <2>2 DEF Store, Shape, TypeOK, Procs
  <2> QED
    BY <2>1, <2>2
<1>3. \A q \in Arenas \cup Clerks : pc[q] = "judge" => held[q].key \in Keys
  BY DEF Shape, WritersHold, Objects
<1>4. \A c \in Clerks : pc'[c] \in {"store", "judge"} =>
        \/ held'[c].op = "shipped" /\ pc'[c] = "store"
        \/ held'[c].op = "auto_cond" /\ ~ held'[c].hook /\ MintedOn(held'[c], Census)
  BY <1>2 DEF MintsHold
<1>5. ASSUME NEW c \in Clerks, pc'[c] = "judge", rows'[held'[c].key].writer = c
      PROVE  rows'[held'[c].key].obj = held'[c]
  <2>1. CASE c = p
    BY <1>1, <1>2, <1>5, <2>1
  <2>2. CASE c # p
    <3>1. pc[c] = "judge" /\ held'[c] = held[c] /\ held[c].key \in Keys
      BY <1>2, <1>3, <1>5, <2>2
    <3>2. held[c].key # k
      BY <1>1, <1>5, <2>2, <3>1
    <3> QED
      BY <1>1, <1>5, <3>1, <3>2 DEF MintsHold
  <2> QED
    BY <2>1, <2>2
<1>6. \A a \in Arenas : pc'[a] = "store" =>
        held'[a].op # "shipped" /\ (held'[a].op = "auto_cond" => MintedOn(held'[a], board'[a]))
  BY <1>2 DEF MintsHold
<1>7. ASSUME NEW j \in Keys, rows'[j] # None, rows'[j].obj.op = "auto_cond",
             rows'[j].writer \in Arenas
      PROVE  MintedOn(rows'[j].obj, rows'[j].corpus)
  <2>1. CASE j = k
    BY <1>1, <1>2, <1>7, <2>1 DEF MintsHold
  <2>2. CASE j # k
    BY <1>1, <1>7, <2>2 DEF MintsHold
  <2> QED
    BY <2>1, <2>2
<1>8. \A x, c : MintedOn(x, c)' <=> MintedOn(x, c)
  BY DEF MintedOn
<1> QED
  BY <1>4, <1>5, <1>6, <1>7, <1>8 DEF MintsHold
LEMMA AutoCondMints ==
  ASSUME Shape, NEW c \in Corpora, NEW o \in Objects, NEW up \in SUBSET Flips,
         NEW g \in Minted(o.key, c, up)
  PROVE  LET n == [o EXCEPT !.guard = g, !.op = "auto_cond"]
         IN  /\ n \in Objects /\ n.op = "auto_cond" /\ n.hook = o.hook /\ MintedOn(n, c)
<1> DEFINE n == [o EXCEPT !.guard = g, !.op = "auto_cond"]
<1>1. g \in SUBSET Clauses /\ g \in Guards /\ Covers(g, o.key, c, up)
  BY MintedAreGuards
<1>2. n \in Objects /\ n.key = o.key /\ n.guard = g /\ n.op = "auto_cond" /\ n.hook = o.hook
  BY <1>1 DEF Objects, Ops
<1> HIDE DEF n
<1>3. MintedOn(n, c)
  BY <1>1, <1>2 DEF MintedOn
<1> QED
  BY <1>2, <1>3 DEF n

LEMMA StepMints == Shape /\ MintsHold /\ [Next]_vars => MintsHold'
<1> SUFFICES ASSUME Shape, MintsHold, [Next]_vars PROVE MintsHold'
  OBVIOUS
<1>1. ASSUME NEW p \in Arenas \cup Clerks, Store(p) PROVE MintsHold'
  BY <1>1, StoreMints
<1>2. ASSUME NEW p \in Arenas \cup Clerks, StoreRaises(p) \/ Judge(p) PROVE MintsHold'
  <2>1. UNCHANGED <<rows, board>> /\ Leave(p, "idle")
    BY <1>2 DEF StoreRaises, Judge
  <2>2. \A q \in Arenas \cup Clerks : pc'[q] = "idle" \/ (pc'[q] = pc[q] /\ held'[q] = held[q])
    BY <2>1 DEF Leave, Shape, TypeOK, Procs
  <2>3. rows' = rows /\ board' = board
    BY <2>1
  <2> QED
    BY <2>2, <2>3 DEF MintsHold, MintedOn
<1>3. ASSUME NEW a \in Arenas, Ingest(a) PROVE MintsHold'
  <2>1. /\ UNCHANGED <<rows, pc, held>> /\ pc[a] = "idle"
        /\ \A b \in Arenas \ {a} : board'[b] = board[b]
    BY <1>3 DEF Ingest, Shape, TypeOK
  <2>2. \A x, c : MintedOn(x, c)' <=> MintedOn(x, c)
    BY DEF MintedOn
  <2> QED
    BY <2>1, <2>2 DEF MintsHold
<1>4. ASSUME NEW a \in Arenas, NEW k \in Keys, Construct(a, k) PROVE MintsHold'
  <2>1. PICK o \in Given : Take(a, o)
    BY <1>4 DEF Construct
  <2>2. o \in Objects /\ o.op = "given"
    BY GivenAreData
  <2> QED
    BY <1>4, <2>1, <2>2, TakeMints, KindsDiffer DEF Construct
<1>5. ASSUME NEW a \in Arenas, NEW k \in Keys, AutoCond(a, k) PROVE MintsHold'
  <2>1. PICK o \in Referred(k), up \in SUBSET Flips : \E g \in Minted(k, board[a], up) :
          Take(a, [o EXCEPT !.guard = g, !.op = "auto_cond"])
    BY <1>5 DEF AutoCond
  <2>2. PICK g \in Minted(k, board[a], up) : Take(a, [o EXCEPT !.guard = g, !.op = "auto_cond"])
    BY <2>1
  <2> DEFINE n == [o EXCEPT !.guard = g, !.op = "auto_cond"]
  <2>3. o \in Objects /\ o.key = k
    BY ReferredAreObjects DEF Shape
  <2>4. board[a] \in Corpora
    BY CorporaHold DEF Shape, TypeOK
  <2>5. n \in Objects /\ n.op = "auto_cond" /\ MintedOn(n, board[a])
    <3>1. g \in SUBSET Clauses /\ g \in Guards /\ Covers(g, k, board[a], up)
      BY MintedAreGuards
    <3>2. n \in Objects /\ n.key = k /\ n.guard = g /\ n.op = "auto_cond"
      BY <2>3, <3>1 DEF Objects, Ops
    <3> HIDE DEF n
    <3> QED
      BY <3>1, <3>2 DEF MintedOn
  <2>6. Take(a, n)
    BY <2>2
  <2> HIDE DEF n
  <2> QED
    BY <1>5, <2>5, <2>6, TakeMints, KindsDiffer DEF AutoCond
<1>6. ASSUME NEW a \in Arenas, NEW k \in Keys, RelaxGuard(a, k) PROVE MintsHold'
  <2>1. PICK o \in Referred(k), cl \in Clauses :
          /\ o.guard # Unguarded
          /\ Take(a, [o EXCEPT !.guard = Relaxed(o.guard, cl), !.op = "relax_guard"])
    BY <1>6 DEF RelaxGuard
  <2> DEFINE n == [o EXCEPT !.guard = Relaxed(o.guard, cl), !.op = "relax_guard"]
  <2>2. o \in Objects /\ o.guard \in Guards
    BY ReferredAreObjects DEF Shape, Objects
  <2>3. n \in Objects /\ n.op = "relax_guard"
    BY <2>1, <2>2, RelaxedIsAGuard DEF Objects, Ops
  <2>4. Take(a, n)
    BY <2>1
  <2> HIDE DEF n
  <2> QED
    BY <1>6, <2>3, <2>4, TakeMints, KindsDiffer DEF RelaxGuard
<1>7. ASSUME NEW c \in Clerks, NEW k \in Keys, StoreShipped(c, k) PROVE MintsHold'
  <2>1. PICK o \in Referred(k) : Take(c, o)
    BY <1>7 DEF StoreShipped
  <2>2. o \in Objects /\ o.op = "shipped"
    BY <1>7, LibraryIsShipped DEF StoreShipped, Referred
  <2> QED
    BY <1>7, <2>1, <2>2, TakeMints, KindsDiffer DEF StoreShipped
<1>8. ASSUME NEW c \in Clerks, NEW k \in Keys, Admit(c, k) PROVE MintsHold'
  <2>1. rows[k] # None /\ rows[k].obj \in Objects /\ rows[k].obj.key = k
    BY <1>8, RowIsARow DEF Admit, Shape, RowsKeyed
  <2>2. UNCHANGED <<rows, board>> /\ pc[c] = "idle"
    BY <1>8 DEF Admit
  <2>3. CASE UNCHANGED <<pc, held>>
    BY <2>2, <2>3, IdleMints
  <2>4. CASE \E again \in SUBSET Flips : \E g \in Minted(k, Census, again) :
               Take(c, [Live(rows[k].obj) EXCEPT !.guard = g, !.op = "auto_cond"])
    <3>1. PICK again \in SUBSET Flips : \E g \in Minted(k, Census, again) :
               Take(c, [Live(rows[k].obj) EXCEPT !.guard = g, !.op = "auto_cond"])
      BY <2>4
    <3>2. PICK g \in Minted(k, Census, again) :
               Take(c, [Live(rows[k].obj) EXCEPT !.guard = g, !.op = "auto_cond"])
      BY <3>1
    <3> DEFINE o == Live(rows[k].obj)
               n == [o EXCEPT !.guard = g, !.op = "auto_cond"]
    <3>3. o \in Objects /\ o.key = k /\ ~ o.hook
      BY <2>1, LiveIsAnObject
    <3>4. Take(c, n)
      BY <3>2
    <3> HIDE DEF o
    <3>5. n \in Objects /\ n.op = "auto_cond" /\ n.hook = o.hook /\ MintedOn(n, Census)
      BY <3>3, CorporaHold, AutoCondMints
    <3> HIDE DEF n
    <3> QED
      BY <2>2, <3>3, <3>4, <3>5, TakeMints, KindsDiffer
  <2> QED
    BY <1>8, <2>3, <2>4 DEF Admit
<1>9. ASSUME NEW l \in Loaders, List(l) \/ Rejudge(l) \/ \E k \in Keys : Rebuild(l, k)
      PROVE  MintsHold'
  <2>1. UNCHANGED <<rows, board>> /\ \A q \in Procs \ {l} : pc'[q] = pc[q] /\ held'[q] = held[q]
    BY <1>9 DEF List, Rejudge, Rebuild, Leave, Shape, TypeOK
  <2> QED
    BY <2>1, IdleMints, KindsDiffer DEF Procs
<1>10. CASE UNCHANGED vars
  BY <1>10, IdleMints DEF vars, procVars
<1> QED
  BY <1>1, <1>2, <1>3, <1>4, <1>5, <1>6, <1>7, <1>8, <1>9, <1>10 DEF Next

\* The guard that a board got minted separates the sites of the corpus its row
\* names, whatever other processes store.
THEOREM BoardsSeparateAlways == Spec => []BoardsSeparate
<1>1. Init => Shape /\ MintsHold
  BY InitShape, InitMints
<1>2. Shape /\ MintsHold /\ [Next]_vars => (Shape /\ MintsHold)'
  BY StepShape, StepMints
<1>3. ASSUME Shape, MintsHold, NEW k \in Keys, rows[k] # None,
             rows[k].obj.op = "auto_cond", rows[k].writer \in Arenas
      PROVE  /\ Region(rows[k].obj.guard, Failing(Measured(k, rows[k].corpus))) = {}
             /\ Holding(Measured(k, rows[k].corpus))
                  \subseteq Region(rows[k].obj.guard, Measured(k, rows[k].corpus))
  <2>1. MintedOn(rows[k].obj, rows[k].corpus) /\ rows[k].obj.key = k
    BY <1>3 DEF Shape, RowsKeyed, MintsHold
  <2> DEFINE o == rows[k].obj
             c == rows[k].corpus
  <2>2. MintedOn(o, c)
    BY <2>1
  <2> HIDE DEF o, c
  <2>3. /\ Region(o.guard, Failing(Measured(o.key, c))) = {}
        /\ Holding(Measured(o.key, c)) \subseteq Region(o.guard, Measured(o.key, c))
    BY <2>2, MintedSeparates
  <2> QED
    BY <2>1, <2>3 DEF o, c
<1>4. Shape /\ MintsHold => BoardsSeparate
  BY <1>3 DEF BoardsSeparate
<1> QED
  BY <1>1, <1>2, <1>4, PTL DEF Spec
-----------------------------------------------------------------------------
(* The retry, and the last report of a board. *)

\* The report of a retry is of the object the clerk has minted.
LEMMA RetriedIsMinted ==
  ASSUME Shape, MintsHold, NEW c \in Clerks, Judge(c), rows[held[c].key].writer = c
  PROVE  LET o == rows[held[c].key].obj
         IN  o.key = held[c].key /\ ~ o.hook /\ MintedOn(o, Census)
BY JudgeEffect DEF MintsHold

LEMMA MintedReportPasses ==
  ASSUME NEW row \in Rows, NEW up, NEW pays, NEW again, ~ row.obj.hook, MintedOn(row.obj, Census),
         row.obj.key \in Keys \ Nested, Holding(Synth[row.obj.key]) # {},
         Flips \cap (Measured(row.obj.key, Census) \cup Deep[row.obj.key]) = {}
  PROVE  Report(row, Census, up, pays, again).truth
<1>1. Truth(row.obj.guard, row.obj.key, Census, up)
  BY MintedPasses
<1> QED
  BY <1>1 DEF Report, MeasureRaises

LEMMA InitRetry == Init => RetryPassesTruth
BY DEF Init, Blank, RetryPassesTruth

LEMMA StepRetry == Shape /\ MintsHold /\ RetryPassesTruth /\ [Next]_vars => RetryPassesTruth'
<1> SUFFICES ASSUME Shape, MintsHold, RetryPassesTruth, [Next]_vars,
                    NEW c \in Clerks, NEW k \in Keys, reports'[c][k] # None,
                    reports'[c][k].retry, k \notin Nested, Holding(Synth[k]) # {},
                    Flips \cap (Measured(k, Census) \cup Deep[k]) = {}
             PROVE  reports'[c][k].truth
  BY DEF RetryPassesTruth
<1>1. CASE reports'[c][k] = reports[c][k]
  BY <1>1 DEF RetryPassesTruth
<1>2. ASSUME NEW p \in Arenas \cup Clerks, Judge(p), reports'[c][k] # reports[c][k]
      PROVE  reports'[c][k].truth
  <2>7. PICK up \in SUBSET Flips : \E pays \in Payments(rows[held[p].key].obj, up) :
          reports' = [reports EXCEPT ![p][held[p].key] = Report(rows[held[p].key], CorpusOf(p),
                        up, pays, p \in Clerks /\ rows[held[p].key].writer = p)]
    BY <1>2, JudgeEffect
  <2>1. PICK pays \in Payments(rows[held[p].key].obj, up) :
          reports' = [reports EXCEPT ![p][held[p].key] = Report(rows[held[p].key], CorpusOf(p),
                        up, pays, p \in Clerks /\ rows[held[p].key].writer = p)]
    BY <2>7
  <2>2. /\ p = c /\ k = held[c].key
        /\ reports'[c][k] = Report(rows[k], CorpusOf(c), up, pays, c \in Clerks /\ rows[k].writer = c)
    BY <1>2, <2>1 DEF Shape, TypeOK
  <2> DEFINE again == c \in Clerks /\ rows[k].writer = c
  <2>3. rows[k].writer = c
    <3>1. Report(rows[k], CorpusOf(c), up, pays, again).retry = again
      BY DEF Report
    <3>2. reports'[c][k].retry = again
      BY <2>2, <3>1
    <3> QED
      BY <3>2
  <2>4. rows[k].obj.key = k /\ ~ rows[k].obj.hook /\ MintedOn(rows[k].obj, Census) /\ rows[k] \in Rows
    BY <1>2, <2>2, <2>3, RetriedIsMinted, JudgeEffect
  <2>5. CorpusOf(c) = Census
    BY KindsDiffer DEF CorpusOf
  <2>6. Report(rows[k], Census, up, pays, c \in Clerks /\ rows[k].writer = c).truth
    BY <2>4, MintedReportPasses
  <2> QED
    BY <2>2, <2>5, <2>6
<1>3. ASSUME NEW d \in Clerks, NEW j \in Keys, Admit(d, j), reports'[c][k] # reports[c][k]
      PROVE  FALSE
  <2>3. PICK up \in SUBSET Flips : \E pays \in Payments(rows[j].obj, up) :
          reports' = [reports EXCEPT ![d][j] = Report(rows[j], Census, up, pays, FALSE)]
    BY <1>3 DEF Admit
  <2>1. PICK pays \in Payments(rows[j].obj, up) :
          reports' = [reports EXCEPT ![d][j] = Report(rows[j], Census, up, pays, FALSE)]
    BY <2>3
  <2>2. reports'[c][k] = Report(rows[j], Census, up, pays, FALSE)
    BY <1>3, <2>1 DEF Shape, TypeOK
  <2> QED
    BY <2>2 DEF Report
<1>4. CASE ~ (\E p \in Arenas \cup Clerks : Judge(p)) /\ ~ (\E d \in Clerks, j \in Keys : Admit(d, j))
  <2>1. reports' = reports
    BY <1>4 DEF Next, Store, StoreRaises, Ingest, Construct, AutoCond, RelaxGuard, StoreShipped,
       List, Rejudge, Rebuild, vars, procVars
  <2> QED
    BY <1>1, <2>1
<1> QED
  BY <1>1, <1>2, <1>3, <1>4

\* The object a retry has written passes the truth gate, whatever is stored
\* between the two gauntlets, or another process wrote over it.
THEOREM RetryPassesTruthAlways == Spec => []RetryPassesTruth
<1>1. Init => Shape /\ MintsHold /\ RetryPassesTruth
  BY InitShape, InitMints, InitRetry
<1>2. Shape /\ MintsHold /\ RetryPassesTruth /\ [Next]_vars
        => (Shape /\ MintsHold /\ RetryPassesTruth)'
  BY StepShape, StepMints, StepRetry
<1> QED
  BY <1>1, <1>2, PTL DEF Spec

LEMMA InitDescribe == Init => ReportsDescribeRows
BY DEF Init, Blank, ReportsDescribeRows

LEMMA StepDescribe == Shape /\ MintsHold /\ ReportsDescribeRows /\ [Next]_vars => ReportsDescribeRows'
<1> SUFFICES ASSUME Shape, MintsHold, ReportsDescribeRows, [Next]_vars,
                    NEW a \in Arenas, NEW k \in Keys,
                    rows'[k] # None, rows'[k].writer = a, k \notin declined'[a],
                    ~ (pc'[a] = "judge" /\ held'[a].key = k)
             PROVE  reports'[a][k] # None /\ reports'[a][k].stamp = rows'[k].stamp
  BY DEF ReportsDescribeRows
<1>1. ASSUME rows' = rows, reports'[a] = reports[a], declined'[a] = declined[a],
             (pc'[a] = pc[a] /\ held'[a] = held[a]) \/ pc[a] # "judge"
      PROVE  reports'[a][k] # None /\ reports'[a][k].stamp = rows'[k].stamp
  BY <1>1 DEF ReportsDescribeRows
<1>2. ASSUME NEW p \in Arenas \cup Clerks, Store(p)
      PROVE  reports'[a][k] # None /\ reports'[a][k].stamp = rows'[k].stamp
  <2>1. /\ rows'[held[p].key].obj = held[p] /\ rows'[held[p].key].writer = p
        /\ \A j \in Keys \ {held[p].key} : rows'[j] = rows[j]
    BY <1>2, StoreEffect
  <2>2. UNCHANGED <<reports, declined>> /\ pc[p] = "store"
    BY <1>2 DEF Store
  <2>3. k # held[p].key
    <3>1. SUFFICES ASSUME k = held[p].key PROVE FALSE
      OBVIOUS
    <3>2. a = p /\ held[a].op # "shipped"
      BY <2>1, <2>2, <3>1 DEF MintsHold
    <3>3. pc'[a] = "judge" /\ held'[a] = held[a]
      BY <1>2, <3>2 DEF Store, Shape, TypeOK, Procs
    <3> QED
      BY <3>1, <3>2, <3>3
  <2>4. rows'[k] = rows[k]
    BY <2>1, <2>3
  <2>5. (pc'[a] = pc[a] /\ held'[a] = held[a]) \/ pc[a] = "store"
    BY <1>2, <2>2 DEF Store, Leave, Shape, TypeOK, Procs
  <2> QED
    BY <2>2, <2>4, <2>5 DEF ReportsDescribeRows
<1>3. ASSUME NEW p \in Arenas \cup Clerks, Judge(p)
      PROVE  reports'[a][k] # None /\ reports'[a][k].stamp = rows'[k].stamp
  <2> DEFINE j == held[p].key
  <2>1. /\ j \in Keys /\ rows[j] \in Rows /\ rows' = rows /\ pc[p] = "judge" /\ Leave(p, "idle")
        /\ \/ reports' = reports /\ declined' = [declined EXCEPT ![p] = @ \cup {j}]
           \/ /\ declined' = [declined EXCEPT ![p] = @ \ {j}]
              /\ \E up \in SUBSET Flips : \E pays \in Payments(rows[j].obj, up) :
                   reports' = [reports EXCEPT ![p][j] =
                     Report(rows[j], CorpusOf(p), up, pays, p \in Clerks /\ rows[j].writer = p)]
    BY <1>3, JudgeEffect
  <2>2. CASE a = p /\ k = j
    <3>1. k \notin declined'[a] /\ declined' # [declined EXCEPT ![p] = @ \cup {j}]
      BY <2>2 DEF Shape, TypeOK
    <3>7. PICK up \in SUBSET Flips : \E pays \in Payments(rows[j].obj, up) :
            reports' = [reports EXCEPT ![p][j] =
              Report(rows[j], CorpusOf(p), up, pays, p \in Clerks /\ rows[j].writer = p)]
      BY <2>1, <3>1
    <3>2. PICK pays \in Payments(rows[j].obj, up) : reports' = [reports EXCEPT ![p][j] =
            Report(rows[j], CorpusOf(p), up, pays, p \in Clerks /\ rows[j].writer = p)]
      BY <3>7
    <3> DEFINE again == p \in Clerks /\ rows[j].writer = p
               r == Report(rows[j], CorpusOf(p), up, pays, again)
    <3>3. again \in BOOLEAN /\ CorpusOf(p) \in Corpora
      BY CorpusOfProcess DEF Shape
    <3> HIDE DEF again
    <3>4. r # None /\ r.stamp = rows[j].stamp
      BY <2>1, <3>3, ReportIsAReport
    <3>5. reports' = [reports EXCEPT ![p][j] = r]
      BY <3>2 DEF again
    <3> HIDE DEF r
    <3>6. reports'[a][k] = r
      BY <2>1, <2>2, <3>5 DEF Shape, TypeOK
    <3> QED
      BY <2>1, <2>2, <3>4, <3>6
  <2>3. CASE ~ (a = p /\ k = j)
    <3>1. reports'[a][k] = reports[a][k] /\ (k \in declined[a] => k \in declined'[a])
      BY <2>1, <2>3 DEF Shape, TypeOK
    <3>2. ~ (pc[a] = "judge" /\ held[a].key = k)
      BY <2>1, <2>3 DEF Leave, Shape, TypeOK, Procs
    <3> QED
      BY <2>1, <3>1, <3>2 DEF ReportsDescribeRows
  <2> QED
    BY <2>2, <2>3
<1>4. ASSUME NEW c \in Clerks, NEW j \in Keys, Admit(c, j)
      PROVE  reports'[a][k] # None /\ reports'[a][k].stamp = rows'[k].stamp
  <2>1. c # a /\ rows' = rows /\ declined' = declined
    BY <1>4, KindsDiffer DEF Admit
  <2>2. reports'[a] = reports[a]
    BY <1>4, <2>1 DEF Admit, Shape, TypeOK
  <2>3. pc'[a] = pc[a] /\ held'[a] = held[a]
    BY <1>4, <2>1 DEF Admit, Take, Shape, TypeOK, Procs
  <2> QED
    BY <1>1, <2>1, <2>2, <2>3
<1>5. ASSUME NEW l \in Loaders, List(l) \/ Rejudge(l) \/ \E j \in Keys : Rebuild(l, j)
      PROVE  reports'[a][k] # None /\ reports'[a][k].stamp = rows'[k].stamp
  <2>1. UNCHANGED <<rows, reports, declined>> /\ \A q \in Procs \ {l} : pc'[q] = pc[q] /\ held'[q] = held[q]
    BY <1>5 DEF List, Rejudge, Rebuild, Leave, Shape, TypeOK
  <2> QED
    BY <1>1, <2>1, KindsDiffer DEF Procs
<1>6. ASSUME NEW p \in Arenas \cup Clerks, UNCHANGED <<rows, reports, declined>>,
             pc[p] # "judge", \A q \in Procs \ {p} : pc'[q] = pc[q] /\ held'[q] = held[q]
      PROVE  reports'[a][k] # None /\ reports'[a][k].stamp = rows'[k].stamp
  <2>1. (pc'[a] = pc[a] /\ held'[a] = held[a]) \/ pc[a] # "judge"
    BY <1>6 DEF Procs
  <2> QED
    BY <1>1, <1>6, <2>1
<1>7. ASSUME NEW p \in Arenas \cup Clerks, NEW o, Take(p, o), pc[p] = "idle",
             UNCHANGED <<rows, reports, declined>>
      PROVE  reports'[a][k] # None /\ reports'[a][k].stamp = rows'[k].stamp
  BY <1>6, <1>7 DEF Take, Shape, TypeOK
<1>8. ASSUME NEW b \in Arenas,
             Ingest(b) \/ \E j \in Keys : Construct(b, j) \/ AutoCond(b, j) \/ RelaxGuard(b, j)
      PROVE  reports'[a][k] # None /\ reports'[a][k].stamp = rows'[k].stamp
  <2>1. CASE Ingest(b)
    BY <1>1, <2>1 DEF Ingest
  <2>2. CASE \E j \in Keys : Construct(b, j) \/ AutoCond(b, j) \/ RelaxGuard(b, j)
    <3>1. pc[b] = "idle" /\ UNCHANGED <<rows, reports, declined>> /\ \E o : Take(b, o)
      BY <2>2 DEF Construct, AutoCond, RelaxGuard
    <3> QED
      BY <1>7, <3>1
  <2> QED
    BY <1>8, <2>1, <2>2
<1>9. ASSUME NEW p \in Arenas \cup Clerks, StoreRaises(p)
      PROVE  reports'[a][k] # None /\ reports'[a][k].stamp = rows'[k].stamp
  BY <1>6, <1>9 DEF StoreRaises, Leave, Shape, TypeOK
<1>10. ASSUME NEW c \in Clerks, NEW j \in Keys, StoreShipped(c, j)
       PROVE  reports'[a][k] # None /\ reports'[a][k].stamp = rows'[k].stamp
  <2>1. pc[c] = "idle" /\ UNCHANGED <<rows, reports, declined>> /\ \E o : Take(c, o)
    BY <1>10 DEF StoreShipped
  <2> QED
    BY <1>7, <2>1
<1>11. CASE UNCHANGED vars
  BY <1>1, <1>11 DEF vars, procVars
<1> QED
  BY <1>2, <1>3, <1>4, <1>5, <1>8, <1>9, <1>10, <1>11 DEF Next

\* What a board shows of a row it wrote last is the judgement of that row,
\* unless the judgement raised.
THEOREM ReportsDescribeRowsAlways == Spec => []ReportsDescribeRows
<1>1. Init => Shape /\ MintsHold /\ ReportsDescribeRows
  BY InitShape, InitMints, InitDescribe
<1>2. Shape /\ MintsHold /\ ReportsDescribeRows /\ [Next]_vars
        => (Shape /\ MintsHold /\ ReportsDescribeRows)'
  BY StepShape, StepMints, StepDescribe
<1> QED
  BY <1>1, <1>2, PTL DEF Spec
-----------------------------------------------------------------------------
(* The pack. *)

\* An object in a loader's hands is the one of the row as it was rebuilt; a
\* later row of its key has a later stamp.  One kept was judged clean, and is
\* the object judged when the stamps agree.
PacksHold ==
  \A l \in Loaders :
    /\ pc[l] = "rejudge" =>
         LET row == rows[held[l].obj.key]
         IN  /\ held[l].stamp <= row.stamp
             /\ held[l].stamp = row.stamp => held[l].obj = row.obj
    /\ \A m \in pack[l] : m.judged # None =>
         /\ m.judged.usable /\ m.judged.corpus = Census /\ CleanReport(m.judged)
         /\ m.judged.stamp = m.stamp => m.judged.obj = m.obj

LEMMA InitPacks == Init => PacksHold
BY DEF Init, PacksHold, Procs

\* Steps that touch no loader and no row, or treat a row without judging it.
LEMMA QuietPacks ==
  ASSUME Shape, PacksHold, rows' = rows,
         \A l \in Loaders :
           /\ pc'[l] = "rejudge" => pc[l] = "rejudge" /\ held'[l] = held[l]
           /\ \A m \in pack'[l] : m \in pack[l] \/ m.judged = None
  PROVE  PacksHold'
<1>1. \A r : CleanReport(r)' <=> CleanReport(r)
  BY DEF CleanReport
<1> QED
  BY <1>1 DEF PacksHold

LEMMA StorePacks ==
  ASSUME Shape, PacksHold, NEW p \in Arenas \cup Clerks, Store(p)
  PROVE  PacksHold'
<1>1. /\ rows'[held[p].key].stamp = stores + 1 /\ stores \in Nat
      /\ \A j \in Keys \ {held[p].key} : rows'[j] = rows[j]
  BY StoreEffect
<1>2. pack' = pack /\ \A l \in Loaders : pc'[l] = pc[l] /\ held'[l] = held[l]
  BY KindsDiffer DEF Store, Leave, Shape, TypeOK, Procs, loadVars
<1>3. ASSUME NEW l \in Loaders, pc[l] = "rejudge"
      PROVE  LET row == rows'[held[l].obj.key]
             IN  /\ held[l].stamp <= row.stamp
                 /\ held[l].stamp = row.stamp => held[l].obj = row.obj
  <2> DEFINE k == held[l].obj.key
  <2>1. /\ k \in Keys /\ rows[k] # None /\ held[l].stamp \in Nat
        /\ held[l].stamp <= rows[k].stamp
        /\ held[l].stamp = rows[k].stamp => held[l].obj = rows[k].obj
    BY <1>3 DEF Shape, LoadersHold, PacksHold, Members, Objects
  <2>2. rows[k].stamp \in Nat /\ rows[k].stamp <= stores
    BY <2>1, RowIsARow DEF Shape, RowsKeyed
  <2>3. CASE k = held[p].key
    BY <1>1, <2>1, <2>2, <2>3
  <2>4. CASE k # held[p].key
    BY <1>1, <2>1, <2>4
  <2> QED
    BY <2>3, <2>4
<1>4. \A r : CleanReport(r)' <=> CleanReport(r)
  BY DEF CleanReport
<1> QED
  BY <1>2, <1>3, <1>4 DEF PacksHold

LEMMA RebuildPacks ==
  ASSUME Shape, PacksHold, NEW l \in Loaders, NEW k \in Keys, Rebuild(l, k)
  PROVE  PacksHold'
<1> DEFINE m == [obj |-> rows[k].obj, stamp |-> rows[k].stamp, judged |-> None]
<1>1. m \in Members /\ m.obj = rows[k].obj /\ m.obj.key = k /\ m.stamp = rows[k].stamp
      /\ m.judged = None /\ m.stamp \in Nat
  BY RebuiltIsAMember DEF Rebuild, Members
<1>2. /\ rows' = rows
      /\ \/ UNCHANGED <<pc, held, pack>>
         \/ UNCHANGED <<pc, held>> /\ pack' = [pack EXCEPT ![l] = @ \cup {m}]
         \/ /\ held' = [held EXCEPT ![l] = m] /\ pc' = [pc EXCEPT ![l] = "rejudge"]
            /\ UNCHANGED pack
  BY DEF Rebuild
<1> HIDE DEF m
<1>3. \A r : CleanReport(r)' <=> CleanReport(r)
  BY DEF CleanReport
<1>4. \A j \in Loaders : \A n \in pack'[j] : n \in pack[j] \/ n.judged = None
  BY <1>1, <1>2 DEF Shape, TypeOK
<1>5. ASSUME NEW j \in Loaders, pc'[j] = "rejudge"
      PROVE  LET row == rows'[held'[j].obj.key]
             IN  /\ held'[j].stamp <= row.stamp
                 /\ held'[j].stamp = row.stamp => held'[j].obj = row.obj
  <2>1. CASE pc[j] = "rejudge" /\ held'[j] = held[j]
    BY <1>2, <2>1 DEF PacksHold
  <2>2. CASE j = l /\ held'[j] = m
    BY <1>1, <1>2, <2>2
  <2>3. (pc[j] = "rejudge" /\ held'[j] = held[j]) \/ (j = l /\ held'[j] = m)
    BY <1>2, <1>5 DEF Shape, TypeOK, Procs
  <2> QED
    BY <2>1, <2>2, <2>3
<1> QED
  BY <1>3, <1>4, <1>5 DEF PacksHold

LEMMA RejudgePacks ==
  ASSUME Shape, PacksHold, NEW l \in Loaders, Rejudge(l)
  PROVE  PacksHold'
<1> DEFINE k == held[l].obj.key
<1>1. /\ pc[l] = "rejudge" /\ k \in Keys /\ rows[k] \in Rows /\ rows' = rows
      /\ Leave(l, "strict")
  BY RejudgeEffect DEF Rejudge
<1>2. \A j \in Loaders : pc'[j] = "rejudge" => pc[j] = "rejudge" /\ held'[j] = held[j]
  BY <1>1 DEF Leave, Shape, TypeOK, Procs
<1>3. CASE pack' = pack
  BY <1>1, <1>2, <1>3, QuietPacks
<1>4. CASE pack' # pack
  <2>1. PICK up \in SUBSET Flips : \E pays \in Payments(rows[k].obj, up) :
          LET r == Report(rows[k], Census, up, pays, FALSE)
              m == [held[l] EXCEPT !.judged = r]
          IN  /\ r \in Reports /\ r.usable /\ m \in Members
              /\ m.obj = held[l].obj /\ m.stamp = held[l].stamp /\ m.judged = r
              /\ pack' = [pack EXCEPT ![l] = @ \cup {m}]
    BY <1>4, RejudgeEffect
  <2>8. PICK pays \in Payments(rows[k].obj, up) :
          LET r == Report(rows[k], Census, up, pays, FALSE)
              m == [held[l] EXCEPT !.judged = r]
          IN  /\ r \in Reports /\ r.usable
              /\ m.obj = held[l].obj /\ m.stamp = held[l].stamp /\ m.judged = r
              /\ pack' = [pack EXCEPT ![l] = @ \cup {m}]
    BY <2>1
  <2> DEFINE r == Report(rows[k], Census, up, pays, FALSE)
             m == [held[l] EXCEPT !.judged = r]
  <2>2. r.obj = rows[k].obj /\ r.stamp = rows[k].stamp /\ r.corpus = Census
    BY DEF Report
  <2>3. CleanReport(r)
    <3>1. FALSE \in BOOLEAN
      OBVIOUS
    <3>2. \A again \in BOOLEAN : CleanReport(Report(rows[k], Census, up, pays, again))
      BY <1>1, CorporaHold, ReportsComeClean
    <3> QED
      BY <3>1, <3>2
  <2>4. /\ r.usable /\ m.obj = held[l].obj /\ m.stamp = held[l].stamp /\ m.judged = r
        /\ pack' = [pack EXCEPT ![l] = @ \cup {m}]
    BY <2>8
  <2>5. held[l].stamp = rows[k].stamp => held[l].obj = rows[k].obj
    BY <1>1 DEF PacksHold
  <2> HIDE DEF m, r
  <2>6. \A j \in Loaders : \A n \in pack'[j] : n \in pack[j] \/ n = m
    BY <2>4 DEF Shape, TypeOK
  <2>7. \A q : CleanReport(q)' <=> CleanReport(q)
    BY DEF CleanReport
  <2> QED
    BY <1>1, <1>2, <2>2, <2>3, <2>4, <2>5, <2>6, <2>7 DEF PacksHold
<1> QED
  BY <1>3, <1>4

LEMMA StepPacks == Shape /\ PacksHold /\ [Next]_vars => PacksHold'
<1> SUFFICES ASSUME Shape, PacksHold, [Next]_vars PROVE PacksHold'
  OBVIOUS
<1>1. ASSUME NEW l \in Loaders, List(l) PROVE PacksHold'
  <2>1. rows' = rows /\ pack' = pack
        /\ \A j \in Loaders : pc'[j] = "rejudge" => pc[j] = "rejudge" /\ held'[j] = held[j]
    BY <1>1 DEF List, Shape, TypeOK, Procs
  <2> QED
    BY <2>1, QuietPacks
<1>2. ASSUME NEW p \in Arenas \cup Clerks, rows' = rows, pack' = pack,
             \A q \in Procs \ {p} : pc'[q] = pc[q] /\ held'[q] = held[q]
      PROVE  PacksHold'
  <2>1. \A j \in Loaders : pc'[j] = pc[j] /\ held'[j] = held[j]
    BY <1>2, KindsDiffer DEF Procs
  <2> QED
    BY <1>2, <2>1, QuietPacks
<1>3. ASSUME NEW p \in Arenas \cup Clerks, StoreRaises(p) \/ Judge(p) PROVE PacksHold'
  <2>1. rows' = rows /\ pack' = pack /\ Leave(p, "idle")
    BY <1>3 DEF StoreRaises, Judge, loadVars
  <2> QED
    BY <1>2, <2>1 DEF Leave, Shape, TypeOK
<1>4. ASSUME NEW p \in Arenas \cup Clerks, rows' = rows, pack' = pack,
             UNCHANGED <<pc, held>> \/ \E o : Take(p, o)
      PROVE  PacksHold'
  BY <1>2, <1>4 DEF Take, Shape, TypeOK
<1>5. ASSUME NEW a \in Arenas, Ingest(a) \/ \E k \in Keys :
               Construct(a, k) \/ AutoCond(a, k) \/ RelaxGuard(a, k)
      PROVE  PacksHold'
  <2>1. rows' = rows /\ pack' = pack /\ (UNCHANGED <<pc, held>> \/ \E o : Take(a, o))
    BY <1>5 DEF Ingest, Construct, AutoCond, RelaxGuard, loadVars
  <2> QED
    BY <1>4, <2>1
<1>6. ASSUME NEW c \in Clerks, NEW k \in Keys, StoreShipped(c, k) \/ Admit(c, k) PROVE PacksHold'
  <2>1. CASE StoreShipped(c, k)
    <3>1. rows' = rows /\ pack' = pack /\ \E o : Take(c, o)
      BY <2>1 DEF StoreShipped, loadVars
    <3> QED
      BY <1>4, <3>1
  <2>2. CASE Admit(c, k)
    <3>1. rows' = rows /\ pack' = pack /\ (UNCHANGED <<pc, held>> \/ \E o : Take(c, o))
      BY <2>2 DEF Admit, loadVars
    <3> QED
      BY <1>4, <3>1
  <2> QED
    BY <1>6, <2>1, <2>2
<1>7. CASE UNCHANGED vars
  BY <1>7, QuietPacks DEF vars, procVars, loadVars
<1> QED
  BY <1>1, <1>3, <1>5, <1>6, <1>7, StorePacks, RebuildPacks, RejudgePacks DEF Next

\* What a loader keeps after a second gauntlet is clean on the corpus and the
\* window and fires on nothing ill-typed in the probe, when the row is still the
\* one it was rebuilt from.
THEOREM ReadmittedAreCleanAlways == Spec => []ReadmittedAreClean
<1>1. Init => Shape /\ PacksHold
  BY InitShape, InitPacks
<1>2. Shape /\ PacksHold /\ [Next]_vars => (Shape /\ PacksHold)'
  BY StepShape, StepPacks
<1>3. Shape /\ PacksHold => ReadmittedAreClean
  BY DEF PacksHold, CleanReport, ReadmittedAreClean
<1> QED
  BY <1>1, <1>2, <1>3, PTL DEF Spec
=============================================================================
