----------------------------- MODULE Extraction -----------------------------
(***************************************************************************)
(* Choosing a term from an e-graph: extract_best and extract_min_depth     *)
(* (egraph/extract.py), any_term and _min_term (egraph/core.py).           *)
(*                                                                         *)
(* Each is a depth-first walk that may meet a cycle of classes and shares  *)
(* results through a cache; the walks are functions that thread the cache. *)
(* The e-graph is a rebuilt one, so a class is its set of members and a    *)
(* member belongs to one class.  The actions grow it as adding terms and   *)
(* merging classes would: whatever is added has children already there.    *)
(***************************************************************************)
EXTENDS EGraph

LOCAL INSTANCE SequencesExt
LOCAL INSTANCE FiniteSetsExt

CONSTANTS
  Classes,     \* bound: the class ids
  Pool,        \* bound: the enodes that may be added
  MaxMembers,  \* bound: members of a class
  Cost,        \* operator or leaf key -> what cost_fn charges for it alone
  Foldable,    \* _FOLDABLE_OPS
  Params       \* the leaf keys that are not Vars

ASSUME CostsAreNat == \A k \in DOMAIN Cost : Cost[k] \in Nat
ASSUME MaxMembersIsNat == MaxMembers \in Nat

VARIABLE members   \* EClass.nodes

NoTerm == <<>>
Inf    == 1000     \* more than any term within the bounds costs

IsLeaf(n) == n[1] = "leaf"
Present   == {c \in Classes : members[c] # {}}
InOrder(c) ==
  Ranked(members[c], LAMBDA a, b : KeyBefore(MemberKey(a), MemberKey(b)))

Init == members = [c \in Classes |-> {}]

\* An enode over classes that have members is added, as a class of its own
\* or, once merged, as one more member of another.
AddMember(c, n) ==
  /\ Kids(n) \subseteq Present
  /\ \A d \in Classes : n \notin members[d]
  /\ Cardinality(members[c]) < MaxMembers
  /\ members' = [members EXCEPT ![c] = @ \cup {n}]

Next == \E c \in Classes, n \in Pool : AddMember(c, n)
Spec == Init /\ [][Next]_members

-----------------------------------------------------------------------------
(* extract_best: the cache entry of a class, and what its member is billed. *)

Unextractable ==
  [total |-> Inf, term |-> NoTerm, used |-> {}, param_only |-> FALSE,
   nops |-> 0, local |-> 0]

\* used, less what is charged already: each class is charged once.
\* Bug: a shared class is charged by every parent.
ChargeAgain(used, charged) == used
ChargeOnce(used, charged)  == used \ charged

Billable(e) == IF e.param_only THEN 0 ELSE e.local

\* w = [cache, in_progress]; Best and Candidate return [w, e].
RECURSIVE Best(_, _)
Candidate(w, c, n) ==
  IF IsLeaf(n)
  THEN [w |-> w,
        e |-> [total |-> Cost[n[3]], term |-> n, used |-> {c},
               param_only |-> n[3] \in Params, nops |-> 0, local |-> Cost[n[3]]]]
  ELSE
  LET Child(acc, k) ==
        IF ~acc.ok \/ k = c THEN [acc EXCEPT !.ok = FALSE] ELSE
        LET r == Best(acc.w, k) IN
        IF r.e.term = NoTerm THEN [acc EXCEPT !.w = r.w, !.ok = FALSE] ELSE
        [w |-> r.w, ok |-> TRUE,
         terms |-> Append(acc.terms, r.e.term),
         used |-> acc.used \cup r.e.used,
         sub |-> acc.sub + MapThenSumSet(LAMBDA u : Billable(r.w.cache[u]),
                                           ChargeOnce(r.e.used, acc.used)),
         param_only |-> acc.param_only /\ r.e.param_only,
         nops |-> acc.nops + r.e.nops]
      kids == FoldLeft(Child, [w |-> w, ok |-> TRUE, terms |-> <<>>, used |-> {c},
                               sub |-> 0, param_only |-> TRUE, nops |-> 0], n[2])
      param_only == kids.param_only /\ n[1] \in Foldable
      local == IF param_only THEN 0 ELSE Cost[n[1]]
  IN  [w |-> kids.w,
       e |-> IF ~kids.ok THEN Unextractable
             ELSE [total |-> local + kids.sub, term |-> <<n[1], kids.terms, n[3]>>,
                   used |-> kids.used, param_only |-> param_only,
                   nops |-> kids.nops + 1, local |-> local]]

Better(e, best) ==
  \/ e.total < best.total
  \/ e.total = best.total /\ ~IsLeaf(e.term) /\ e.nops < best.nops

Best(w, c) ==
  IF c \in DOMAIN w.cache THEN [w |-> w, e |-> w.cache[c]] ELSE
  IF c \in w.in_progress THEN [w |-> w, e |-> Unextractable] ELSE
  LET Try(acc, n) ==
        LET r == Candidate(acc.w, c, n)
        IN  [w |-> r.w,
             e |-> IF r.e.term # NoTerm /\ (acc.e.term = NoTerm \/ Better(r.e, acc.e))
                   THEN r.e ELSE acc.e]
      won == FoldLeft(Try, [w |-> [w EXCEPT !.in_progress = @ \cup {c}],
                            e |-> Unextractable], InOrder(c))
  IN  [w |-> [cache |-> won.w.cache @@ (c :> won.e),
              in_progress |-> w.in_progress],
       e |-> won.e]

extract_best(c) == Best([cache |-> <<>>, in_progress |-> {}], c).e

-----------------------------------------------------------------------------
(* extract_min_depth: entries are [depth, term]. *)

\* Bug: a member is as deep as its shallowest child.
Shallowest(a, b) == IF a = 0 \/ b < a THEN b ELSE a
Deepest(a, b) == IF a > b THEN a ELSE b

RECURSIVE Shallow(_, _)
DepthOf(w, c, n) ==
  IF IsLeaf(n) THEN [w |-> w, e |-> [depth |-> 0, term |-> n]] ELSE
  LET Child(acc, k) ==
        IF acc.terms = NoTerm \/ k = c THEN [acc EXCEPT !.terms = NoTerm] ELSE
        LET r == Shallow(acc.w, k)
        IN  [w |-> r.w, depth |-> Deepest(acc.depth, r.e.depth),
             terms |-> IF r.e.term = NoTerm THEN NoTerm
                       ELSE Append(acc.terms, r.e.term)]
      kids == FoldLeft(Child, [w |-> w, depth |-> 0, terms |-> <<n[1]>>], n[2])
  IN  [w |-> kids.w,
       e |-> IF kids.terms = NoTerm THEN [depth |-> Inf, term |-> NoTerm]
             ELSE [depth |-> 1 + kids.depth,
                   term |-> <<n[1], Tail(kids.terms), n[3]>>]]

Shallow(w, c) ==
  IF c \in DOMAIN w.cache THEN [w |-> w, e |-> w.cache[c]] ELSE
  IF c \in w.in_progress THEN [w |-> w, e |-> [depth |-> Inf, term |-> NoTerm]] ELSE
  LET Try(acc, n) ==
        LET r == DepthOf(acc.w, c, n)
        IN  [w |-> r.w, e |-> IF r.e.depth < acc.e.depth THEN r.e ELSE acc.e]
      won == FoldLeft(Try, [w |-> [w EXCEPT !.in_progress = @ \cup {c}],
                            e |-> [depth |-> Inf, term |-> NoTerm]], InOrder(c))
  IN  [w |-> [cache |-> won.w.cache @@ (c :> won.e),
              in_progress |-> w.in_progress],
       e |-> won.e]

extract_min_depth(c) == Shallow([cache |-> <<>>, in_progress |-> {}], c).e

-----------------------------------------------------------------------------
(* any_term and _min_term: the walk carries the classes above it (seen) and  *)
(* memoises what it found, never that it found nothing.                     *)

Leaves(c) == SelectSeq(InOrder(c), IsLeaf)

\* Bug: a class that failed below one path is remembered as hopeless.
RememberAll(memo, c, found) == memo @@ (c :> found)
Remember(memo, c, found) ==
  IF found.term = NoTerm THEN memo ELSE memo @@ (c :> found)

\* The member's term and size, from walking its children with Walk.
Built(Walk(_, _, _), c, n, seen, memo) ==
  LET Child(acc, k) ==
        IF acc.terms = NoTerm \/ k \in seen THEN [acc EXCEPT !.terms = NoTerm] ELSE
        LET r == Walk(k, seen, acc.memo)
        IN  [memo |-> r.memo, size |-> acc.size + r.found.size,
             terms |-> IF r.found.term = NoTerm THEN NoTerm
                       ELSE Append(acc.terms, r.found.term)]
      kids == FoldLeft(Child, [memo |-> memo, size |-> 1, terms |-> <<n[1]>>], n[2])
  IN  [memo |-> kids.memo,
       found |-> IF kids.terms = NoTerm THEN [term |-> NoTerm, size |-> Inf]
                 ELSE [term |-> <<n[1], Tail(kids.terms), n[3]>>, size |-> kids.size]]

\* The first member, in order, that is acyclic below seen.
RECURSIVE AnyTerm(_, _, _)
AnyTerm(c, seen, memo) ==
  IF Leaves(c) # <<>>
  THEN [memo |-> memo, found |-> [term |-> Head(Leaves(c)), size |-> 1]]
  ELSE IF c \in DOMAIN memo THEN [memo |-> memo, found |-> memo[c]] ELSE
  LET Try(acc, n) ==
        IF acc.found.term # NoTerm THEN acc
        ELSE Built(AnyTerm, c, n, seen \cup {c}, acc.memo)
      won == FoldLeft(Try, [memo |-> memo, found |-> [term |-> NoTerm, size |-> Inf]],
                      InOrder(c))
  IN  [won EXCEPT !.memo = Remember(@, c, won.found)]

\* The smallest such member; a leaf at once.
RECURSIVE MinTerm(_, _, _)
MinTerm(c, seen, memo) ==
  IF Leaves(c) # <<>>
  THEN LET leaf == [term |-> Head(Leaves(c)), size |-> 1]
       IN  [memo |-> (c :> leaf) @@ memo, found |-> leaf]
  ELSE IF c \in DOMAIN memo THEN [memo |-> memo, found |-> memo[c]] ELSE
  LET Try(acc, n) ==
        LET r == Built(MinTerm, c, n, seen \cup {c}, acc.memo)
        IN  [memo |-> r.memo,
             found |-> IF r.found.size < acc.found.size THEN r.found ELSE acc.found]
      won == FoldLeft(Try, [memo |-> memo, found |-> [term |-> NoTerm, size |-> Inf]],
                      InOrder(c))
  IN  [won EXCEPT !.memo = Remember(@, c, won.found)]

any_term(c) == AnyTerm(c, {}, <<>>).found

\* Two resolutions of one apply_rule, which share a memo.
min_terms(c, d) ==
  LET first == MinTerm(c, {}, <<>>)
  IN  <<first.found, MinTerm(d, {}, first.memo).found>>

-----------------------------------------------------------------------------
(* What a term is, said without a walk. *)

RECURSIVE Denotes(_, _)
Denotes(t, c) ==
  t # NoTerm /\ \E n \in members[c] :
    /\ n[1] = t[1] /\ n[3] = t[3] /\ Len(n[2]) = Len(t[2])
    /\ \A k \in DOMAIN n[2] : Denotes(t[2][k], n[2][k])

RECURSIVE Subterms(_)
Subterms(t) == {t} \cup UNION {Subterms(t[2][k]) : k \in DOMAIN t[2]}

\* No Var below, and every operator folds: computed when compiling.
ParamOnly(t) ==
  \A s \in Subterms(t) : IF IsLeaf(s) THEN s[3] \in Params ELSE s[1] \in Foldable

\* The least size of every class's terms, or the least depth: a fixed point,
\* reached from above.
RECURSIVE Least(_, _)
Least(kind, value) ==
  LET below(a, k) == IF kind = "size" THEN a + value[k] ELSE Max({a, value[k]})
      measure(n) ==
        IF ~IsLeaf(n) THEN 1 + FoldLeft(below, 0, n[2])
        ELSE IF kind = "size" THEN 1 ELSE 0
      next == [c \in Classes |-> Min({value[c]} \cup {measure(n) : n \in members[c]})]
  IN  IF next = value THEN value ELSE Least(kind, next)
MinSize  == Least("size", [c \in Classes |-> Inf])
MinDepth == Least("depth", [c \in Classes |-> Inf])

RECURSIVE Under(_)
Under(S) ==
  LET more == S \cup UNION {Kids(n) : n \in UNION {members[c] : c \in S}}
  IN  IF more = S THEN S ELSE Under(more)
Acyclic == \A c \in Classes : \A n \in members[c] : c \notin Under(Kids(n))

-----------------------------------------------------------------------------
(* Correctness. *)

\* Backtracking terminates at a member whatever the cycles: any_term and
\* _min_term find, in every class, a term of that class, although results of
\* a walk below one path are reused below another.
RepresentativesExist ==
  \A c \in Present :
    /\ Denotes(any_term(c).term, c)
    /\ \A d \in Present : /\ Denotes(min_terms(c, d)[1].term, c)
                          /\ Denotes(min_terms(c, d)[2].term, d)

\* "Each e-class in the extracted expression is charged exactly once", and
\* param-only subterms not at all: the total of an extracted operator is the
\* sum over its distinct subterms, and the extracted term is of the class.
BilledOnce ==
  \A c \in Present :
    LET e == extract_best(c) IN
    e.term # NoTerm =>
      /\ Denotes(e.term, c)
      /\ ~IsLeaf(e.term) =>
           e.total = MapThenSumSet(LAMBDA t : IF IsLeaf(t) THEN Cost[t[3]] ELSE Cost[t[1]],
                                   {t \in Subterms(e.term) : ~ParamOnly(t)})

\* Without cycles among the classes the caches cannot mislead: every class
\* extracts, the depth is minimal and the representative smallest.
DagsAreExact ==
  Acyclic =>
    \A c \in Present :
      /\ extract_best(c).term # NoTerm
      /\ extract_min_depth(c).depth = MinDepth[c]
      /\ Denotes(extract_min_depth(c).term, c)
      /\ \A d \in Present : min_terms(c, d)[2].size = MinSize[d]
=============================================================================
