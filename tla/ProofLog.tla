------------------------------ MODULE ProofLog ------------------------------
(***************************************************************************)
(* The proof log of an e-graph: what apply_rule and union record of each   *)
(* application, and how a recorded class or enode is read back as a term   *)
(* (egraph/proof.py, and the end of egraph/extract.py).                    *)
(*                                                                         *)
(* A rule is a record [lhs, rhs, checked, derive], logged under its name.  *)
(* An application keeps the binding that fired, from variables to classes, *)
(* and the enode heading its right-hand side, if it has one.               *)
(***************************************************************************)
EXTENDS EGraph

LOCAL INSTANCE SequencesExt

NoTerm == <<>>  \* a class that is not resolvable

-----------------------------------------------------------------------------
(* From terms to classes and enodes. *)

\* The enode a term would be, and the class that has it.
RECURSIVE ClassOf(_, _)
EnodeOf(g, t) ==
  IF t[1] = "leaf" THEN <<"leaf", <<>>, t[2]>>
  ELSE <<t[1], [k \in DOMAIN t[2] |-> ClassOf(g, t[2][k])], NoKey>>
ClassOf(g, t) ==
  LET n == EnodeOf(g, t)
  IN  IF n \in DOMAIN g.cons THEN Find(g, g.cons[n]) ELSE NoClass

\* The first member that is the term up to the classes of its children.
Alike(g, t, r) == IF r = NoClass THEN {} ELSE {n \in g.nodes[r] : Resolved(g, n) = EnodeOf(g, t)}
FirstMember(S) ==
  IF S = {} THEN <<>>
  ELSE SubSeq(Ranked(S, LAMBDA a, b : KeyBefore(MemberKey(a), MemberKey(b))), 1, 1)
Locate(g, t) == FirstMember(Alike(g, t, ClassOf(g, t)))

-----------------------------------------------------------------------------
(* From classes to terms. *)

\* _birth: when an enode was made, as far as is known.
Birth(g, n) ==
  CASE n \in DOMAIN g.birth -> g.birth[n]
    [] n \in DOMAIN g.cons \ DOMAIN g.birth -> g.cons[n]
    [] OTHER -> Len(g.canon) + 1

ByBirth(g, r) ==
  Ranked(g.nodes[r],
         LAMBDA a, b : \/ Birth(g, a) < Birth(g, b)
                       \/ /\ Birth(g, a) = Birth(g, b)
                          /\ KeyBefore(MemberKey(a), MemberKey(b)))

\* The term of the earliest member whose children have one; a class that is
\* being resolved has none, and what is found is remembered.
RECURSIVE Oldest(_, _, _, _)
Oldest(g, i, stack, memo) ==
  LET r == Find(g, i)
      Child(acc, c) ==
        IF ~acc.ok THEN acc ELSE
        LET below == Oldest(g, c, stack \cup {r}, acc.memo)
        IN  [ok |-> below.t # NoTerm, args |-> Append(acc.args, below.t),
             memo |-> below.memo]
      Try(acc, n) ==
        IF acc.t # NoTerm THEN acc ELSE
        LET built == FoldLeft(Child, [ok |-> TRUE, args |-> <<>>, memo |-> acc.memo], n[2])
        IN  [t |-> CASE n[1] = "leaf" -> <<"leaf", n[3]>>
                     [] n[1] # "leaf" /\ built.ok -> <<n[1], built.args>>
                     [] OTHER -> NoTerm,
             memo |-> built.memo]
  IN  CASE r \in stack -> [t |-> NoTerm, memo |-> memo]
        [] r \notin stack /\ r \in DOMAIN memo -> [t |-> memo[r], memo |-> memo]
        [] OTHER ->
             LET found == FoldLeft(Try, [t |-> NoTerm, memo |-> memo], ByBirth(g, r))
             IN  IF found.t = NoTerm THEN found
                 ELSE [found EXCEPT !.memo = @ @@ (r :> found.t)]

OldestTerm(g, i) == Oldest(g, i, {}, <<>>).t

-----------------------------------------------------------------------------
(* Recording. *)

RuleNamesOf(g) == {g.fired[i][1] : i \in DOMAIN g.fired}
RuleOf(g, name) ==
  (CHOOSE e \in {g.fired[i] : i \in DOMAIN g.fired} : e[1] = name)[2]

\* _rule_objs.setdefault: the first rule of a name stays.
Registered(g, name, rule) ==
  IF name \in RuleNamesOf(g) THEN g
  ELSE [g EXCEPT !.fired = Append(@, <<name, rule>>)]

\* One more application; an enode keeps the first it is tagged with.
Applied(g, name, subst, root, tagged) ==
  [g EXCEPT !.apps = Append(@, [rule |-> name, subst |-> subst, root |-> root]),
            !.app = @ @@ [n \in tagged |-> Len(g.apps) + 1]]

\* union with a witness: a rule for this one merge, whose application tags
\* the enode that heads its right-hand side.
UnionWitnessed(g, a, b, name, witness) ==
  LET h == Registered(Union(g, a, b), name, witness)
      head == Locate(h, witness.rhs)
  IN  IF Find(g, a) = Find(g, b) THEN g
      ELSE IF head = <<>> THEN h
      ELSE Applied(h, name, <<>>, head, {head[1]})

\* _offer_witness: term t, just interned as class id, joins class c under the
\* rule that rewrites the oldest term of c to it, named after id.
Offered(g, c, id, t) ==
  LET oldest == OldestTerm(g, c)
  IN  IF ~g.track \/ oldest = NoTerm THEN Union(g, c, id)
      ELSE UnionWitnessed(g, c, id, "offer" \o ToString(id),
             [lhs |-> oldest, rhs |-> t, checked |-> FALSE, derive |-> <<>>])
=============================================================================
