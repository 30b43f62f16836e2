---------------------------- MODULE Certificates ----------------------------
(***************************************************************************)
(* Certificates over the e-graphs a caller and its runs produce: a         *)
(* derivation between two terms of a class, read off the proof log         *)
(* (certificate), and its replay on terms alone (verify_certificate).      *)
(*                                                                         *)
(* A step rewrites the subterm at position pos, a sequence of child        *)
(* indices, from lhs to rhs: by the rule of its name under a binding, or   *)
(* on trust when it is a stub.  The hooks check and derive are taken to    *)
(* answer on replay as they did when the rule fired.                       *)
(***************************************************************************)
EXTENDS Saturation

LOCAL INSTANCE SequencesExt

CONSTANTS
  CertMaxDepth,  \* _CERT_MAX_DEPTH
  CertMaxSteps,  \* _CERT_MAX_STEPS
  EdgeMaxDepth,  \* the depth of _edge_path
  EdgeBudget     \* and its budget

ASSUME CertBoundsAreNat ==
  /\ CertMaxDepth \in Nat /\ CertMaxSteps \in Nat
  /\ EdgeMaxDepth \in Nat /\ EdgeBudget \in Nat

-----------------------------------------------------------------------------
(* Terms. *)

IsOp(t) == t[1] # "leaf"

\* The binding extending s under which pattern p is the term t, if any.
RECURSIVE TermMatch(_, _, _)
TermMatch(p, t, s) ==
  CASE p[1] = "?" -> Bind(s, p[2], t)
    [] p[1] # "?" /\ p[1] = t[1] /\ ~IsOp(t) -> IF p = t THEN <<s>> ELSE <<>>
    [] p[1] # "?" /\ p[1] = t[1] /\ IsOp(t) /\ Len(p[2]) = Len(t[2]) ->
         FoldLeft(LAMBDA m, k : IF m = <<>> THEN m ELSE TermMatch(p[2][k], t[2][k], m[1]),
                  <<s>>, [k \in DOMAIN p[2] |-> k])
    [] OTHER -> <<>>

RECURSIVE TermInstantiate(_, _)
TermInstantiate(p, s) ==
  CASE p[1] = "?" -> s[p[2]]
    [] p[1] = "leaf" -> p
    [] OTHER -> <<p[1], [k \in DOMAIN p[2] |-> TermInstantiate(p[2][k], s)]>>

\* The subterm at a position; NoTerm where there is none.
Subterm(t, pos) ==
  FoldLeft(LAMBDA u, k : IF u # NoTerm /\ IsOp(u) /\ k \in DOMAIN u[2]
                         THEN u[2][k] ELSE NoTerm, t, pos)

RECURSIVE ReplaceSubterm(_, _, _)
ReplaceSubterm(t, pos, new) ==
  IF pos = <<>> THEN new
  ELSE <<t[1], [t[2] EXCEPT ![Head(pos)] = ReplaceSubterm(@, Tail(pos), new)]>>

-----------------------------------------------------------------------------
(* Deriving one term from another. *)

Step(name, pos, l, r, s) == [rule |-> name, pos |-> pos, lhs |-> l, rhs |-> r, bindings |-> s]
Stub(why, pos, l, r) == Step(why, pos, l, r, <<>>)
Stubs == {"<budget>", "<egraph>", "<truncated>"}

\* The binding of a rule on replay: what it derives replaces what is recorded.
Rederived(r, s) == IF r.derive = <<>> THEN s ELSE (r.derive[1] :> r.derive[2]) @@ s

\* The application that tagged the enode of a term, when the enode heading its
\* right-hand side is that enode, up to the classes of its children.
\* Bug: the children are not compared.
AppOfHead(g0, at) ==
  IF at = <<>> \/ at[1] \notin DOMAIN g0.app THEN <<>>
  ELSE SelectSeq(<<g0.apps[g0.app[at[1]]]>>,
                 LAMBDA a : a.root # <<>> /\ HeadOf(a.root[1]) = HeadOf(at[1]))
AppForMember(g0, at) ==
  IF at = <<>> \/ at[1] \notin DOMAIN g0.app THEN <<>>
  ELSE SelectSeq(<<g0.apps[g0.app[at[1]]]>>,
                 LAMBDA a : a.root # <<>> /\ Resolved(g0, a.root[1]) = Resolved(g0, at[1]))

ResolveSubst(g0, s) == [v \in DOMAIN s |-> OldestTerm(g0, s[v])]

\* A derivation of t from s at the root, by the rules that fired: depth
\* first, never through a term seen before, and within a budget they share.
RECURSIVE EdgePath(_, _, _, _, _, _)
EdgePath(g0, s, t, pos, depth, acc) ==
  LET none == [acc EXCEPT !.path = <<>>]
      Try(found, e) ==
        LET m == TermMatch(e[2].lhs, s, <<>>)
            inst == Rederived(e[2], m[1])
            r == TermInstantiate(e[2].rhs, inst)
        IN  IF found.path # <<>> \/ m = <<>> \/ r \in found.seen THEN found ELSE
            LET rest == EdgePath(g0, r, t, pos, depth + 1, [found EXCEPT !.budget = @ - 1])
            IN  IF rest.path = <<>> THEN rest
                ELSE [rest EXCEPT !.path = <<<<Step(e[1], pos, s, r, inst)>> \o @[1]>>]
  IN  CASE s = t -> [acc EXCEPT !.path = <<<<>>>>]
        [] s # t /\ (depth > EdgeMaxDepth \/ acc.budget <= 0) -> none
        [] OTHER -> FoldLeft(Try, [none EXCEPT !.seen = @ \cup {s}], g0.fired)

\* The steps, after those so far, from s to t: through the application that
\* made t, or else child by child, by the rules that fired, or on trust.
RECURSIVE Connect(_, _, _, _, _, _)

ConnectChildren(g0, s, t, pos, steps, depth) ==
  IF ~IsOp(s) \/ ~IsOp(t) THEN steps ELSE
  FoldLeft(LAMBDA acc, k : Connect(g0, s[2][k], t[2][k], Append(pos, k), acc, depth + 1),
           steps, [k \in DOMAIN t[2] |-> k])

\* From s to l, to r by the step of rule name, and down to t.
ConnectThrough(g0, s, t, pos, steps, depth, name, l, r, bound) ==
  ConnectChildren(g0, r, t, pos,
    Append(Connect(g0, s, l, pos, steps, depth + 1), Step(name, pos, l, r, bound)), depth)

ConnectByRule(g0, s, t, pos, steps, depth, name, r, bound) ==
  ConnectThrough(g0, s, t, pos, steps, depth, name,
                 TermInstantiate(r.lhs, bound), TermInstantiate(r.rhs, bound), bound)

Congruent(g0, s, t) ==
  /\ IsOp(s) /\ IsOp(t) /\ HeadOf(s) = HeadOf(t)
  /\ \A k \in DOMAIN t[2] : ClassOf(g0, s[2][k]) \in {ClassOf(g0, t[2][k])} \ {NoClass}

ConnectByEdges(g0, s, t, pos, steps) ==
  LET none == [path |-> <<>>, seen |-> {}, budget |-> EdgeBudget]
      edges == EdgePath(g0, s, t, pos, 0, none).path
  IN  steps \o (IF edges = <<>> THEN <<Stub("<egraph>", pos, s, t)>> ELSE edges[1])

\* app is the application that made t, if any, and bound its binding.
ConnectBy(g0, s, t, pos, steps, depth, app, bound) ==
  IF app # <<>> /\ NoTerm \notin Range(bound)
  THEN ConnectByRule(g0, s, t, pos, steps, depth, app[1].rule, RuleOf(g0, app[1].rule), bound)
  ELSE IF Congruent(g0, s, t) THEN ConnectChildren(g0, s, t, pos, steps, depth)
  ELSE ConnectByEdges(g0, s, t, pos, steps)

ConnectFrom(g0, s, t, pos, steps, depth, app) ==
  ConnectBy(g0, s, t, pos, steps, depth, app,
            IF app = <<>> THEN <<>> ELSE ResolveSubst(g0, app[1].subst))

Connect(g0, s, t, pos, steps, depth) ==
  CASE s = t -> steps
    [] s # t /\ (depth > CertMaxDepth \/ Len(steps) > CertMaxSteps) ->
         Append(steps, Stub("<budget>", pos, s, t))
    [] OTHER -> ConnectFrom(g0, s, t, pos, steps, depth, AppForMember(g0, Locate(g0, t)))

\* The steps of a certificate: a graph that does not track has no log.
Certificate(g0, src, dst) ==
  IF g0.track THEN Connect(g0, src, dst, <<>>, <<>>, 0)
  ELSE IF src = dst THEN <<>> ELSE <<Stub("<truncated>", <<>>, src, dst)>>

-----------------------------------------------------------------------------
(* Replaying a derivation, with the rules it was made by. *)

\* A stub is taken at its word; any other step must match its rule again and
\* produce what it recorded.
StepHolds(g0, step) ==
  step.rule \in Stubs \/
  LET r == RuleOf(g0, step.rule)
      m == TermMatch(r.lhs, step.lhs, <<>>)
  IN  /\ m # <<>>
      /\ \A v \in DOMAIN step.bindings \cap DOMAIN m[1] : m[1][v] = step.bindings[v]
      /\ step.rhs = TermInstantiate(r.rhs, Rederived(r, m[1] @@ step.bindings))

\* The term a certificate leads to; NoTerm when it is rejected.
Replayed(g0, src, steps) ==
  FoldLeft(LAMBDA t, step :
             IF t # NoTerm /\ Subterm(t, step.pos) = step.lhs /\ StepHolds(g0, step)
             THEN ReplaceSubterm(t, step.pos, step.rhs) ELSE NoTerm, src, steps)

-----------------------------------------------------------------------------
(* Correctness. *)

RECURSIVE Value(_)
Value(t) ==
  IF IsOp(t) THEN Denote(t[1], NoKey, [k \in DOMAIN t[2] |-> Value(t[2][k])])
  ELSE Denote("leaf", t[2], <<>>)

\* The terms a class has through one of its members, those below being the
\* oldest, and what an extraction may return for src: such a term at each
\* child of a member of its class.
Heads(i) ==
  {t \in {IF n[1] = "leaf" THEN <<"leaf", n[3]>>
          ELSE <<n[1], [k \in DOMAIN n[2] |-> OldestTerm(g, n[2][k])]>> :
             n \in g.nodes[Find(g, i)]} :
     IsOp(t) => \A k \in DOMAIN t[2] : t[2][k] # NoTerm}
Targets(src) ==
  UNION {IF n[1] = "leaf" THEN {<<"leaf", n[3]>>}
         ELSE {<<n[1], args>> : args \in {f \in [DOMAIN n[2] -> UNION {Heads(c) : c \in Kids(n)}] :
                                            \A k \in DOMAIN f : f[k] \in Heads(n[2][k])}} :
           n \in g.nodes[ClassOf(g, src)]}
Certified == {t \in Terms : ClassOf(g, t) # NoClass}

\* The step records the leaf its rule mints as what it minted, and not as an
\* older term of the class the leaf was found equal to.
RecordsItsLeaf(step) ==
  step.rule \in Stubs \/
  LET d == RuleOf(g, step.rule).derive IN d # <<>> => step.bindings[d[1]] = d[2]

\* "The certificate's steps replay positionally on real terms" (certificate):
\* whatever fired, merged or was re-keyed since the term was added, each step
\* finds what it rewrites where it says, its rule produces what it recorded,
\* the last leaves the target, and no step, trusted ones included, changes
\* what the term means.  The exception is a leaf minted by a rule for which
\* the class it is in now has an older term.
CertificatesReplay ==
  stage = "idle" =>
    \A src \in Certified : \A dst \in Targets(src) :
      LET steps == Certificate(g, src, dst)
      IN  /\ (\A i \in DOMAIN steps : RecordsItsLeaf(steps[i])) => Replayed(g, src, steps) = dst
          /\ \A i \in DOMAIN steps : Value(steps[i].lhs) = Value(steps[i].rhs)
=============================================================================
