------------------------------ MODULE Delivery ------------------------------
(***************************************************************************)
(* What a compositional driver promises its caller.  A call works out of   *)
(* sight: its results appear in one step at its end, or never when it      *)
(* raises.  It hands back a clone with whole grafts that was verified, or  *)
(* something with nothing grafted in it, and the report says which.  The   *)
(* caller's own model is never touched.                                    *)
(***************************************************************************)
EXTENDS Integers

CONSTANTS NBlocks, None

VARIABLES
  busy,      \* a call is under way
  report,    \* end_to_end
  returned,  \* what the last call handed back
  live       \* the modules grafted in the caller's own model

vars == <<busy, report, returned, live>>

Blocks  == 1 .. NBlocks
NoGraft == [b \in Blocks |-> None]
Nothing == [object |-> "none", grafts |-> NoGraft]

\* Assignments of modules to blocks that leave no half of a fused pair.
WholeGrafts ==
  {g \in [Blocks -> {None, "own", "fused", "stub"}] :
     \A b \in Blocks : b + 1 \in Blocks => (g[b] = "fused" <=> g[b + 1] = "stub")}

Init == busy = FALSE /\ report = "none" /\ returned = Nothing /\ live = NoGraft

Begin ==
  /\ ~busy /\ busy' = TRUE
  /\ report' = "none" /\ returned' = Nothing
  /\ UNCHANGED live

\* The verified clone.
Deliver ==
  /\ busy /\ busy' = FALSE
  /\ report' = "passed"
  /\ returned'.object = "clone" /\ returned'.grafts \in WholeGrafts
  /\ UNCHANGED live

\* Nothing grafted: the check failed, or there was no clone to graft into.
Decline ==
  /\ busy /\ busy' = FALSE
  /\ \/ report' = "rolled_back" /\ returned'.object \in {"clone", "caller"}
     \/ report' = "skipped" /\ returned'.object = "caller"
  /\ returned'.grafts = NoGraft
  /\ UNCHANGED live

Raise ==
  /\ busy /\ busy' = FALSE
  /\ UNCHANGED <<report, returned, live>>

Next == Begin \/ Deliver \/ Decline \/ Raise
Spec == Init /\ [][Next]_vars
=============================================================================
