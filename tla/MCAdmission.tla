----------------------------- MODULE MCAdmission -----------------------------
(* An instance of Admission: a rule that two clauses separate, whose sites   *)
(* fail in the window, in a corpus or past the window; a shipped law whose   *)
(* check is code.                                                            *)
EXTENDS Admission

CONSTANTS fuse, slice, aligned, square, led, oth

\* e holds; u fails in the window where aligned does not hold, w in the matches that
\* a board grows by, where square does not, and is ill-typed; v fails past the window,
\* z in the probe alone, under any guard; x flips.
MCSites == {"e", "u", "w", "v", "x", "z"}
MCOutcome ==
  [s \in MCSites |-> CASE s = "e" -> "equal" [] s = "x" -> "flips" [] s = "w" -> "ill"
                      [] OTHER -> "unequal"]
MCAccepts ==
  [cl \in Clauses |-> IF cl = aligned THEN {"e", "w", "v", "z"} ELSE {"e", "u", "x", "z"}]
MCSynth == [i \in Keys |-> {"e", "u"}]
MCDeep == [i \in Keys |-> {"v"}]
MCOracle == [i \in Keys |-> {"v"}]
MCProbe == [i \in Keys |-> {"e", "w", "z"}]
MCProbeClean == [i \in Keys |-> {"e", "z"}]
MCReal(i, n) == IF n = 0 THEN <<>> ELSE IF n = Census THEN <<"e">> ELSE <<"w", "e", "x">>
MCRealEven(i, n) == IF n = 0 THEN <<>> ELSE <<"e">>
MCGiven ==
  {[key |-> fuse, guard |-> g, hook |-> FALSE, name |-> led, op |-> "given"] : g \in Guards}
    \cup {[key |-> fuse, guard |-> Unguarded, hook |-> FALSE, name |-> oth, op |-> "given"],
          [key |-> slice, guard |-> {aligned}, hook |-> FALSE, name |-> led, op |-> "given"]}
MCLibrary ==
  {[key |-> slice, guard |-> Unguarded, hook |-> TRUE, name |-> oth, op |-> "shipped"]}
=============================================================================
