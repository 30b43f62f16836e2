------------------------------ MODULE Partition ------------------------------
(* What a union-find promises: the ids allocated so far are split into       *)
(* blocks; an id is born alone; two blocks may merge; nothing else happens.  *)
EXTENDS Integers

CONSTANT MaxId

VARIABLE blocks

Init == blocks = {}

Born(x) ==
  /\ x \notin UNION blocks
  /\ blocks' = blocks \cup {{x}}

Merge(A, B) ==
  /\ A # B
  /\ blocks' = (blocks \ {A, B}) \cup {A \cup B}

\* An id is born in a block that was not there; blocks merge that are no more.
Next ==
  \/ \E B \in blocks' \ blocks : \E x \in B \cap (0 .. MaxId - 1) : Born(x)
  \/ \E A, B \in blocks \ blocks' : Merge(A, B)

Spec == Init /\ [][Next]_blocks
=============================================================================
