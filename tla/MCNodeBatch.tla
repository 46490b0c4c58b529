----------------------------- MODULE MCNodeBatch -----------------------------
(* Instances of NodeBatch for TLC. *)
EXTENDS NodeBatch

CONSTANTS n1, n2

\* No name left after stripping, one, a repeated name around another.
SomeBodies == {<<>>, <<n1>>, <<n1, n2, n1>>}

=============================================================================
