--------------------------- MODULE MCNodeMetadata ---------------------------
(* Instances of NodeMetadata for TLC. *)
EXTENDS NodeMetadata, TLC

CONSTANTS r1, r2, k1, k2, v

Nothing == [k \in {} |-> v]

\* Nothing to do, an entry to remove, and one that is set and removed beside
\* another.
SomeBodies ==
  {[set |-> Nothing, remove |-> {}], [set |-> Nothing, remove |-> {k2}],
   [set |-> k1 :> v @@ k2 :> v, remove |-> {k1}]}

Symmetric == Permutations({r1, r2})
=============================================================================
