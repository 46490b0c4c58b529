---------------------------- MODULE MCNamespaces ----------------------------
(* Instances of Namespaces for TLC. *)
EXTENDS Namespaces, TLC

CONSTANTS r1, r2, k, q, v

Nothing == [x \in {} |-> v]
OnLabels(patch) == [verb |-> "labels", labels |-> patch, annotations |-> Nothing]
OnAnnotations(patch) == [verb |-> "annotations", labels |-> Nothing, annotations |-> patch]

\* Legal bodies, and one for each rule that may refuse one.
SomeBodies ==
  {[verb |-> "create", labels |-> k :> v, annotations |-> k :> v],
   [verb |-> "create", labels |-> Nothing, annotations |-> "created-by" :> v],
   OnLabels(k :> v), OnLabels(q :> None), OnLabels("created-by" :> v), OnLabels(Nothing),
   OnAnnotations(k :> None), OnAnnotations("created-by" :> None)}
=============================================================================
