--------------------------- MODULE MCDryRunCluster ---------------------------
(* Instances of DryRunCluster for TLC. *)
EXTENDS DryRunCluster, TLC

CONSTANTS c1, c2, c3, p1, p2, p3, k1, k2, v

ThreePods == <<p1, p2, p3>>

Nothing == [x \in {} |-> v]
Removal(p) == [kind |-> "remove", pod |-> p]
Listing(s) == [kind |-> "list", selected |-> s]
Creation(labels) == [kind |-> "create", labels |-> labels, annotations |-> Nothing]
Update(object, flag, labels, annotations) ==
  [kind |-> "patch", object |-> object, unschedulable |-> flag,
   labels |-> labels, annotations |-> annotations]

\* On pods; and on metadata, by the three services that patch it.
SomeOps ==
  {Removal(p1), Removal(p2), Removal(p3), Listing({p1, p3}),
   Creation(Nothing), Creation(k1 :> v),
   Update(Node, TRUE, Nothing, Nothing),
   Update(Node, None, k1 :> v, Nothing), Update(Node, None, k2 :> v, Nothing),
   Update("namespace", None, k1 :> v, k2 :> v), Update("namespace", None, k1 :> None, k2 :> v),
   Update("namespace", None, Nothing, k1 :> v)}

Symmetry == Permutations(Calls)
=============================================================================
