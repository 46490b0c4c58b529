--------------------------- MODULE MCPagedListing ---------------------------
(* Instances of PagedListing for TLC. *)
EXTENDS PagedListing

CONSTANTS r1, d1, d2, absent, none

Namespaces(names, statuses, selector, fault) ==
  [verb |-> "namespaces", names |-> names, statuses |-> statuses, selector |-> selector,
   fault |-> fault]

AllOf(verb, names) ==
  [verb |-> verb, names |-> names, statuses |-> States, selector |-> States, fault |-> "none"]

\* Everything, what a filter keeps of what a selector leaves, one object, a
\* listing in one piece, and both faults.
SomeQueries ==
  {AllOf("configmaps", Items), AllOf("get", {2}), AllOf("pods", {1}),
   Namespaces({1}, {"Active"}, States, "none"),
   Namespaces(Items, States, {"Active"}, "none"),
   Namespaces(Items, States, States, "status"),
   Namespaces(Items, States, States, "selector")}

MCQueries == [r \in Listings |-> SomeQueries]
=============================================================================
