--------------------------- MODULE MCServiceProxy ---------------------------
(* Instances of ServiceProxy for TLC. *)
EXTENDS ServiceProxy

\* One order, the same with its variables the other way round, and another.
Order(action, variables) == [ref |-> "main", action |-> action, variables |-> variables]

MCOrders == {Order("deploy", <<<<"A", "1">>, <<"B", "2">>>>),
             Order("deploy", <<<<"B", "2">>, <<"A", "1">>>>),
             Order("test", <<<<"A", "1">>, <<"B", "2">>>>)}
=============================================================================
