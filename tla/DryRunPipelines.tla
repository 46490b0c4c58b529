--------------------------- MODULE DryRunPipelines ---------------------------
(***************************************************************************)
(* The stand-in for the pipelines of deploy-service                        *)
(* (app/clients/dry_run_deploy_service_client.py).  Its methods never      *)
(* await, so each is one step of the event loop.  Ids count up from the    *)
(* start of the process.                                                   *)
(***************************************************************************)
EXTENDS Naturals, SequencesExt

CONSTANTS
  Orders,         \* what may be triggered: a ref, an action and variables
  MaxPipelines    \* bound: pipelines that are triggered

ASSUME OrdersAssumption == \A order \in Orders : order.variables \in Seq(ToSet(order.variables))

VARIABLE pipelines   \* pipelines[id]; `retried' says that it ran more than once

PipelinesInit == pipelines = <<>>

Active == {"created", "pending", "running"}

Variables(order) == <<<<"EXECUTION", order.action>>>> \o order.variables

Same_InOrder(a, b) == a.ref = b.ref /\ Variables(a) = Variables(b)

\* The order of the variables does not matter.
Same(a, b) == a.ref = b.ref /\ ToBag(Variables(a)) = ToBag(Variables(b))

Matching(order) ==
  {id \in DOMAIN pipelines :
     pipelines[id].status \in Active /\ Same(pipelines[id].order, order)}

\* A duplicate is refused with 409.
Trigger(order) ==
  /\ Len(pipelines) < MaxPipelines
  /\ pipelines' = IF Matching(order) # {} THEN pipelines
                  ELSE Append(pipelines, [order |-> order, status |-> "running",
                                          retried |-> FALSE])

SetStatus(id, from, to) ==
  pipelines' = IF id \in DOMAIN pipelines /\ pipelines[id].status \in from
               THEN [pipelines EXCEPT ![id].status = to] ELSE pipelines

\* The first poll finds that the pipeline has succeeded; 404 for no pipeline.
GetPipeline(id) == SetStatus(id, {"running"}, "success")

Cancel(id) == SetStatus(id, Active, "canceled")

\* Nothing is asked about identical pipelines.
Retry(id) ==
  pipelines' = IF id \in DOMAIN pipelines /\ pipelines[id].status \in {"canceled", "failed"}
               THEN [pipelines EXCEPT ![id].status = "running", ![id].retried = TRUE]
               ELSE pipelines

-----------------------------------------------------------------------------

Identical(a, b) ==
  a.ref = b.ref /\ a.action = b.action /\ ToBag(a.variables) = ToBag(b.variables)

\* Two identical pipelines run together only when the older one was canceled
\* and retried: triggering never makes a duplicate, whoever asked
\* check-running before and whatever was triggered since.
DuplicateOnlyByRetry ==
  \A i, j \in DOMAIN pipelines :
    /\ i < j
    /\ {pipelines[i].status, pipelines[j].status} \subseteq Active
    /\ Identical(pipelines[i].order, pipelines[j].order)
    => pipelines[i].retried
=============================================================================
