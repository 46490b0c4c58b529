------------------------------ MODULE NodeBatch ------------------------------
(***************************************************************************)
(* One cordon or uncordon request, for one node or for a batch of them:    *)
(* NodeService.cordon, uncordon, cordon_many and uncordon_many             *)
(* (app/services/node_service.py) behind NodeBatchService.run              *)
(* (app/services/node_batch_service.py) and the routes' policy check.      *)
(*                                                                         *)
(* A step is one Kubernetes call and the code that runs until the next;    *)
(* between two steps nodes come, go and change health, and other requests  *)
(* and kubectl cordon and uncordon them.                                   *)
(***************************************************************************)
EXTENDS Naturals, SequencesExt, KubeErrors

CONSTANTS
  Nodes,        \* node names
  Bodies,       \* the node lists a request may carry, blanks stripped
  ErrorStatus   \* HTTP error statuses the API server may answer

ASSUME BodiesAssumption == Bodies \subseteq Seq(Nodes)
ASSUME StatusAssumption == ErrorStatus \subseteq 0..599

VARIABLES
  \* the cluster
  health,         \* health[n]: the Ready condition of n, or "absent"
  unschedulable,  \* unschedulable[n]: spec.unschedulable of n
  \* the request
  pc,             \* what it does next
  request,        \* what it asks for
  denied,         \* the nodes the policy refused it
  statuses,       \* the readiness it read; "absent" is missing from a listing
  at,             \* the position in the body the loop has reached
  results,        \* the per-node results so far
  answer,         \* the HTTP response
  \* history
  patched,        \* the nodes whose patch the API server applied
  disturbed       \* ... and those someone else has changed since

cluster == <<health, unschedulable>>
history == <<patched, disturbed>>
vars == <<health, unschedulable, pc, request, denied, statuses, at, results, answer,
          patched, disturbed>>

Health == {"absent", "Ready", "NotReady", "Unknown"}

\* A single-node route is a request for a body of one node.
Request ==
  {r \in [action : {"cordon", "uncordon"}, many : BOOLEAN, body : Bodies] :
     ~r.many => Len(r.body) = 1}

Target == request.action = "cordon"
Names == ToSet(request.body)

Answer(code, http) == [code |-> code, http |-> http]
Result(node, code, status) == [node |-> node, error_code |-> code, kube_status |-> status]

Init ==
  /\ health \in [Nodes -> Health]
  /\ unschedulable \in [Nodes -> BOOLEAN]
  /\ pc = "admit"
  /\ request \in Request
  /\ denied = {}
  /\ statuses = [n \in Nodes |-> "absent"]
  /\ at = 1
  /\ results = <<>>
  /\ answer = Answer("PENDING", 0)
  /\ patched = {}
  /\ disturbed = {}

-----------------------------------------------------------------------------
Respond(a) == pc' = "done" /\ answer' = a
Raise(exc) == Respond(Answer(exc.code, exc.http))
Goto(l) == pc' = l /\ UNCHANGED answer

\* call_kube; readiness is read only for an uncordon with work left to do.
Resolve ==
  \/ \E exc \in ResolveErrors : Raise(exc)
  \/ IF request.action = "uncordon" /\ ~(Names \subseteq denied') THEN Goto("read") ELSE Goto("loop")

\* The policy judges a single node for the route, and every node of a batch
\* against one version of the rules.  A batch refused entirely goes on without
\* a cluster: its loop only writes the refusals down.
Admit ==
  /\ pc = "admit"
  /\ \/ \E refused \in SUBSET Names :
          /\ denied' = refused
          /\ IF Names \subseteq refused /\ Names # {}
             THEN IF request.many THEN Goto("loop") ELSE Raise(PolicyDenied)
             ELSE Resolve
     \/ denied' = {} /\ Raise(UsersFileInvalid)
  /\ UNCHANGED <<cluster, request, statuses, at, results, history>>

-----------------------------------------------------------------------------
(* The readiness gate of an uncordon.                                      *)

NotReady_Listed(status) == status = "NotReady"

\* A node that was read and is anything but Ready.
NotReady(status) == status \notin {"absent", "Ready"}

\* _node_statuses: one listing for a batch, or _read_node for one node.
ReadDone ==
  /\ statuses' = health
  /\ LET status == health[request.body[1]]
     IN  IF request.many \/ status = "Ready" THEN Goto("loop")
         ELSE Raise(IF status = "absent" THEN NodeNotFound ELSE NodeNotReady)

ReadFailed ==
  /\ \E e \in SdkErrors(ErrorStatus) :
       (e = ApiError(404) => request.many) /\ Raise(Translate(e))
  /\ UNCHANGED statuses

Read ==
  /\ pc = "read"
  /\ ReadDone \/ ReadFailed
  /\ UNCHANGED <<cluster, request, denied, at, results, history>>

-----------------------------------------------------------------------------
(* The loop of _batch_set_unschedulable; a single request leaves it at its *)
(* only node.                                                              *)

\* unique_node_names: a name counts where it is first seen.
FirstSeen_Always(i) == TRUE

FirstSeen(i) == \A j \in 1 .. i - 1 : request.body[j] # request.body[i]

Refused_ByName(n) == n \in denied /\ request.action = "uncordon"

Refused(n) == n \in denied

Node == request.body[at]

Record(code, status) ==
  /\ results' = Append(results, Result(Node, code, status))
  /\ at' = at + 1
  /\ UNCHANGED <<pc, answer>>

Leave(a) == Respond(a) /\ UNCHANGED <<results, at>>

Succeed ==
  IF request.many THEN Record("NONE", NoStatus) ELSE Leave(Answer("OK", 200))

Fail_Retry(exc) ==
  IF request.many /\ ~IsClusterLevel(exc)
  THEN UNCHANGED <<pc, answer, results, at>>
  ELSE Leave(Answer(exc.code, exc.http))

\* A per-node failure becomes a result; a cluster-level one ends the batch.
Fail(exc) ==
  IF request.many /\ ~IsClusterLevel(exc)
  THEN Record(exc.code, IF exc.code = "KUBE_API_ERROR" THEN exc.kubeStatus ELSE exc.http)
  ELSE Leave(Answer(exc.code, exc.http))

Apply ==
  /\ unschedulable' = [unschedulable EXCEPT ![Node] = Target]
  /\ patched' = patched \cup {Node}
  /\ disturbed' = disturbed \ {Node}

\* The next node's turn, once per name.
Turn == pc = "loop" /\ at <= Len(request.body) /\ FirstSeen(at)

Repeated ==
  /\ pc = "loop" /\ at <= Len(request.body) /\ ~FirstSeen(at)
  /\ at' = at + 1
  /\ UNCHANGED <<pc, answer, results, unschedulable, history>>

Deny ==
  /\ Turn /\ Refused(Node)
  /\ Record("POLICY_DENIED", NoStatus)
  /\ UNCHANGED <<unschedulable, history>>

Gated == request.action = "uncordon" /\ NotReady(statuses[Node])

GateOut ==
  /\ Turn /\ ~Refused(Node) /\ Gated
  /\ Fail(NodeNotReady)
  /\ UNCHANGED <<unschedulable, history>>

\* _patch_unschedulable, and what its answer makes of the node.
PatchAccepted == health[Node] # "absent" /\ Apply /\ Succeed

PatchNotFound_Ignored ==
  health[Node] = "absent" /\ Succeed /\ UNCHANGED <<unschedulable, history>>

PatchNotFound ==
  health[Node] = "absent" /\ Fail(NodeNotFound) /\ UNCHANGED <<unschedulable, history>>

PatchFailed ==
  \E e \in SdkErrors(ErrorStatus \ {404}) :
    /\ \/ UNCHANGED <<unschedulable, history>>
       \/ MayHaveApplied(e) /\ health[Node] # "absent" /\ Apply
    /\ Fail(Translate(e))

Patch ==
  /\ Turn /\ ~Refused(Node) /\ ~Gated
  /\ PatchAccepted \/ PatchNotFound \/ PatchFailed

Loop ==
  /\ Repeated \/ Deny \/ GateOut \/ Patch
  /\ UNCHANGED <<health, request, denied, statuses>>

Finish ==
  /\ pc = "loop" /\ at > Len(request.body)
  /\ Respond(Answer("OK", 200))
  /\ UNCHANGED <<cluster, request, denied, statuses, at, results, history>>

Step == Admit \/ Read \/ Loop \/ Finish

-----------------------------------------------------------------------------
(* The rest of the cluster.                                                *)

unread == <<pc, request, denied, statuses, at, results, answer, patched>>

\* A kubelet registers its node, schedulable or not.
Register(n) ==
  /\ health[n] = "absent"
  /\ \E h \in Health \ {"absent"} : health' = [health EXCEPT ![n] = h]
  /\ \E u \in BOOLEAN : unschedulable' = [unschedulable EXCEPT ![n] = u]
  /\ disturbed' = disturbed \cup {n}
  /\ UNCHANGED unread

Deregister(n) ==
  /\ health[n] # "absent"
  /\ health' = [health EXCEPT ![n] = "absent"]
  /\ disturbed' = disturbed \cup {n}
  /\ UNCHANGED <<unschedulable, unread>>

ChangeHealth(n) ==
  /\ health[n] # "absent"
  /\ \E h \in Health \ {"absent", health[n]} : health' = [health EXCEPT ![n] = h]
  /\ UNCHANGED <<unschedulable, disturbed, unread>>

\* Another request, or kubectl.
SetUnschedulable(n) ==
  /\ health[n] # "absent"
  /\ unschedulable' = [unschedulable EXCEPT ![n] = ~@]
  /\ disturbed' = disturbed \cup {n}
  /\ UNCHANGED <<health, unread>>

Environment ==
  \E n \in Nodes : Register(n) \/ Deregister(n) \/ ChangeHealth(n) \/ SetUnschedulable(n)

Next == Step \/ Environment

Spec == Init /\ [][Next]_vars

\* The worker thread takes its steps: every Kubernetes call returns or raises.
FairSpec == Spec /\ WF_vars(Step)
-----------------------------------------------------------------------------
(* Properties.                                                             *)

BatchCode == {"PENDING", "OK", "POLICY_DENIED", "USERS_FILE_INVALID", "CLUSTER_NOT_FOUND",
              "VALIDATION_ERROR", "KUBE_API_ERROR", "NODE_NOT_FOUND", "NODE_NOT_READY"}

TypeOK ==
  /\ health \in [Nodes -> Health]
  /\ unschedulable \in [Nodes -> BOOLEAN]
  /\ pc \in {"admit", "read", "loop", "done"}
  /\ request \in Request
  /\ denied \in SUBSET Nodes
  /\ statuses \in [Nodes -> Health]
  /\ at \in 1 .. Len(request.body) + 1
  /\ results \in Seq([node : Nodes, kube_status : 0..599,
                      error_code : BatchCode \cup {"NONE"}])
  /\ answer \in [code : BatchCode, http : {0, 200} \cup 400..599]
  /\ pc = "done" <=> answer.http # 0
  /\ patched \in SUBSET Nodes
  /\ disturbed \in SUBSET Nodes

Succeeded(i) == results[i].error_code = "NONE"

\* A 200 batch answers for every name of the body, and for each one once, so
\* the results are safe to key by node name.
OneResultPerNode ==
  /\ \A i, j \in DOMAIN results : results[i].node = results[j].node => i = j
  /\ answer.code = "OK" /\ request.many =>
       {results[i].node : i \in DOMAIN results} = Names

\* A node the policy refuses is reported so, and is never sent to Kubernetes,
\* whichever of the requests and routes it came by.
DeniedNeverSent ==
  /\ patched \cap denied = {}
  /\ \A i \in DOMAIN results :
       results[i].error_code = "POLICY_DENIED" <=> results[i].node \in denied

\* A result is true of its node when it is written down: success means the
\* node is as asked unless someone else changed it since, and a failure the
\* API server or this program decided on means it was left alone.
ResultsHold ==
  \A i \in DOMAIN results :
    LET n == results[i].node
        undecided == results[i].error_code = "KUBE_API_ERROR" /\ results[i].kube_status >= 500
    IN  /\ Succeeded(i) => n \in patched
        /\ ~Succeeded(i) /\ ~undecided => n \notin patched
        /\ n \in patched \ disturbed => health[n] # "absent" /\ unschedulable[n] = Target

\* "Re-enable scheduling, but only on a node that is currently Ready": no
\* uncordon patches a node it read as anything else; a batch's may patch one
\* that its listing did not have.
ReadinessGate ==
  request.action = "uncordon" =>
    \A n \in patched : statuses[n] = "Ready" \/ (request.many /\ statuses[n] = "absent")

\* The two layers of failure: a batch never answers for one node's failure with
\* an error of its own, and never reports as one node's a failure that every
\* node would repeat.
FailureLayers ==
  request.many =>
    /\ answer.code \notin {"POLICY_DENIED", "NODE_NOT_FOUND", "NODE_NOT_READY"}
    /\ answer.code = "KUBE_API_ERROR" /\ results # <<>> => answer.http \in {401, 403, 502, 503}
    /\ \A i \in DOMAIN results :
         results[i].error_code = "KUBE_API_ERROR" => results[i].kube_status \notin {0, 401, 403}

\* Every admitted request is answered, whatever happens to its nodes.
EveryRequestAnswers == pc # "done" ~> pc = "done"

\* "Cluster-level failures are returned as a normal error response instead,
\* since no node was attempted."
ErrorMeansUntouched ==
  request.many /\ pc = "done" /\ answer.code # "OK" =>
    \A i \in DOMAIN results : ~Succeeded(i)
=============================================================================
