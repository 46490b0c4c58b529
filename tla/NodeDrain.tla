------------------------------ MODULE NodeDrain ------------------------------
(***************************************************************************)
(* Drain requests for one node (POST .../nodes/{node}/drain), each run by  *)
(* a worker thread of its own: the route drain_node in app/api/v1/nodes.py *)
(* and NodeService.drain with its helpers in app/services/node_service.py. *)
(*                                                                         *)
(* A step of a drain is one Kubernetes call and the code that runs until   *)
(* the next one, so everything else in the cluster (the scheduler, the     *)
(* controllers, the kubelet, other users and other drains) can move        *)
(* between any two calls of a drain.                                       *)
(*                                                                         *)
(* A pod is known to the code by its (namespace, name); the cluster tells  *)
(* two pods of one name apart by their uid, which the code never reads.    *)
(***************************************************************************)
EXTENDS Naturals, KubeErrors

CONSTANTS
  Drains,       \* drain requests
  Pods,         \* pod names (namespace and name)
  Mirror,       \* the pods with the mirror annotation,
  DaemonSet,    \* ... with a DaemonSet owner,
  Unmanaged,    \* ... with no owner at all,
  EmptyDir,     \* ... with an emptyDir volume
  Options,      \* the DrainOptions a request may carry
  ErrorStatus,  \* HTTP error statuses the API server may answer
  Budget,       \* DRAIN_DEFAULT_TIMEOUT_SECONDS
  MaxCall,      \* bound: the seconds one poll may take
  MaxUid        \* bound: incarnations of one pod name

Option == [force : BOOLEAN, delete_emptydir_data : BOOLEAN, disable_eviction : BOOLEAN]

ASSUME PodsAssumption ==
  /\ Mirror \subseteq Pods /\ DaemonSet \subseteq Pods
  /\ Unmanaged \subseteq Pods /\ EmptyDir \subseteq Pods
  /\ Unmanaged \cap DaemonSet = {}
ASSUME OptionsAssumption == Options \subseteq Option
ASSUME NumbersAssumption ==
  /\ Budget \in Nat /\ MaxCall \in Nat /\ MaxUid \in Nat \ {0}
  /\ ErrorStatus \subseteq 0..599

VARIABLES
  \* the cluster
  unschedulable,  \* spec.unschedulable of the node
  phase,          \* phase[p]: of the pod now named p
  deleting,       \* deleting[p]: it has a deletion timestamp
  uid,            \* uid[p]: of the latest pod named p
  here,           \* here[p]: it was bound to this node
  \* the drains
  pc,             \* pc[d]: the next call of drain d
  options,        \* options[d]: the request's DrainOptions
  pods_to_evict,  \* pods_to_evict[d]
  blocked,        \* blocked[d]
  todo,           \* todo[d]: the rest of pods_to_evict in the eviction loop
  elapsed,        \* elapsed[d]: seconds since the wait began
  answer,         \* answer[d]: the HTTP response
  \* history
  listed,         \* listed[d][p]: uid of p in d's first listing, 0 if p was
                  \* not there or had completed
  removed,        \* removed[d]: <<pod, uid>> whose removal d's calls started
  uncordoned      \* uncordoned[d]: someone uncordoned since d's cordon

cluster == <<unschedulable, phase, deleting, uid, here>>
history == <<listed, removed, uncordoned>>
vars == <<unschedulable, phase, deleting, uid, here, pc, options, pods_to_evict, blocked,
          todo, elapsed, answer, listed, removed, uncordoned>>

Phase == {"absent", "running", "completed"}
PC == {"admit", "cordon", "list", "evict", "poll", "sleep", "done"}

Answer(code, http, still) == [code |-> code, http |-> http, still_terminating |-> still]
NoAnswer == Answer("PENDING", 0, {})

Init ==
  /\ unschedulable \in BOOLEAN
  /\ phase \in [Pods -> {"absent", "running"}]
  /\ deleting = [p \in Pods |-> FALSE]
  /\ uid = [p \in Pods |-> IF phase[p] = "absent" THEN 0 ELSE 1]
  /\ here = [p \in Pods |-> TRUE]
  /\ pc = [d \in Drains |-> "admit"]
  /\ options \in [Drains -> Options]
  /\ pods_to_evict = [d \in Drains |-> {}]
  /\ blocked = [d \in Drains |-> {}]
  /\ todo = [d \in Drains |-> {}]
  /\ elapsed = [d \in Drains |-> 0]
  /\ answer = [d \in Drains |-> NoAnswer]
  /\ listed = [d \in Drains |-> [p \in Pods |-> 0]]
  /\ removed = [d \in Drains |-> {}]
  /\ uncordoned = [d \in Drains |-> FALSE]

-----------------------------------------------------------------------------
(* The control flow of a drain.                                            *)

Goto(d, l) == pc' = [pc EXCEPT ![d] = l] /\ UNCHANGED answer

Respond(d, a) ==
  /\ pc' = [pc EXCEPT ![d] = "done"]
  /\ answer' = [answer EXCEPT ![d] = a]

\* An exception ends the request: nothing done so far is undone.
Raise(d, exc) == Respond(d, Answer(exc.code, exc.http, {}))

\* drain_node: the policy, then the dry_run short-circuit, then call_kube.
Admit(d) ==
  /\ pc[d] = "admit"
  /\ \/ \E exc \in PolicyErrors \cup ResolveErrors : Raise(d, exc)
     \/ Respond(d, Answer("DRY_RUN", 200, {}))
     \/ Goto(d, "cordon")
  /\ UNCHANGED <<cluster, options, pods_to_evict, blocked, todo, elapsed, history>>

\* Step 1 of NodeService.drain: cordon, through _patch_unschedulable.
Cordoned(d) ==
  /\ unschedulable' = TRUE
  /\ uncordoned' = [uncordoned EXCEPT ![d] = FALSE]
  /\ Goto(d, "list")

CordonFailed_Ignored(d) ==
  Goto(d, "list") /\ UNCHANGED <<unschedulable, uncordoned>>

CordonFailed(d) ==
  \E e \in SdkErrors(ErrorStatus) :
    /\ UNCHANGED unschedulable \/ (MayHaveApplied(e) /\ unschedulable' = TRUE)
    /\ Raise(d, TranslateOn(e, NodeNotFound))
    /\ UNCHANGED uncordoned

Cordon(d) ==
  /\ pc[d] = "cordon"
  /\ Cordoned(d) \/ CordonFailed(d)
  /\ UNCHANGED <<phase, deleting, uid, here, options, pods_to_evict, blocked,
                 todo, elapsed, listed, removed>>

-----------------------------------------------------------------------------
(* Steps 2 and 3: one listing of the node's pods, classified.              *)

OnNode_Anywhere(p) == phase[p] # "absent"

OnNode(p) == here[p] /\ phase[p] # "absent"

\* The unconditional skips, decided before any option is looked at.
Skipped(p) == p \in Mirror \cup DaemonSet \/ phase[p] = "completed"

\* The reasons a pod that is not skipped blocks the drain for: any at all?
Blocks_IgnoringEmptyDir(opts, p) == p \in Unmanaged /\ ~opts.force

Blocks(opts, p) ==
  \/ p \in Unmanaged /\ ~opts.force
  \/ p \in EmptyDir /\ ~opts.delete_emptydir_data

Classify(d) ==
  LET candidates == {p \in Pods : OnNode(p) /\ ~Skipped(p)}
      refused == {p \in candidates : Blocks(options[d], p)}
  IN  /\ pods_to_evict' = [pods_to_evict EXCEPT ![d] = candidates \ refused]
      /\ blocked' = [blocked EXCEPT ![d] = refused]
      /\ IF refused # {}
         THEN /\ Respond(d, Answer("DRAIN_BLOCKED", 400, {}))
              /\ UNCHANGED todo
         ELSE /\ Goto(d, "evict")
              /\ todo' = [todo EXCEPT ![d] = candidates]

List(d) ==
  /\ pc[d] = "list"
  /\ \/ /\ Classify(d)
        /\ listed' = [listed EXCEPT ![d] =
                        [p \in Pods |-> IF OnNode(p) /\ phase[p] # "completed"
                                       THEN uid[p] ELSE 0]]
     \/ \E e \in SdkErrors(ErrorStatus) :
          Raise(d, Translate(e)) /\ UNCHANGED <<pods_to_evict, blocked, todo, listed>>
  /\ UNCHANGED <<cluster, options, elapsed, removed, uncordoned>>

-----------------------------------------------------------------------------
(* Step 4: _evict_or_delete for each pod, in the order of the listing,     *)
(* which is the API server's choice.                                       *)

\* The API server accepts the removal of the pod now named p: it is given its
\* grace period, or is gone at once when that is zero.
Remove(p) ==
  \/ deleting' = [deleting EXCEPT ![p] = TRUE] /\ UNCHANGED phase
  \/ /\ phase' = [phase EXCEPT ![p] = "absent"]
     /\ deleting' = [deleting EXCEPT ![p] = FALSE]

StartRemoval(d, p) ==
  /\ phase[p] # "absent"
  /\ Remove(p)
  /\ removed' = [removed EXCEPT ![d] =
                   IF deleting[p] THEN @ ELSE @ \cup {<<p, uid[p]>>}]

EvictAccepted(d, p) ==
  /\ StartRemoval(d, p)
  /\ todo' = [todo EXCEPT ![d] = @ \ {p}]
  /\ Goto(d, "evict")

\* 404: already gone.
EvictAlreadyGone(d, p) ==
  /\ phase[p] = "absent"
  /\ todo' = [todo EXCEPT ![d] = @ \ {p}]
  /\ Goto(d, "evict")
  /\ UNCHANGED <<phase, deleting, removed>>

\* 429: a PodDisruptionBudget refuses an eviction, never a deletion.
BudgetRefuses_Skips(d, p) ==
  /\ ~options[d].disable_eviction
  /\ todo' = [todo EXCEPT ![d] = @ \ {p}]
  /\ Goto(d, "evict")
  /\ UNCHANGED <<phase, deleting, removed>>

BudgetRefuses(d, p) ==
  /\ ~options[d].disable_eviction
  /\ Raise(d, KubeApiException(409, FALSE))
  /\ UNCHANGED <<phase, deleting, removed, todo>>

\* Any other error ends the loop with the rest of todo untouched; a deletion
\* has no special reading of 429.
OtherStatus(d) ==
  ErrorStatus \ (IF options[d].disable_eviction THEN {404} ELSE {404, 429})

EvictFailed(d, p) ==
  \E e \in SdkErrors(OtherStatus(d)) :
    /\ \/ UNCHANGED <<phase, deleting, removed>>
       \/ MayHaveApplied(e) /\ StartRemoval(d, p)
    /\ Raise(d, Translate(e))
    /\ UNCHANGED todo

Evict(d) ==
  /\ pc[d] = "evict"
  /\ \E p \in todo[d] : \/ EvictAccepted(d, p) \/ EvictAlreadyGone(d, p)
                       \/ BudgetRefuses(d, p) \/ EvictFailed(d, p)
  /\ UNCHANGED <<unschedulable, uid, here, options, pods_to_evict, blocked,
                 elapsed, listed, uncordoned>>

\* The loop is over; with nothing targeted the wait returns at once.
StartWait(d) ==
  /\ pc[d] = "evict"
  /\ todo[d] = {}
  /\ IF pods_to_evict[d] = {} THEN Respond(d, Answer("OK", 200, {})) ELSE Goto(d, "poll")
  /\ elapsed' = [elapsed EXCEPT ![d] = 0]
  /\ UNCHANGED <<cluster, options, pods_to_evict, blocked, todo, history>>

-----------------------------------------------------------------------------
(* Step 5: _wait_for_pods_gone.  The deadline is read after the poll.      *)

PollSeconds == 2

\* A pod that is shutting down is still present.
StillPresent_IfNotDeleting(d) == {p \in pods_to_evict[d] : OnNode(p) /\ ~deleting[p]}

StillPresent(d) == {p \in pods_to_evict[d] : OnNode(p)}

BudgetSpent_Late(seconds) == seconds > Budget

BudgetSpent(seconds) == seconds >= Budget

PollAnswered(d) ==
  \E seconds \in elapsed[d] .. elapsed[d] + MaxCall :
    /\ elapsed' = [elapsed EXCEPT ![d] = seconds]
    /\ IF StillPresent(d) = {} \/ BudgetSpent(seconds)
       THEN Respond(d, Answer("OK", 200, StillPresent(d)))
       ELSE Goto(d, "sleep")

Poll(d) ==
  /\ pc[d] = "poll"
  /\ \/ PollAnswered(d)
     \/ \E e \in SdkErrors(ErrorStatus) : Raise(d, Translate(e)) /\ UNCHANGED elapsed
  /\ UNCHANGED <<cluster, options, pods_to_evict, blocked, todo, history>>

Sleep_Restarts(d) ==
  /\ pc[d] = "sleep"
  /\ elapsed' = [elapsed EXCEPT ![d] = 0]
  /\ Goto(d, "poll")
  /\ UNCHANGED <<cluster, options, pods_to_evict, blocked, todo, history>>

Sleep(d) ==
  /\ pc[d] = "sleep"
  /\ elapsed' = [elapsed EXCEPT ![d] = @ + PollSeconds]
  /\ Goto(d, "poll")
  /\ UNCHANGED <<cluster, options, pods_to_evict, blocked, todo, history>>

DrainStep(d) ==
  Admit(d) \/ Cordon(d) \/ List(d) \/ Evict(d) \/ StartWait(d) \/ Poll(d) \/ Sleep(d)

-----------------------------------------------------------------------------
(* The rest of the cluster.                                                *)

requests == <<pc, options, pods_to_evict, blocked, todo, elapsed, answer>>

\* A new pod takes a free name.  The scheduler binds none to a cordoned node;
\* DaemonSet and mirror pods do not go through it.
Create(p) ==
  /\ phase[p] = "absent"
  /\ uid[p] < MaxUid
  /\ \/ /\ unschedulable => p \in Mirror \cup DaemonSet
        /\ here' = [here EXCEPT ![p] = TRUE]
     \/ /\ p \notin Mirror \cup DaemonSet
        /\ here' = [here EXCEPT ![p] = FALSE]
  /\ uid' = [uid EXCEPT ![p] = @ + 1]
  /\ phase' = [phase EXCEPT ![p] = "running"]
  /\ UNCHANGED <<unschedulable, deleting, requests, history>>

\* A pod runs to completion, or someone else deletes it.
Complete(p) ==
  /\ phase[p] = "running"
  /\ phase' = [phase EXCEPT ![p] = "completed"]
  /\ UNCHANGED <<unschedulable, deleting, uid, here, requests, history>>

Delete(p) ==
  /\ phase[p] # "absent"
  /\ ~deleting[p]
  /\ Remove(p)
  /\ UNCHANGED <<unschedulable, uid, here, requests, history>>

\* The kubelet is done with a pod that is being deleted.
Terminated(p) ==
  /\ deleting[p]
  /\ phase' = [phase EXCEPT ![p] = "absent"]
  /\ deleting' = [deleting EXCEPT ![p] = FALSE]
  /\ UNCHANGED <<unschedulable, uid, here, requests, history>>

\* Another request, or kubectl, uncordons or cordons the node.
SetUnschedulable ==
  /\ unschedulable' = ~unschedulable
  /\ uncordoned' = [d \in Drains |-> uncordoned[d] \/ unschedulable]
  /\ UNCHANGED <<phase, deleting, uid, here, requests, listed, removed>>

Environment ==
  \/ \E p \in Pods : Create(p) \/ Complete(p) \/ Delete(p) \/ Terminated(p)
  \/ SetUnschedulable

Next == Environment \/ \E d \in Drains : DrainStep(d)

Spec == Init /\ [][Next]_vars

\* A worker thread that can take its next step takes it: every Kubernetes
\* call returns or raises.
FairSpec == Spec /\ \A d \in Drains : WF_vars(DrainStep(d))

\* ... and the kubelet finishes every termination.
FairClusterSpec == FairSpec /\ \A p \in Pods : WF_vars(Terminated(p))
-----------------------------------------------------------------------------
(* Properties.                                                             *)

DrainCode == {"PENDING", "OK", "DRY_RUN", "POLICY_DENIED", "USERS_FILE_INVALID",
              "CLUSTER_NOT_FOUND", "VALIDATION_ERROR", "NODE_NOT_FOUND",
              "DRAIN_BLOCKED", "KUBE_API_ERROR"}

ClusterTypeOK ==
  /\ unschedulable \in BOOLEAN
  /\ phase \in [Pods -> Phase]
  /\ deleting \in [Pods -> BOOLEAN]
  /\ uid \in [Pods -> 0..MaxUid]
  /\ here \in [Pods -> BOOLEAN]

\* A request has an HTTP response, with a status HTTP knows, exactly when done.
AnswerTypeOK ==
  /\ pc \in [Drains -> PC]
  /\ answer \in [Drains -> [code : DrainCode, http : {0, 200} \cup 400..599,
                            still_terminating : SUBSET Pods]]
  /\ \A d \in Drains : pc[d] = "done" <=> answer[d].http # 0

RequestTypeOK ==
  /\ options \in [Drains -> Options]
  /\ pods_to_evict \in [Drains -> SUBSET Pods]
  /\ blocked \in [Drains -> SUBSET Pods]
  /\ todo \in [Drains -> SUBSET Pods]
  /\ elapsed \in [Drains -> Nat]

HistoryTypeOK ==
  /\ listed \in [Drains -> [Pods -> 0..MaxUid]]
  /\ removed \in [Drains -> SUBSET (Pods \X (0..MaxUid))]
  /\ uncordoned \in [Drains -> BOOLEAN]

TypeOK == ClusterTypeOK /\ AnswerTypeOK /\ RequestTypeOK /\ HistoryTypeOK

\* The pod drain d saw under the name p is still there.
StillThere(d, p) == uid[p] = listed[d][p] /\ phase[p] # "absent"

\* A 200 answer accounts for every targeted pod: one that is not reported in
\* still_terminating is gone for good (drained_pods, still_terminating and
\* node_emptied of DrainActionData), whatever other drains and controllers do.
NodeEmptied ==
  \A d \in Drains : answer[d].code = "OK" =>
    \A p \in pods_to_evict[d] \ answer[d].still_terminating : ~StillThere(d, p)

\* "Still terminating: a pod whose removal was accepted": once the eviction
\* loop is past a pod, the pod it listed is gone or going, so no answer reports
\* as drained, or as terminating, a pod that nobody asked to leave.
AcceptedIsGoing ==
  \A d \in Drains : blocked[d] = {} =>
    \A p \in pods_to_evict[d] \ todo[d] : StillThere(d, p) => deleting[p]

\* A drain that removed anything had the options for every live pod it listed
\* (one blocked pod refuses the whole drain before the first eviction), and
\* removed only listed pods that are neither DaemonSet nor mirror pods.
DrainRespectsOptions ==
  \A d \in Drains : removed[d] # {} =>
    /\ \A p \in Pods \ (Mirror \cup DaemonSet) : listed[d][p] # 0 =>
         /\ p \in Unmanaged => options[d].force
         /\ p \in EmptyDir => options[d].delete_emptydir_data
    /\ \A r \in removed[d] : r[1] \notin Mirror \cup DaemonSet /\ listed[d][r[1]] # 0

\* Cordoning before listing is what makes an emptied node stay empty: after a
\* 200 with node_emptied, until someone uncordons, no pod that a drain could
\* have removed is on the node.
EmptiedStaysEmpty ==
  \A d \in Drains :
    answer[d].code = "OK" /\ answer[d].still_terminating = {} /\ ~uncordoned[d] =>
      \A p \in Pods : OnNode(p) => Skipped(p)

\* The wait budget: leftovers are reported only after it is spent, and the
\* wait overshoots it by less than one poll interval and one listing.
WaitBudget ==
  \A d \in Drains :
    /\ answer[d].still_terminating # {} => elapsed[d] >= Budget
    /\ elapsed[d] < Budget + PollSeconds + MaxCall

\* Every drain request is answered, even if pods never terminate and
\* controllers recreate them.
EveryDrainAnswers == \A d \in Drains : pc[d] = "cordon" ~> pc[d] = "done"

\* The pods a 200 answer leaves to their grace period do go away.
LeftoversGo ==
  \A d \in Drains : \A p \in Pods :
    (answer[d].code = "OK" /\ p \in pods_to_evict[d]) ~> ~StillThere(d, p)

\* A pod on another node is removed only under the name of a pod that the drain
\* listed here and that has gone since: the calls name it by that alone.
StraysAreNamesakes ==
  [][\A d \in Drains : \A p \in Pods :
       <<p, uid[p]>> \in removed'[d] \ removed[d] /\ ~here[p] =>
         listed[d][p] # 0 /\ listed[d][p] < uid[p]]_vars
=============================================================================
