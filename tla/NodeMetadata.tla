---------------------------- MODULE NodeMetadata ----------------------------
(***************************************************************************)
(* Requests that edit the labels, annotations or taints of one node:       *)
(* NodeService.label_node, annotate_node and taint_node                    *)
(* (app/services/node_service.py) with key_merge_patch                     *)
(* (app/services/kube_patch.py), behind their routes in                    *)
(* app/api/v1/nodes.py.                                                    *)
(*                                                                         *)
(* A step is one Kubernetes call and the code that runs until the next.    *)
(* Between two steps of a request other requests, kubectl and the node     *)
(* controller edit the same node, and it may go and come back.             *)
(*                                                                         *)
(* Each of the three is a map, from label or annotation keys, or from the  *)
(* (key, effect) pairs that identify taints; None stands for no entry.     *)
(***************************************************************************)
EXTENDS Naturals, KubeErrors

CONSTANTS
  Requests,     \* requests for the node
  Fields,       \* what they may edit: labels, annotations, taints
  Key,          \* what a map may have entries for
  Value,        \* what the entries hold
  None,         \* no entry, and a null in a merge patch
  Bodies,       \* the bodies a request may carry: [set |-> ..., remove |-> ...]
  ErrorStatus   \* HTTP error statuses the API server may answer

ASSUME BodiesAssumption ==
  \A b \in Bodies :
    /\ DOMAIN b.set \subseteq Key /\ b.remove \subseteq Key
    /\ \A k \in DOMAIN b.set : b.set[k] \in Value
ASSUME StatusAssumption == ErrorStatus \subseteq 0..599
ASSUME NoneAssumption == None \notin Value
ASSUME FieldsAssumption == Fields \subseteq {"labels", "annotations", "taints"}
ASSUME RequestsAssumption == "others" \notin Requests

Map == [Key -> Value \cup {None}]
NoEntries == [k \in Key |-> None]

VARIABLES
  \* the cluster
  present,    \* the node is there
  map,        \* map[f]: its labels, annotations or taints
  \* the requests
  pc,         \* pc[r]: the next call of request r
  request,    \* request[r]: the field it edits, and its body
  current,    \* current[r]: the taints it read first
  answer,     \* answer[r]: the HTTP response
  \* history
  applied,    \* applied[r]: its patch was applied
  behind,     \* behind[r]: the field has changed since it read it
  disturbed   \* disturbed[r]: the keys that others edited since its patch, or
              \* since it began

cluster == <<present, map>>
history == <<applied, behind, disturbed>>
vars == <<present, map, pc, request, current, answer, applied, behind, disturbed>>

Field(r) == request[r].field
Body(r) == request[r].body
Named(r) == DOMAIN Body(r).set \cup Body(r).remove

Answer(code, http, entries) == [code |-> code, http |-> http, map |-> entries]

Init ==
  /\ present = TRUE
  /\ map \in [Fields -> Map]
  /\ pc = [r \in Requests |-> "admit"]
  /\ request \in [Requests -> [field : Fields, body : Bodies]]
  /\ current = [r \in Requests |-> NoEntries]
  /\ answer = [r \in Requests |-> Answer("PENDING", 0, NoEntries)]
  /\ applied = [r \in Requests |-> FALSE]
  /\ behind = [r \in Requests |-> FALSE]
  /\ disturbed = [r \in Requests |-> {}]

-----------------------------------------------------------------------------
(* The two ways to change a map.                                           *)

key_merge_patch_SetWins(set, remove) ==
  [k \in DOMAIN set \cup remove |-> IF k \in DOMAIN set THEN set[k] ELSE None]

\* A key in both is removed.
key_merge_patch(set, remove) ==
  [k \in DOMAIN set \cup remove |-> IF k \in remove THEN None ELSE set[k]]

\* What the API server makes of a merge patch.
MergePatch(entries, patch) ==
  [k \in Key |-> IF k \in DOMAIN patch THEN patch[k] ELSE entries[k]]

Recompute_FromNothing(taints, set, remove) ==
  [k \in Key |-> IF k \in DOMAIN set THEN set[k] ELSE None]

\* The list of taints to write, from the list that was read: remove, then set.
Recompute(taints, set, remove) ==
  [k \in Key |-> IF k \in DOMAIN set THEN set[k]
                 ELSE IF k \in remove THEN None ELSE taints[k]]

-----------------------------------------------------------------------------
Goto(r, l) == pc' = [pc EXCEPT ![r] = l] /\ UNCHANGED answer

Respond(r, a) ==
  /\ pc' = [pc EXCEPT ![r] = "done"]
  /\ answer' = [answer EXCEPT ![r] = a]

Raise(r, exc) == Respond(r, Answer(exc.code, exc.http, NoEntries))

Succeed(r, entries) == Respond(r, Answer("OK", 200, entries))

\* A call fails: the node is not there, or some other error.
CallFailed(r) ==
  \/ ~present /\ Raise(r, NodeNotFound)
  \/ \E e \in SdkErrors(ErrorStatus \ {404}) : Raise(r, Translate(e))

\* The policy, call_kube, and what needs no Kubernetes call: labels and
\* annotations with nothing to set or remove.
Admit(r) ==
  /\ pc[r] = "admit"
  /\ \/ \E exc \in PolicyErrors \cup ResolveErrors : Raise(r, exc)
     \/ Field(r) = "taints" /\ Goto(r, "read")
     \/ Field(r) # "taints" /\ Named(r) # {} /\ Goto(r, "patch")
     \/ Field(r) # "taints" /\ Named(r) = {} /\ Succeed(r, NoEntries)
  /\ UNCHANGED <<cluster, request, current, history>>

\* The first read of taint_node, which is the last with nothing to change.
Read(r) ==
  /\ pc[r] = "read"
  /\ \/ /\ present
        /\ current' = [current EXCEPT ![r] = map["taints"]]
        /\ behind' = [behind EXCEPT ![r] = FALSE]
        /\ IF Named(r) = {} THEN Succeed(r, map["taints"]) ELSE Goto(r, "patch")
     \/ CallFailed(r) /\ UNCHANGED <<current, behind>>
  /\ UNCHANGED <<cluster, request, applied, disturbed>>

\* Someone writes the entries of field f; it meant to touch just those in keys.
Write(f, entries, keys, writer) ==
  /\ map' = [map EXCEPT ![f] = entries]
  /\ behind' = [r \in Requests |-> behind[r] \/ (Field(r) = f /\ entries # map[f])]
  /\ disturbed' = [r \in Requests |->
       IF r = writer THEN {}
       ELSE IF Field(r) = f THEN disturbed[r] \cup keys ELSE disturbed[r]]

NewEntries(r) ==
  IF Field(r) = "taints" THEN Recompute(current[r], Body(r).set, Body(r).remove)
  ELSE MergePatch(map[Field(r)], key_merge_patch(Body(r).set, Body(r).remove))

\* Taints are written as a whole: over a change since the read, all of them.
Apply(r) ==
  /\ present
  /\ Write(Field(r), NewEntries(r),
           IF Field(r) = "taints" /\ behind[r] THEN Key ELSE Named(r), r)
  /\ applied' = [applied EXCEPT ![r] = TRUE]

Patch(r) ==
  /\ pc[r] = "patch"
  /\ \/ Apply(r) /\ Goto(r, "reread")
     \/ CallFailed(r) /\ UNCHANGED <<map, history>>
     \/ \E e \in SdkErrors(ErrorStatus) :
          MayHaveApplied(e) /\ Apply(r) /\ Raise(r, Translate(e))
  /\ UNCHANGED <<present, request, current>>

Reported_Stale(r) == IF Field(r) = "taints" THEN current[r] ELSE map[Field(r)]

Reported(r) == map[Field(r)]

Reread(r) ==
  /\ pc[r] = "reread"
  /\ (present /\ Succeed(r, Reported(r))) \/ CallFailed(r)
  /\ UNCHANGED <<cluster, request, current, history>>

Step(r) == Admit(r) \/ Read(r) \/ Patch(r) \/ Reread(r)

-----------------------------------------------------------------------------
(* The rest of the cluster.                                                *)

ours == <<pc, request, current, answer, applied>>

\* kubectl, or the node controller, edits one entry.
Edit(f, k) ==
  /\ present
  /\ \E v \in (Value \cup {None}) \ {map[f][k]} :
       Write(f, [map[f] EXCEPT ![k] = v], {k}, "others")
  /\ UNCHANGED <<present, ours>>

Deregister == present /\ present' = FALSE /\ UNCHANGED <<map, behind, disturbed, ours>>

\* It comes back with entries of its own.
Register ==
  /\ ~present /\ present' = TRUE
  /\ map' \in [Fields -> Map]
  /\ behind' = [r \in Requests |-> TRUE]
  /\ disturbed' = [r \in Requests |-> Key]
  /\ UNCHANGED ours

Environment == Deregister \/ Register \/ \E f \in Fields, k \in Key : Edit(f, k)

Next == Environment \/ \E r \in Requests : Step(r)

Spec == Init /\ [][Next]_vars

-----------------------------------------------------------------------------
(* Properties.                                                             *)

MetadataCode == {"PENDING", "OK", "POLICY_DENIED", "USERS_FILE_INVALID", "CLUSTER_NOT_FOUND",
                 "VALIDATION_ERROR", "KUBE_API_ERROR", "NODE_NOT_FOUND"}

TypeOK ==
  /\ present \in BOOLEAN
  /\ map \in [Fields -> Map]
  /\ pc \in [Requests -> {"admit", "read", "patch", "reread", "done"}]
  /\ request \in [Requests -> [field : Fields, body : Bodies]]
  /\ current \in [Requests -> Map]
  /\ answer \in [Requests -> [code : MetadataCode, http : {0, 200} \cup 400..599, map : Map]]
  /\ \A r \in Requests : pc[r] = "done" <=> answer[r].http # 0
  /\ applied \in [Requests -> BOOLEAN]
  /\ behind \in [Requests -> BOOLEAN]
  /\ disturbed \in [Requests -> SUBSET Key]

\* What r asks of an entry it names: of a label, removal wins; of a taint, the
\* value that is set.
Wanted(r, k) ==
  LET b == Body(r)
  IN  IF k \in DOMAIN b.set /\ (Field(r) = "taints" \/ k \notin b.remove)
      THEN b.set[k] ELSE None

\* No update is lost: what a patch was applied for stays until someone edits
\* that very entry.  Of taints this holds only until a request that read them
\* before the patch writes them after it (disturbed is then every key).
UpdatesKept ==
  \A r \in Requests : applied[r] =>
    \A k \in Named(r) \ disturbed[r] : map[Field(r)][k] = Wanted(r, k)

\* Entries of other parties survive: a request changes what it names, and
\* nothing else unless it writes taints over a change it has not read.
OthersKept ==
  [][\A r \in Requests :
       applied'[r] /\ ~applied[r] /\ ~(Field(r) = "taints" /\ behind[r]) =>
         /\ \A k \in Key \ Named(r) : map'[Field(r)][k] = map[Field(r)][k]
         /\ \A f \in Fields \ {Field(r)} : map'[f] = map[f]]_vars

\* What is true of an answer: each entry that nobody else edited is as it is on
\* the node, and as it was asked for.
Holds(r) ==
  \A k \in Key \ disturbed[r] :
    /\ answer[r].map[k] = map[Field(r)][k]
    /\ k \in Named(r) => answer[r].map[k] = Wanted(r, k)

\* The answer to a request with something to change, or about taints, holds.
\* Labels or annotations with nothing to change are answered without a look at
\* the node.
AnswerHolds ==
  \A r \in Requests :
    answer[r].code = "OK" /\ (Field(r) = "taints" \/ Named(r) # {}) => Holds(r)
=============================================================================
