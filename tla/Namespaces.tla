----------------------------- MODULE Namespaces -----------------------------
(***************************************************************************)
(* Requests that create one namespace, or edit its labels or annotations:  *)
(* NamespaceService.create_namespace, update_labels and update_annotations *)
(* (app/services/namespace_service.py) behind their routes in              *)
(* app/api/v1/namespaces.py, with the provenance that each write stamps    *)
(* (docs/adr/0002).                                                        *)
(*                                                                         *)
(* A step is one Kubernetes call and the code that runs until the next.    *)
(* Others create and delete the namespace, and edit it, between any two.   *)
(*                                                                         *)
(* Labels and annotations are maps, with None for no entry.  A body is     *)
(* what it sets or removes (None) in each; that of a patch with a key in   *)
(* both is refused with the malformed ones and has no representation.  In  *)
(* a stamp a request stands for its account, or for its id; the times of   *)
(* the stamps are left out.                                                *)
(***************************************************************************)
EXTENDS Naturals, KubeErrors

CONSTANTS
  Requests,     \* requests for the namespace
  Anonymous,    \* those without a request id
  FreeKey,      \* keys anyone may use
  KubeKey,      \* keys under kubernetes.io or k8s.io
  Value,        \* what callers and others put in an entry
  None,         \* no entry, and a null in a merge patch
  Bodies,       \* [verb |-> ..., labels |-> ..., annotations |-> ...]
  ErrorStatus   \* HTTP error statuses the API server may answer

\* The keys under the provenance prefix, and all keys.
Stamp == {"created-by", "last-modified-by", "last-request-id"}
Key == FreeKey \cup KubeKey \cup Stamp
Fields == {"labels", "annotations"}
Map == [Key -> Value \cup Requests \cup {None}]
NoEntries == [k \in Key |-> None]

ASSUME BodiesAssumption ==
  \A b \in Bodies :
    /\ b.verb \in {"create", "labels", "annotations"}
    /\ \A f \in Fields :
         /\ DOMAIN b[f] \subseteq Key
         /\ \A k \in DOMAIN b[f] : b[f][k] \in Value \cup {None}
         /\ b.verb = "create" => \A k \in DOMAIN b[f] : b[f][k] # None
         /\ b.verb \in Fields \ {f} => DOMAIN b[f] = {}
ASSUME StatusAssumption == ErrorStatus \subseteq 0..599
ASSUME NoneAssumption == None \notin Value \cup Requests \cup {"Active", "Terminating"}
ASSUME AnonymousAssumption == Anonymous \subseteq Requests
ASSUME KeyAssumption == FreeKey \cap (KubeKey \cup Stamp) = {} /\ KubeKey \cap Stamp = {}

VARIABLES
  \* the cluster
  reserved,   \* the namespace is default or kube-*
  phase,      \* "Absent", "Active" or "Terminating"
  map,        \* map[f]: its labels, its annotations
  \* the requests
  pc,         \* pc[r]: the next call of request r
  body,       \* body[r]: what it asks for
  answer,     \* answer[r]: the HTTP response
  \* history
  applied,    \* applied[r]: its write was applied
  creator,    \* who created the namespace: a request, or None for others
  writer,     \* the request that wrote it last, or None
  seen        \* seen[r]: the phases the namespace has had during r

cluster == <<reserved, phase, map>>
history == <<applied, creator, writer, seen>>
vars == <<reserved, phase, map, pc, body, answer, applied, creator, writer, seen>>

Answer(code, http, status) == [code |-> code, http |-> http, status |-> status]

Init ==
  /\ reserved \in BOOLEAN
  /\ phase = IF reserved THEN "Active" ELSE "Absent"
  /\ map = [f \in Fields |-> NoEntries]
  /\ pc = [r \in Requests |-> "admit"]
  /\ body \in [Requests -> Bodies]
  /\ answer = [r \in Requests |-> Answer("PENDING", 0, None)]
  /\ applied = [r \in Requests |-> FALSE]
  /\ creator = None
  /\ writer = None
  /\ seen = [r \in Requests |-> {}]

-----------------------------------------------------------------------------
(* What is refused before Kubernetes is asked.                             *)

Named(r) == DOMAIN body[r].labels \cup DOMAIN body[r].annotations

NamespaceNotFound == AppException("NAMESPACE_NOT_FOUND", 404)
ValidationError == AppException("VALIDATION_ERROR", 422)

\* By the request models, before the policy: FastAPI's own 422.
InvalidBody_SetOnly(r) ==
  \/ \E f \in Fields : \E k \in DOMAIN body[r][f] \cap KubeKey : body[r][f][k] # None
  \/ body[r].verb = "create" /\ reserved
  \/ body[r].verb # "create" /\ Named(r) = {}

InvalidBody(r) ==
  \/ Named(r) \cap KubeKey # {}
  \/ body[r].verb = "create" /\ reserved
  \/ body[r].verb # "create" /\ Named(r) = {}

\* By the service, which knows the prefix.
Refused_SetOnly(r) ==
  \/ body[r].verb # "create" /\ reserved
  \/ \E f \in Fields : \E k \in DOMAIN body[r][f] \cap Stamp : body[r][f][k] # None

Refused(r) ==
  \/ body[r].verb # "create" /\ reserved
  \/ Named(r) \cap Stamp # {}

-----------------------------------------------------------------------------
Goto(r, l) == pc' = [pc EXCEPT ![r] = l] /\ UNCHANGED answer

Respond(r, a) ==
  /\ pc' = [pc EXCEPT ![r] = "done"]
  /\ answer' = [answer EXCEPT ![r] = a]

Raise(r, exc) == Respond(r, Answer(exc.code, exc.http, None))

\* The body, the policy, call_kube, and what the service refuses.
Admit(r) ==
  /\ pc[r] = "admit"
  /\ IF InvalidBody(r) THEN Raise(r, AppException("INVALID_BODY", 422))
     ELSE \/ \E exc \in PolicyErrors \cup ResolveErrors : Raise(r, exc)
          \/ IF Refused(r) THEN Raise(r, ValidationError) ELSE Goto(r, "write")
  /\ seen' = [seen EXCEPT ![r] = {phase}]
  /\ UNCHANGED <<cluster, body, applied, creator, writer>>

\* With no request id, last-request-id is a null, which clears an older id.
Provenance(r, by) ==
  [k \in {by, "last-request-id"} |-> IF k # by /\ r \in Anonymous THEN None ELSE r]

MergePatch(entries, patch) ==
  [k \in Key |-> IF k \in DOMAIN patch THEN patch[k] ELSE entries[k]]

\* The labels and annotations that a create, or a patch of what is there,
\* leaves: the caller's entries, and the stamps over them.
Written(r) ==
  LET b == body[r]
      by == IF b.verb = "create" THEN "created-by" ELSE "last-modified-by"
  IN  [labels |-> MergePatch(map["labels"], b.labels),
       annotations |-> MergePatch(MergePatch(map["annotations"], b.annotations),
                                  Provenance(r, by))]

\* seen, after the phase becomes p.
Observe(p) ==
  seen' = [r \in Requests |-> IF pc[r] \in {"write", "explain"} THEN seen[r] \cup {p} ELSE seen[r]]

\* The write takes effect: a create of a free name, a patch of what is there.
Apply(r) ==
  LET create == body[r].verb = "create"
      p == IF create THEN "Active" ELSE phase
  IN  /\ create <=> phase = "Absent"
      /\ phase' = p
      /\ map' = Written(r)
      /\ applied' = [applied EXCEPT ![r] = TRUE]
      /\ writer' = r
      /\ creator' = IF create THEN r ELSE creator
      /\ Observe(p)

\* The call fails and changed nothing, for a reason of its own or for another.
Missing(r) ==
  /\ body[r].verb # "create" /\ phase = "Absent"
  /\ Raise(r, NamespaceNotFound)

Conflict(r) ==
  /\ body[r].verb = "create" /\ phase # "Absent"
  /\ Goto(r, "explain")

CallFailed(r) == \E e \in SdkErrors(ErrorStatus \ {404, 409}) : Raise(r, Translate(e))

\* The answer is lost, or the API server gave up, after the write.
Lost_Retried(r, e) == Goto(r, "write")

Lost(r, e) == Raise(r, Translate(e))

Write(r) ==
  /\ pc[r] = "write"
  /\ \/ Apply(r) /\ Respond(r, Answer("OK", IF body[r].verb = "create" THEN 201 ELSE 200, None))
     \/ Missing(r) /\ UNCHANGED <<phase, map, history>>
     \/ Conflict(r) /\ UNCHANGED <<phase, map, history>>
     \/ CallFailed(r) /\ UNCHANGED <<phase, map, history>>
     \/ \E e \in SdkErrors(ErrorStatus) : MayHaveApplied(e) /\ Apply(r) /\ Lost(r, e)
  /\ UNCHANGED <<reserved, body>>

\* detail.status of a 409, by what is read after it.
Explained_Default(p) == IF p = "Terminating" THEN p ELSE "Active"

Explained(p) == IF p = "Absent" THEN None ELSE p

\* _already_exists: Kubernetes does not say which of the two it was.
Explain(r) ==
  /\ pc[r] = "explain"
  /\ \/ Respond(r, Answer("NAMESPACE_ALREADY_EXISTS", 409, Explained(phase)))
     \/ CallFailed(r)
  /\ UNCHANGED <<cluster, body, history>>

Step(r) == Admit(r) \/ Write(r) \/ Explain(r)

-----------------------------------------------------------------------------
(* Others.  Nobody but the service writes under its prefix.                *)

Become(p) == phase' = p /\ Observe(p) /\ UNCHANGED <<reserved, pc, body, answer, applied>>

Create ==
  /\ phase = "Absent"
  /\ Become("Active")
  /\ \E entries \in [Fields -> [FreeKey \cup KubeKey -> Value \cup {None}]] :
       map' = [f \in Fields |-> MergePatch(NoEntries, entries[f])]
  /\ UNCHANGED <<creator, writer>>

Delete ==
  /\ phase = "Active" /\ ~reserved
  /\ Become("Terminating")
  /\ UNCHANGED <<map, creator, writer>>

\* It is empty at last, and what was known of it goes with it.
Vanish ==
  /\ phase = "Terminating"
  /\ Become("Absent")
  /\ map' = [f \in Fields |-> NoEntries]
  /\ creator' = None
  /\ writer' = None

Edit(f, k) ==
  /\ phase # "Absent"
  /\ \E v \in (Value \cup {None}) \ {map[f][k]} : map' = [map EXCEPT ![f][k] = v]
  /\ UNCHANGED <<reserved, phase, pc, body, answer, history>>

Environment == Create \/ Delete \/ Vanish \/ \E f \in Fields, k \in FreeKey \cup KubeKey : Edit(f, k)

Next == Environment \/ \E r \in Requests : Step(r)

Spec == Init /\ [][Next]_vars

-----------------------------------------------------------------------------
(* Properties.                                                             *)

NamespaceCode ==
  {"PENDING", "OK", "INVALID_BODY", "POLICY_DENIED", "USERS_FILE_INVALID", "CLUSTER_NOT_FOUND",
   "VALIDATION_ERROR", "KUBE_API_ERROR", "NAMESPACE_NOT_FOUND", "NAMESPACE_ALREADY_EXISTS"}

Phase == {"Absent", "Active", "Terminating"}

TypeOK ==
  /\ reserved \in BOOLEAN
  /\ phase \in Phase
  /\ map \in [Fields -> Map]
  /\ pc \in [Requests -> {"admit", "write", "explain", "done"}]
  /\ body \in [Requests -> Bodies]
  /\ answer \in [Requests -> [code : NamespaceCode, http : {0, 200, 201} \cup 400..599,
                              status : {None, "Active", "Terminating"}]]
  /\ \A r \in Requests : pc[r] = "done" <=> answer[r].http # 0
  /\ applied \in [Requests -> BOOLEAN]
  /\ creator \in Requests \cup {None}
  /\ writer \in Requests \cup {None}
  /\ seen \in [Requests -> SUBSET Phase]

\* The stamps are the service's own and true: they name who created the
\* namespace and who changed it last, and the id is that of the same write, or
\* absent, never of an older one.  No label is under the prefix.
ProvenanceHolds ==
  LET a == map["annotations"]
  IN  /\ a["created-by"] = creator
      /\ a["last-modified-by"] = IF writer = creator THEN None ELSE writer
      /\ a["last-request-id"] = IF writer \in Anonymous THEN None ELSE writer
      /\ \A k \in Stamp : map["labels"][k] = None

\* What a 409 says of the namespace it was, during the request; with no status,
\* the namespace was there and finished terminating.
ConflictTrue ==
  \A r \in Requests : answer[r].code = "NAMESPACE_ALREADY_EXISTS" =>
    IF answer[r].status = None THEN {"Terminating", "Absent"} \subseteq seen[r]
    ELSE answer[r].status \in seen[r]

\* Only an error of the 5xx kind leaves open whether something was changed:
\* success means it was, and a 4xx that it was not.
ClientErrorMeansUntouched ==
  \A r \in Requests :
    /\ answer[r].code = "OK" => applied[r]
    /\ answer[r].http \in 400..499 => ~applied[r]

\* A request changes only what it names and the stamps, nothing of a reserved
\* namespace, and no entry that belongs to Kubernetes.
OnlyItsOwn ==
  [][\A r \in Requests : applied'[r] /\ ~applied[r] =>
       /\ ~reserved
       /\ \A f \in Fields : \A k \in Key \ Stamp :
            k \in KubeKey \/ k \notin DOMAIN body[r][f] => map'[f][k] = map[f][k]]_vars
=============================================================================
