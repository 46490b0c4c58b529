--------------------------- MODULE NamespacesProofs ---------------------------
(***************************************************************************)
(* Safety of Namespaces for any number of requests, any keys, values and   *)
(* bodies, and any error statuses.                                         *)
(***************************************************************************)
EXTENDS Namespaces, TLAPS

-----------------------------------------------------------------------------
(* The inductive invariant.                                                *)

\* A name that is free has no entries and no history; who created the namespace
\* has had his write.
ClusterInv ==
  /\ phase = "Absent" => creator = None /\ writer = None /\ map = [f \in Fields |-> NoEntries]
  /\ \A r \in Requests : creator = r => applied[r]

\* A request whose write is still to come has passed every refusal.
Permitted(r) == pc[r] \in {"write", "explain"} => ~InvalidBody(r) /\ ~Refused(r)

\* It has changed nothing, and no answer but its own says that it has.
Fresh(r) == pc[r] # "done" => ~applied[r] /\ answer[r].code = "PENDING"

\* The phase is among those seen; after a conflict, a free name was terminating.
Sees(r) ==
  /\ pc[r] \in {"write", "explain"} => phase \in seen[r]
  /\ pc[r] = "explain" => phase # "Absent" \/ "Terminating" \in seen[r]

ConflictOK(r) ==
  answer[r].code = "NAMESPACE_ALREADY_EXISTS" =>
    IF answer[r].status = None THEN {"Terminating", "Absent"} \subseteq seen[r]
    ELSE answer[r].status \in seen[r]

AnswerOK(r) ==
  /\ answer[r].code = "OK" => applied[r]
  /\ answer[r].http \in 400..499 => ~applied[r]

RequestInv(r) == Permitted(r) /\ Fresh(r) /\ Sees(r) /\ ConflictOK(r) /\ AnswerOK(r)

IInv == TypeOK /\ ClusterInv /\ ProvenanceHolds /\ \A r \in Requests : RequestInv(r)

-----------------------------------------------------------------------------
(* Lemmas on the helpers.                                                  *)

SdkExceptions == {Translate(e) : e \in SdkErrors(ErrorStatus)}

Exceptions ==
  SdkExceptions \cup PolicyErrors \cup ResolveErrors
    \cup {NamespaceNotFound, ValidationError, AppException("INVALID_BODY", 422)}

ErrorCode == NamespaceCode \ {"PENDING", "OK", "NAMESPACE_ALREADY_EXISTS"}

LEMMA ExceptionType ==
  ASSUME NEW exc \in Exceptions PROVE exc.code \in ErrorCode /\ exc.http \in 400..599
  BY StatusAssumption
  DEF Exceptions, SdkExceptions, SdkErrors, ApiError, NetworkError, Translate, KubeApiException,
      ConnectionError, ResolveErrors, NamespaceNotFound, ValidationError, AppException, PolicyErrors,
      PolicyDenied, UsersFileInvalid, NamespaceCode, ErrorCode, NoStatus

\* A failed call that may have been applied is answered with a 5xx.
LEMMA LostIsServerError ==
  ASSUME NEW e \in SdkErrors(ErrorStatus), MayHaveApplied(e)
  PROVE  Translate(e) \in Exceptions /\ Translate(e).http \in 500..599
<1>1. Translate(e) \in Exceptions
  BY DEF Exceptions, SdkExceptions
<1>2. CASE e = NetworkError
  BY <1>1, <1>2 DEF NetworkError, Translate, ConnectionError, KubeApiException
<1>3. ASSUME NEW s \in ErrorStatus, e = ApiError(s) PROVE Translate(e).http \in 500..599
  <2>1. s \in 0..599 /\ e.status = s /\ e.sdk = "ApiException"
    BY <1>3, StatusAssumption DEF ApiError
  <2>2. s >= 500
    BY <2>1 DEF MayHaveApplied, NetworkError, NoStatus
  <2> QED BY <2>1, <2>2 DEF Translate, KubeApiException
<1> QED BY <1>1, <1>2, <1>3 DEF SdkErrors

LEMMA GotoPC ==
  ASSUME TypeOK, NEW r \in Requests, NEW l, Goto(r, l)
  PROVE  /\ pc'[r] = l /\ answer' = answer
         /\ \A q \in Requests \ {r} : pc'[q] = pc[q]
  BY DEF Goto, TypeOK

LEMMA RespondPC ==
  ASSUME TypeOK, NEW r \in Requests, NEW a, Respond(r, a)
  PROVE  /\ pc'[r] = "done" /\ answer'[r] = a
         /\ \A q \in Requests \ {r} : pc'[q] = pc[q] /\ answer'[q] = answer[q]
  BY DEF Respond, TypeOK

\* The types of what a step of a request answers.
RequestType ==
  /\ pc \in [Requests -> {"admit", "write", "explain", "done"}]
  /\ answer \in [Requests -> [code : NamespaceCode, http : {0, 200, 201} \cup 400..599,
                              status : {None, "Active", "Terminating"}]]
  /\ \A r \in Requests : pc[r] = "done" <=> answer[r].http # 0

LEMMA GotoType ==
  ASSUME RequestType, NEW r \in Requests, pc[r] # "done", NEW l \in {"write", "explain"}, Goto(r, l)
  PROVE  RequestType'
  BY DEF RequestType, Goto

LEMMA RespondType ==
  ASSUME RequestType, NEW r \in Requests, NEW code \in NamespaceCode,
         NEW http \in {200, 201} \cup 400..599, NEW status \in {None, "Active", "Terminating"},
         Respond(r, Answer(code, http, status))
  PROVE  RequestType'
<1>1. http # 0
  OBVIOUS
<1>2. /\ Answer(code, http, status) \in
           [code : NamespaceCode, http : {0, 200, 201} \cup 400..599,
            status : {None, "Active", "Terminating"}]
      /\ Answer(code, http, status).http = http
  BY DEF Answer
<1> QED BY <1>1, <1>2 DEF RequestType, Respond

LEMMA RaiseType ==
  ASSUME RequestType, NEW r \in Requests, NEW exc \in Exceptions, Raise(r, exc)
  PROVE  RequestType'
  BY ExceptionType, RespondType DEF Raise, ErrorCode

LEMMA RaiseAnswer ==
  ASSUME TypeOK, NEW r \in Requests, NEW exc \in Exceptions, Raise(r, exc)
  PROVE  /\ pc'[r] = "done" /\ answer'[r].code \in ErrorCode /\ answer'[r].http = exc.http
         /\ \A q \in Requests \ {r} : pc'[q] = pc[q] /\ answer'[q] = answer[q]
  BY ExceptionType, RespondPC DEF Raise, Answer

LEMMA CallFailedRaises ==
  ASSUME NEW r \in Requests, CallFailed(r)
  PROVE  \E exc \in Exceptions : Raise(r, exc)
  BY DEF CallFailed, Exceptions, SdkExceptions, SdkErrors

-----------------------------------------------------------------------------
(* What a write leaves.                                                    *)

\* A request that is not refused names no stamp and no entry of Kubernetes.
LEMMA BodyType ==
  ASSUME TypeOK, NEW r \in Requests, NEW f \in Fields
  PROVE  /\ DOMAIN body[r][f] \subseteq Key /\ DOMAIN body[r][f] \subseteq Named(r)
         /\ \A k \in DOMAIN body[r][f] : body[r][f][k] \in Value \cup {None}
         /\ body[r].verb \in {"create", "labels", "annotations"}
  BY BodiesAssumption DEF TypeOK, Named, Fields

By(r) == IF body[r].verb = "create" THEN "created-by" ELSE "last-modified-by"

\* What a write leaves of each entry: what it names is changed, the stamps of
\* its kind are its own, and the rest stays.
LEMMA WrittenIs ==
  ASSUME TypeOK, NEW r \in Requests, Named(r) \cap Stamp = {}
  PROVE  /\ Written(r) \in [Fields -> Map]
         /\ \A f \in Fields : \A k \in Key \ Stamp :
              k \notin DOMAIN body[r][f] => Written(r)[f][k] = map[f][k]
         /\ \A k \in Stamp : Written(r)["labels"][k] = map["labels"][k]
         /\ Written(r)["annotations"][By(r)] = r
         /\ Written(r)["annotations"]["last-request-id"] = IF r \in Anonymous THEN None ELSE r
         /\ \A k \in {"created-by", "last-modified-by"} \ {By(r)} :
              Written(r)["annotations"][k] = map["annotations"][k]
<1> DEFINE stamps == Provenance(r, By(r))
           L == DOMAIN body[r].labels
           A == DOMAIN body[r].annotations
<1>1. /\ DOMAIN stamps = {By(r), "last-request-id"} /\ stamps[By(r)] = r
      /\ stamps["last-request-id"] = IF r \in Anonymous THEN None ELSE r
      /\ By(r) \in {"created-by", "last-modified-by"}
  BY DEF Provenance, By
<1>2. /\ L \subseteq Key /\ A \subseteq Key /\ L \cap Stamp = {} /\ A \cap Stamp = {}
      /\ \A k \in L : body[r].labels[k] \in Value \cup {None}
      /\ \A k \in A : body[r].annotations[k] \in Value \cup {None}
  BY BodiesAssumption DEF TypeOK, Named, Fields
<1>3. /\ Fields = {"labels", "annotations"} /\ Stamp \subseteq Key
      /\ map["labels"] \in Map /\ map["annotations"] \in Map
      /\ Stamp = {"created-by", "last-modified-by", "last-request-id"}
  BY DEF TypeOK, Fields, Stamp, Key
<1>4. Written(r) =
        [labels |-> [k \in Key |-> IF k \in L THEN body[r].labels[k] ELSE map["labels"][k]],
         annotations |-> [k \in Key |-> IF k \in DOMAIN stamps THEN stamps[k]
                                        ELSE IF k \in A THEN body[r].annotations[k]
                                        ELSE map["annotations"][k]]]
  BY DEF Written, MergePatch, By
<1> HIDE DEF stamps, L, A
<1> DEFINE W == Written(r)
<1>5. /\ W.labels = [k \in Key |-> IF k \in L THEN body[r].labels[k] ELSE map["labels"][k]]
      /\ W.annotations = [k \in Key |-> IF k \in DOMAIN stamps THEN stamps[k]
                                        ELSE IF k \in A THEN body[r].annotations[k]
                                        ELSE map["annotations"][k]]
      /\ W = [f \in Fields |-> W[f]]
  BY <1>3, <1>4
<1> HIDE DEF W
<1>6. W["labels"] \in Map /\ W["annotations"] \in Map
  BY <1>1, <1>2, <1>3, <1>5 DEF Map
<1>7. W \in [Fields -> Map]
  BY <1>3, <1>5, <1>6
<1>8. \A k \in Key \ Stamp :
        /\ k \notin L => W["labels"][k] = map["labels"][k]
        /\ k \notin A => W["annotations"][k] = map["annotations"][k]
  BY <1>1, <1>3, <1>5
<1>9. /\ \A k \in Stamp : W["labels"][k] = map["labels"][k]
      /\ W["annotations"][By(r)] = r
      /\ W["annotations"]["last-request-id"] = IF r \in Anonymous THEN None ELSE r
      /\ \A k \in {"created-by", "last-modified-by"} \ {By(r)} :
           W["annotations"][k] = map["annotations"][k]
  BY <1>1, <1>2, <1>3, <1>5
<1> QED BY <1>3, <1>7, <1>8, <1>9 DEF W, L, A

-----------------------------------------------------------------------------
(* One lemma for a write that takes effect, by whatever answer.            *)

LEMMA ApplyOK ==
  ASSUME IInv, NEW r \in Requests, pc[r] = "write", Apply(r)
  PROVE  /\ phase' \in Phase /\ map' \in [Fields -> Map] /\ applied' \in [Requests -> BOOLEAN]
         /\ creator' \in Requests \cup {None} /\ writer' \in Requests \cup {None}
         /\ seen' \in [Requests -> SUBSET Phase]
         /\ ClusterInv' /\ ProvenanceHolds' /\ applied'[r]
         /\ \A q \in Requests \ {r} : applied'[q] = applied[q]
<1>1. TypeOK /\ ClusterInv /\ ProvenanceHolds /\ ~applied[r] /\ ~Refused(r)
  BY DEF IInv, RequestInv, Fresh, Permitted
<1>2. /\ map' = Written(r) /\ writer' = r /\ Observe(phase')
      /\ applied' = [applied EXCEPT ![r] = TRUE]
  BY DEF Apply
<1>3. CASE body[r].verb = "create"
  <2>1. phase = "Absent" /\ phase' = "Active" /\ creator' = r
    BY <1>3 DEF Apply
  <2> QED
    BY <1>1, <1>2, <1>3, <2>1, WrittenIs, NoneAssumption, AnonymousAssumption
    DEF Refused, By, TypeOK, ClusterInv, ProvenanceHolds, Phase, Observe, Stamp, NoEntries, Key, Fields
<1>4. CASE body[r].verb # "create"
  <2>1. phase # "Absent" /\ phase' = phase /\ creator' = creator /\ creator # r
    BY <1>1, <1>4 DEF Apply, ClusterInv
  <2> QED
    BY <1>1, <1>2, <1>4, <2>1, WrittenIs, NoneAssumption, AnonymousAssumption
    DEF Refused, By, TypeOK, ClusterInv, ProvenanceHolds, Phase, Observe, Stamp, Key, Fields
<1> QED BY <1>3, <1>4

-----------------------------------------------------------------------------
(* Each step preserves the types, and what holds of the request that takes *)
(* it.                                                                     *)

LEMMA AdmitOK ==
  ASSUME IInv, NEW r \in Requests, Admit(r)
  PROVE  TypeOK' /\ RequestInv(r)'
<1>1. /\ UNCHANGED <<reserved, phase, map, body, applied, creator, writer>>
      /\ pc[r] = "admit" /\ ~applied[r] /\ answer[r].code = "PENDING" /\ TypeOK /\ RequestType
      /\ seen' = [seen EXCEPT ![r] = {phase}]
  BY DEF Admit, IInv, RequestInv, Fresh, cluster, TypeOK, RequestType
<1>2. /\ seen' \in [Requests -> SUBSET Phase] /\ seen'[r] = {phase}
      /\ InvalidBody(r)' = InvalidBody(r) /\ Refused(r)' = Refused(r)
  BY <1>1 DEF TypeOK, InvalidBody, Refused, Named
<1>3. ASSUME NEW exc \in Exceptions, Raise(r, exc) PROVE RequestType' /\ RequestInv(r)'
  <2>1. pc'[r] = "done" /\ answer'[r].code \in ErrorCode
    BY <1>1, <1>3, RaiseAnswer
  <2> QED
    BY <1>1, <1>3, <2>1, RaiseType
    DEF RequestInv, Permitted, Fresh, Sees, ConflictOK, AnswerOK, ErrorCode
<1>4. ASSUME ~InvalidBody(r), ~Refused(r), Goto(r, "write") PROVE RequestType' /\ RequestInv(r)'
  <2>1. pc'[r] = "write" /\ answer' = answer
    BY <1>1, <1>4, GotoPC
  <2>2. answer[r].http = 0
    BY <1>1 DEF TypeOK
  <2>3. RequestType'
    BY <1>1, <1>4, GotoType
  <2>4. RequestInv(r)'
    BY <1>1, <1>2, <1>4, <2>1, <2>2 DEF RequestInv, Permitted, Fresh, Sees, ConflictOK, AnswerOK
  <2> QED BY <2>3, <2>4
<1>5. RequestType' /\ RequestInv(r)'
  <2>1. CASE InvalidBody(r)
    <3>1. AppException("INVALID_BODY", 422) \in Exceptions
      BY DEF Exceptions
    <3>2. Raise(r, AppException("INVALID_BODY", 422))
      BY <2>1 DEF Admit
    <3> QED BY <1>3, <3>1, <3>2
  <2>2. CASE ~InvalidBody(r)
    <3>1. \/ \E exc \in Exceptions : Raise(r, exc)
          \/ ~Refused(r) /\ Goto(r, "write")
      BY <2>2 DEF Admit, Exceptions
    <3> QED BY <1>3, <1>4, <2>2, <3>1
  <2> QED BY <2>1, <2>2
<1> QED BY <1>1, <1>2, <1>5 DEF TypeOK, RequestType

LEMMA WriteOK ==
  ASSUME IInv, NEW r \in Requests, Write(r)
  PROVE  TypeOK' /\ RequestInv(r)'
<1>1. /\ UNCHANGED <<reserved, body>> /\ pc[r] = "write"
      /\ ~applied[r] /\ answer[r].code = "PENDING" /\ TypeOK /\ RequestType
      /\ phase \in seen[r] /\ ~InvalidBody(r) /\ ~Refused(r)
  BY DEF Write, IInv, RequestInv, Permitted, Fresh, Sees, TypeOK, RequestType
<1>2. InvalidBody(r)' = InvalidBody(r) /\ Refused(r)' = Refused(r)
  BY <1>1 DEF InvalidBody, Refused, Named
<1>3. CASE Apply(r) /\ Respond(r, Answer("OK", IF body[r].verb = "create" THEN 201 ELSE 200, None))
  <2>1. pc'[r] = "done" /\ answer'[r].code = "OK" /\ answer'[r].http \in {200, 201}
    BY <1>1, <1>3, RespondPC DEF Answer
  <2>2. RequestType'
    <3> DEFINE http == IF body[r].verb = "create" THEN 201 ELSE 200
    <3>1. http \in {200, 201} /\ "OK" \in NamespaceCode
      BY DEF NamespaceCode
    <3> HIDE DEF http
    <3> QED BY <1>1, <1>3, <3>1, RespondType DEF http
  <2>3. /\ phase' \in Phase /\ map' \in [Fields -> Map] /\ applied' \in [Requests -> BOOLEAN]
        /\ creator' \in Requests \cup {None} /\ writer' \in Requests \cup {None}
        /\ seen' \in [Requests -> SUBSET Phase] /\ applied'[r]
    BY <1>1, <1>3, ApplyOK
  <2>4. TypeOK'
    BY <1>1, <2>2, <2>3 DEF TypeOK, RequestType
  <2>5. Permitted(r)' /\ Fresh(r)' /\ Sees(r)'
    BY <2>1 DEF Permitted, Fresh, Sees
  <2>6. ConflictOK(r)' /\ AnswerOK(r)'
    BY <2>1, <2>3 DEF ConflictOK, AnswerOK
  <2> QED BY <2>4, <2>5, <2>6 DEF RequestInv
<1>4. ASSUME NEW exc \in Exceptions, Raise(r, exc), UNCHANGED <<phase, map, history>>
      PROVE  TypeOK' /\ RequestInv(r)'
  <2>1. pc'[r] = "done" /\ answer'[r].code \in ErrorCode /\ RequestType'
    BY <1>1, <1>4, RaiseAnswer, RaiseType
  <2> QED
    BY <1>1, <1>4, <2>1
    DEF RequestInv, Permitted, Fresh, Sees, ConflictOK, AnswerOK, ErrorCode, TypeOK, RequestType,
        history
<1>5. CASE Conflict(r) /\ UNCHANGED <<phase, map, history>>
  <2>1. pc'[r] = "explain" /\ answer' = answer /\ RequestType' /\ phase # "Absent"
    BY <1>1, <1>5, GotoPC, GotoType DEF Conflict
  <2>2. answer[r].http = 0
    BY <1>1 DEF TypeOK
  <2> QED
    BY <1>1, <1>2, <1>5, <2>1, <2>2
    DEF RequestInv, Permitted, Fresh, Sees, ConflictOK, AnswerOK, TypeOK, RequestType, history
<1>6. ASSUME NEW e \in SdkErrors(ErrorStatus), MayHaveApplied(e), Apply(r), Lost(r, e)
      PROVE  TypeOK' /\ RequestInv(r)'
  <2>1. Translate(e) \in Exceptions /\ Translate(e).http \in 500..599
    BY <1>6, LostIsServerError
  <2>2. /\ pc'[r] = "done" /\ answer'[r].code \in ErrorCode
        /\ answer'[r].http \in 500..599 /\ RequestType'
    BY <1>1, <1>6, <2>1, RaiseAnswer, RaiseType DEF Lost
  <2>3. TypeOK'
    BY <1>1, <1>6, <2>2, ApplyOK DEF TypeOK, RequestType
  <2>4. answer'[r].code \notin {"OK", "NAMESPACE_ALREADY_EXISTS"} /\ answer'[r].http \notin 400..499
    <3>1. "OK" \notin ErrorCode /\ "NAMESPACE_ALREADY_EXISTS" \notin ErrorCode
      BY DEF ErrorCode
    <3>2. \A n \in 500..599 : n \notin 400..499
      OBVIOUS
    <3> QED BY <2>2, <3>1, <3>2
  <2> QED
    BY <2>2, <2>3, <2>4 DEF RequestInv, Permitted, Fresh, Sees, ConflictOK, AnswerOK
<1> QED BY <1>3, <1>4, <1>5, <1>6, CallFailedRaises DEF Write, Missing, Exceptions

LEMMA ExplainOK ==
  ASSUME IInv, NEW r \in Requests, Explain(r)
  PROVE  TypeOK' /\ RequestInv(r)'
<1>1. /\ UNCHANGED <<reserved, phase, map, body, applied, creator, writer, seen>>
      /\ pc[r] = "explain" /\ ~applied[r] /\ TypeOK /\ RequestType /\ phase \in seen[r]
      /\ phase # "Absent" \/ "Terminating" \in seen[r]
  BY DEF Explain, IInv, RequestInv, Fresh, Sees, cluster, history, TypeOK, RequestType
<1>2. CASE Respond(r, Answer("NAMESPACE_ALREADY_EXISTS", 409, Explained(phase)))
  <2>1. /\ pc'[r] = "done" /\ answer'[r].code = "NAMESPACE_ALREADY_EXISTS"
        /\ answer'[r].http = 409 /\ answer'[r].status = Explained(phase)
    BY <1>1, <1>2, RespondPC DEF Answer
  <2>2. Explained(phase) \in {None, "Active", "Terminating"}
    BY <1>1 DEF Explained, TypeOK, Phase
  <2>3. RequestType'
    <3>1. "NAMESPACE_ALREADY_EXISTS" \in NamespaceCode /\ 409 \in {200, 201} \cup 400..599
      BY DEF NamespaceCode
    <3> QED BY <1>1, <1>2, <2>2, <3>1, RespondType
  <2>4. ConflictOK(r)'
    BY <1>1, <2>1, NoneAssumption DEF ConflictOK, Explained, TypeOK, Phase
  <2> QED
    BY <1>1, <2>1, <2>3, <2>4
    DEF RequestInv, Permitted, Fresh, Sees, AnswerOK, TypeOK, RequestType
<1>3. ASSUME NEW exc \in Exceptions, Raise(r, exc) PROVE TypeOK' /\ RequestInv(r)'
  <2>1. pc'[r] = "done" /\ answer'[r].code \in ErrorCode /\ RequestType'
    BY <1>1, <1>3, RaiseAnswer, RaiseType
  <2> QED
    BY <1>1, <2>1
    DEF RequestInv, Permitted, Fresh, Sees, ConflictOK, AnswerOK, ErrorCode, TypeOK, RequestType
<1> QED BY <1>2, <1>3, CallFailedRaises DEF Explain

-----------------------------------------------------------------------------
(* What holds of a request survives the steps of others: they leave it as  *)
(* it is, and the phase moves as Observe records, never from Active to     *)
(* Absent.                                                                 *)

LEMMA BystanderOK ==
  ASSUME IInv, NEW r \in Requests,
         UNCHANGED <<reserved, body>>, pc'[r] = pc[r], answer'[r] = answer[r],
         applied'[r] = applied[r],
         \/ phase' = phase /\ seen'[r] = seen[r]
         \/ /\ Observe(phase')
            /\ phase' = "Absent" => phase = "Terminating"
  PROVE  RequestInv(r)'
<1>1. TypeOK /\ RequestInv(r)
  BY DEF IInv
<1>2. /\ InvalidBody(r)' = InvalidBody(r) /\ Refused(r)' = Refused(r)
      /\ seen[r] \subseteq seen'[r]
  BY <1>1 DEF InvalidBody, Refused, Named, Observe, TypeOK
<1>3. Sees(r)'
  BY <1>1, <1>2 DEF RequestInv, Sees, Observe
<1> QED BY <1>1, <1>2, <1>3 DEF RequestInv, Permitted, Fresh, ConflictOK, AnswerOK

LEMMA OthersOK ==
  ASSUME IInv, NEW q \in Requests, Step(q), NEW r \in Requests \ {q}
  PROVE  RequestInv(r)'
<1>1. TypeOK
  BY DEF IInv
<1>2. UNCHANGED <<reserved, body>>
  BY DEF Step, Admit, Write, Explain, cluster
<1>3. pc'[r] = pc[r] /\ answer'[r] = answer[r]
  <2>1. (\E l : Goto(q, l)) \/ (\E a : Respond(q, a))
    BY DEF Step, Admit, Write, Explain, Missing, Conflict, CallFailed, Lost, Raise
  <2> QED BY <1>1, <2>1, GotoPC, RespondPC
<1>4. CASE Admit(q) \/ Explain(q) \/ UNCHANGED <<phase, map, history>>
  BY <1>1, <1>2, <1>3, <1>4, BystanderOK DEF Admit, Explain, TypeOK, cluster, history
<1>5. CASE Apply(q)
  <2>1. Observe(phase') /\ phase' # "Absent"
    BY <1>5 DEF Apply
  <2>2. applied' = [applied EXCEPT ![q] = TRUE]
    BY <1>5 DEF Apply
  <2>3. applied'[r] = applied[r]
    BY <1>1, <2>2 DEF TypeOK
  <2> QED BY <1>2, <1>3, <2>1, <2>3, BystanderOK
<1> QED BY <1>4, <1>5 DEF Step, Write

LEMMA EnvironmentOK ==
  ASSUME IInv, Environment
  PROVE  TypeOK' /\ ClusterInv' /\ ProvenanceHolds' /\ \A r \in Requests : RequestInv(r)'
<1>1. TypeOK /\ ClusterInv /\ ProvenanceHolds
  BY DEF IInv
<1>2. ASSUME NEW p \in Phase, Become(p), p = "Absent" => phase = "Terminating"
      PROVE  /\ \A r \in Requests : RequestInv(r)'
             /\ seen' \in [Requests -> SUBSET Phase] /\ phase' = p
             /\ UNCHANGED <<reserved, pc, body, answer, applied>>
  BY <1>1, <1>2, BystanderOK DEF Become, Observe, TypeOK
<1>3. NoEntries \in Map /\ \A k \in Key : NoEntries[k] = None
  BY DEF NoEntries, Map
<1>4. Stamp \subseteq Key /\ "labels" \in Fields /\ "annotations" \in Fields
  BY DEF Key, Fields
<1>5. CASE Create
  <2>1. PICK entries \in [Fields -> [FreeKey \cup KubeKey -> Value \cup {None}]] :
          map' = [f \in Fields |-> MergePatch(NoEntries, entries[f])]
    BY <1>5 DEF Create
  <2>2. \A f \in Fields : MergePatch(NoEntries, entries[f]) \in Map
    BY <1>3 DEF MergePatch, Map
  <2>3. \A f \in Fields : \A k \in Stamp : map'[f][k] = None
    BY <1>3, <1>4, <2>1, KeyAssumption DEF MergePatch
  <2>4. creator = None /\ writer = None /\ UNCHANGED <<creator, writer>> /\ Become("Active")
    BY <1>1, <1>5 DEF Create, ClusterInv
  <2>5. ProvenanceHolds'
    BY <1>4, <2>3, <2>4, NoneAssumption, AnonymousAssumption DEF ProvenanceHolds, Stamp
  <2> QED BY <1>1, <1>2, <2>1, <2>2, <2>4, <2>5 DEF TypeOK, ClusterInv, Phase
<1>6. CASE Delete
  <2>1. Become("Terminating") /\ phase = "Active" /\ UNCHANGED <<map, creator, writer>>
    BY <1>6 DEF Delete
  <2> QED BY <1>1, <1>2, <2>1 DEF TypeOK, ClusterInv, ProvenanceHolds, Phase
<1>7. CASE Vanish
  <2>1. /\ Become("Absent") /\ phase = "Terminating" /\ creator' = None /\ writer' = None
        /\ map' = [f \in Fields |-> NoEntries]
    BY <1>7 DEF Vanish
  <2>2. ProvenanceHolds'
    BY <1>3, <1>4, <2>1, NoneAssumption, AnonymousAssumption DEF ProvenanceHolds, Stamp
  <2> QED BY <1>1, <1>2, <1>3, <2>1, <2>2, NoneAssumption DEF TypeOK, ClusterInv, Phase
<1>8. ASSUME NEW f \in Fields, NEW k \in FreeKey \cup KubeKey, Edit(f, k)
      PROVE  TypeOK' /\ ClusterInv' /\ ProvenanceHolds' /\ \A r \in Requests : RequestInv(r)'
  <2>1. phase # "Absent" /\ UNCHANGED <<reserved, phase, pc, body, answer, history>>
    BY <1>8 DEF Edit
  <2>2. PICK v \in Value \cup {None} : map' = [map EXCEPT ![f][k] = v]
    BY <1>8 DEF Edit
  <2>3. map' \in [Fields -> Map]
    <3>1. map[f] \in Map /\ k \in Key
      BY <1>1, <1>8 DEF TypeOK, Key
    <3>2. [map[f] EXCEPT ![k] = v] \in Map
      BY <3>1 DEF Map
    <3>3. map' = [map EXCEPT ![f] = [map[f] EXCEPT ![k] = v]]
      BY <2>2
    <3>4. map \in [Fields -> Map]
      BY <1>1 DEF TypeOK
    <3> QED BY <3>2, <3>3, <3>4
  <2>4. \A g \in Fields : \A j \in Stamp : map'[g][j] = map[g][j]
    BY <1>1, <2>2, KeyAssumption DEF TypeOK, Map, Key
  <2>5. ProvenanceHolds'
    BY <1>1, <1>4, <2>1, <2>4 DEF ProvenanceHolds, Stamp, history
  <2>6. \A r \in Requests : RequestInv(r)'
    BY <2>1, BystanderOK DEF history
  <2> QED BY <1>1, <2>1, <2>3, <2>5, <2>6 DEF TypeOK, ClusterInv, history
<1> QED BY <1>5, <1>6, <1>7, <1>8 DEF Environment

-----------------------------------------------------------------------------
(* The theorems.                                                           *)

LEMMA WriteCluster ==
  ASSUME IInv, NEW r \in Requests, Write(r) PROVE ClusterInv' /\ ProvenanceHolds'
<1>1. CASE Apply(r)
  BY <1>1, ApplyOK DEF Write
<1>2. CASE UNCHANGED <<phase, map, history>>
  BY <1>2 DEF IInv, ClusterInv, ProvenanceHolds, history
<1> QED BY <1>1, <1>2 DEF Write

\* The invariant that relates the stamps, who wrote them, and what each request
\* has seen of the namespace is preserved by every step.
THEOREM Inductive == IInv /\ [Next]_vars => IInv'
<1> SUFFICES ASSUME IInv, [Next]_vars PROVE IInv'
  OBVIOUS
<1>1. CASE UNCHANGED vars
  BY <1>1
  DEF vars, IInv, TypeOK, ClusterInv, ProvenanceHolds, RequestInv, Permitted, Fresh, Sees, ConflictOK,
      AnswerOK, InvalidBody, Refused, Named
<1>2. CASE Environment
  BY <1>2, EnvironmentOK DEF IInv
<1>3. ASSUME NEW q \in Requests, Step(q) PROVE IInv'
  <2>1. TypeOK' /\ RequestInv(q)'
    BY <1>3, AdmitOK, WriteOK, ExplainOK DEF Step
  <2>2. ClusterInv' /\ ProvenanceHolds'
    <3>1. CASE Admit(q) \/ Explain(q)
      BY <3>1 DEF Admit, Explain, IInv, ClusterInv, ProvenanceHolds, cluster, history
    <3>2. CASE Write(q)
      BY <3>2, WriteCluster
    <3> QED BY <1>3, <3>1, <3>2 DEF Step
  <2> QED BY <1>3, <2>1, <2>2, OthersOK DEF IInv
<1> QED BY <1>1, <1>2, <1>3 DEF Next

LEMMA Invariant == Spec => []IInv
<1>1. Init => IInv
  <2> SUFFICES ASSUME Init PROVE IInv
    OBVIOUS
  <2>1. NoEntries \in Map /\ \A k \in Key : NoEntries[k] = None
    BY DEF NoEntries, Map
  <2>2. TypeOK
    BY <2>1 DEF Init, TypeOK, Answer, NamespaceCode, Phase
  <2>3. ClusterInv
    BY NoneAssumption DEF Init, ClusterInv
  <2>4. ProvenanceHolds
    BY <2>1, NoneAssumption, AnonymousAssumption DEF Init, ProvenanceHolds, Stamp, Key, Fields
  <2>5. \A r \in Requests : RequestInv(r)
    BY DEF Init, RequestInv, Permitted, Fresh, Sees, ConflictOK, AnswerOK, Answer
  <2> QED BY <2>2, <2>3, <2>4, <2>5 DEF IInv
<1> QED BY <1>1, Inductive, PTL DEF Spec

\* The namespace, the requests and their answers keep their types.
THEOREM TypeCorrect == Spec => []TypeOK
<1>1. IInv => TypeOK
  BY DEF IInv
<1> QED BY <1>1, Invariant, PTL

\* No caller forges provenance: the stamps name who created the namespace and
\* who changed it last, and the id is of that write.
THEOREM ProvenanceGenuine == Spec => []ProvenanceHolds
<1>1. IInv => ProvenanceHolds
  BY DEF IInv
<1> QED BY <1>1, Invariant, PTL

\* The status in a 409 is one that the namespace had during the request.
THEOREM ConflictExplained == Spec => []ConflictTrue
<1>1. IInv => ConflictTrue
  BY DEF IInv, RequestInv, ConflictOK, ConflictTrue
<1> QED BY <1>1, Invariant, PTL

\* A 4xx means that nothing was changed, and success that something was.
THEOREM StatusTellsEffect == Spec => []ClientErrorMeansUntouched
<1>1. IInv => ClientErrorMeansUntouched
  BY DEF IInv, RequestInv, AnswerOK, ClientErrorMeansUntouched
<1> QED BY <1>1, Invariant, PTL

\* A request changes only entries it names and may name, and stamps.
THEOREM NothingElseChanges == Spec => OnlyItsOwn
<1> DEFINE Confined(r) ==
      applied'[r] /\ ~applied[r] =>
        /\ ~reserved
        /\ \A f \in Fields : \A k \in Key \ Stamp :
             k \in KubeKey \/ k \notin DOMAIN body[r][f] => map'[f][k] = map[f][k]
<1>1. IInv /\ [Next]_vars => [\A r \in Requests : Confined(r)]_vars
  <2> SUFFICES ASSUME IInv, Next, NEW r \in Requests, applied'[r], ~applied[r]
               PROVE  /\ ~reserved
                      /\ \A f \in Fields : \A k \in Key \ Stamp :
                           k \in KubeKey \/ k \notin DOMAIN body[r][f] => map'[f][k] = map[f][k]
    BY Zenon
  <2>1. PICK q \in Requests : Write(q) /\ Apply(q)
    BY DEF Next, Step, Admit, Write, Explain, history, Environment, Create, Delete, Vanish, Become,
           Edit
  <2>2. q = r
    BY <2>1 DEF Apply, IInv, TypeOK
  <2>3. TypeOK /\ ~InvalidBody(r) /\ ~Refused(r) /\ map' = Written(r)
    BY <2>1, <2>2 DEF IInv, RequestInv, Permitted, Write, Apply
  <2>4. ~reserved
    BY <2>3 DEF InvalidBody, Refused
  <2>5. \A f \in Fields : DOMAIN body[r][f] \cap KubeKey = {}
    BY <2>3, BodyType DEF InvalidBody
  <2> QED BY <2>3, <2>4, <2>5, WrittenIs DEF Refused
<1> QED BY <1>1, Invariant, PTL DEF Spec, OnlyItsOwn
=============================================================================
