-------------------------- MODULE NodeMetadataProofs --------------------------
(***************************************************************************)
(* Safety of NodeMetadata for any number of requests, any keys, values and *)
(* bodies, and any error statuses.                                         *)
(***************************************************************************)
EXTENDS NodeMetadata, TLAPS

-----------------------------------------------------------------------------
(* Lemmas on the helpers.                                                  *)

ErrorCode == MetadataCode \ {"PENDING", "OK"}

Exceptions ==
  {Translate(e) : e \in SdkErrors(ErrorStatus)} \cup {NodeNotFound} \cup PolicyErrors \cup ResolveErrors

LEMMA ExceptionType ==
  ASSUME NEW exc \in Exceptions PROVE exc.code \in ErrorCode /\ exc.http \in 400..599
  BY StatusAssumption
  DEF Exceptions, SdkErrors, ApiError, NetworkError, Translate, KubeApiException, ConnectionError,
      ResolveErrors, NodeNotFound, AppException, PolicyErrors, PolicyDenied, UsersFileInvalid,
      MetadataCode, ErrorCode, NoStatus

\* The body of a request names keys and values.
LEMMA BodyType ==
  ASSUME TypeOK, NEW r \in Requests
  PROVE  /\ Field(r) \in Fields /\ Named(r) \subseteq Key
         /\ DOMAIN Body(r).set \subseteq Key /\ Body(r).remove \subseteq Key
         /\ \A k \in DOMAIN Body(r).set : Body(r).set[k] \in Value
  BY BodiesAssumption DEF TypeOK, Field, Body, Named

\* Both ways to write give every entry the request names what it asks for, and
\* keep the others as they were in what it starts from.
LEMMA NewEntriesMeet ==
  ASSUME TypeOK, NEW r \in Requests
  PROVE  LET base == IF Field(r) = "taints" THEN current[r] ELSE map[Field(r)]
         IN  /\ NewEntries(r) \in Map
             /\ \A k \in Named(r) : NewEntries(r)[k] = Wanted(r, k)
             /\ \A k \in Key \ Named(r) : NewEntries(r)[k] = base[k]
<1>1. current[r] \in Map /\ map[Field(r)] \in Map
  BY BodyType DEF TypeOK
<1>2. CASE Field(r) = "taints"
  BY <1>1, <1>2, BodyType DEF NewEntries, Recompute, Wanted, Named, Map
<1>3. CASE Field(r) # "taints"
  <2> DEFINE patch == key_merge_patch(Body(r).set, Body(r).remove)
  <2>1. /\ DOMAIN patch = Named(r)
        /\ \A k \in Named(r) : patch[k] = Wanted(r, k) /\ patch[k] \in Value \cup {None}
    BY <1>3, BodyType DEF key_merge_patch, Wanted, Named
  <2>2. NewEntries(r) = [k \in Key |-> IF k \in Named(r) THEN patch[k] ELSE map[Field(r)][k]]
    BY <1>3, <2>1 DEF NewEntries, MergePatch
  <2> HIDE DEF patch
  <2> QED BY <1>1, <1>3, <2>1, <2>2, BodyType DEF Map
<1> QED BY <1>2, <1>3

-----------------------------------------------------------------------------
(* Types.                                                                  *)

AnswerType ==
  /\ pc \in [Requests -> {"admit", "read", "patch", "reread", "done"}]
  /\ answer \in [Requests -> [code : MetadataCode, http : {0, 200} \cup 400..599, map : Map]]
  /\ \A r \in Requests : pc[r] = "done" <=> answer[r].http # 0

ClusterType ==
  /\ map \in [Fields -> Map]
  /\ behind \in [Requests -> BOOLEAN]
  /\ disturbed \in [Requests -> SUBSET Key]

LEMMA NoEntriesType == NoEntries \in Map
  BY DEF NoEntries, Map

LEMMA GotoType ==
  ASSUME AnswerType, NEW r \in Requests, pc[r] # "done", NEW l \in {"read", "patch", "reread"},
         Goto(r, l)
  PROVE  AnswerType'
  BY DEF AnswerType, Goto

LEMMA RespondType ==
  ASSUME AnswerType, NEW r \in Requests, NEW code \in MetadataCode,
         NEW http \in {200} \cup 400..599, NEW entries \in Map,
         Respond(r, Answer(code, http, entries))
  PROVE  AnswerType'
<1>1. http # 0
  OBVIOUS
<1>2. /\ Answer(code, http, entries) \in
           [code : MetadataCode, http : {0, 200} \cup 400..599, map : Map]
      /\ Answer(code, http, entries).http = http
  BY DEF Answer
<1> QED BY <1>1, <1>2 DEF AnswerType, Respond

LEMMA RaiseType ==
  ASSUME AnswerType, NEW r \in Requests, NEW exc \in Exceptions, Raise(r, exc)
  PROVE  AnswerType'
  BY ExceptionType, RespondType, NoEntriesType DEF Raise, ErrorCode

LEMMA SucceedType ==
  ASSUME AnswerType, NEW r \in Requests, NEW entries \in Map, Succeed(r, entries)
  PROVE  AnswerType'
  BY RespondType DEF Succeed, MetadataCode

LEMMA CallFailedRaises ==
  ASSUME NEW r \in Requests, CallFailed(r)
  PROVE  \E exc \in Exceptions : Raise(r, exc)
  BY DEF CallFailed, Exceptions, SdkErrors

LEMMA WriteType ==
  ASSUME ClusterType, NEW f \in Fields, NEW entries \in Map, NEW keys \in SUBSET Key,
         NEW writer, Write(f, entries, keys, writer)
  PROVE  ClusterType'
  BY DEF Write, ClusterType

LEMMA ApplyType ==
  ASSUME TypeOK, NEW r \in Requests, Apply(r)
  PROVE  ClusterType' /\ applied' \in [Requests -> BOOLEAN]
<1>1. Field(r) \in Fields /\ Named(r) \subseteq Key /\ NewEntries(r) \in Map
  BY BodyType, NewEntriesMeet
<1>2. ClusterType
  BY DEF TypeOK, ClusterType
<1>3. (IF Field(r) = "taints" /\ behind[r] THEN Key ELSE Named(r)) \in SUBSET Key
  BY <1>1
<1>4. ClusterType'
  BY <1>1, <1>2, <1>3, WriteType DEF Apply
<1> QED BY <1>4 DEF Apply, TypeOK

\* Only taints are read first.
ReadsTaints == \A r \in Requests : pc[r] = "read" => Field(r) = "taints"

LEMMA StepType ==
  ASSUME TypeOK, ReadsTaints, NEW r \in Requests, Step(r) PROVE TypeOK' /\ ReadsTaints'
<1>1. AnswerType /\ ClusterType
  BY DEF TypeOK, AnswerType, ClusterType
<1>2. ASSUME NEW exc \in Exceptions, Raise(r, exc) PROVE AnswerType' /\ pc'[r] # "read"
  <2>1. AnswerType'
    BY <1>1, <1>2, RaiseType
  <2>2. pc' = [pc EXCEPT ![r] = "done"]
    BY <1>2 DEF Raise, Respond
  <2> QED BY <1>1, <2>1, <2>2 DEF AnswerType
<1>3. ASSUME CallFailed(r) PROVE AnswerType' /\ pc'[r] # "read"
  BY <1>2, <1>3, CallFailedRaises
<1>4. ASSUME NEW entries \in Map, Succeed(r, entries) PROVE AnswerType' /\ pc'[r] # "read"
  <2>1. AnswerType'
    BY <1>1, <1>4, SucceedType
  <2>2. pc' = [pc EXCEPT ![r] = "done"]
    BY <1>4 DEF Succeed, Respond
  <2> QED BY <1>1, <2>1, <2>2 DEF AnswerType
<1>5. ASSUME pc[r] # "done", NEW l \in {"patch", "reread"}, Goto(r, l)
      PROVE  AnswerType' /\ pc'[r] # "read"
  BY <1>1, <1>5, GotoType DEF Goto, AnswerType
<1>6. /\ request' = request
      /\ \A q \in Requests \ {r} : pc'[q] = pc[q]
  <2>1. ASSUME NEW q \in Requests \ {r},
               (\E l : Goto(r, l)) \/ (\E a : Respond(r, a))
        PROVE  pc'[q] = pc[q]
    BY <1>1, <2>1 DEF Goto, Respond, AnswerType
  <2>2. (\E l : Goto(r, l)) \/ (\E a : Respond(r, a))
    BY DEF Step, Admit, Read, Patch, Reread, CallFailed, Succeed, Raise
  <2> QED BY <2>1, <2>2 DEF Step, Admit, Read, Patch, Reread
<1>7. CASE Admit(r)
  <2>1. AnswerType' /\ (pc'[r] = "read" => Field(r) = "taints")
    <3>1. CASE \E exc \in PolicyErrors \cup ResolveErrors : Raise(r, exc)
      BY <1>2, <3>1 DEF Exceptions
    <3>2. CASE Field(r) = "taints" /\ Goto(r, "read")
      BY <1>1, <1>7, <3>2, GotoType DEF Admit
    <3>3. CASE Goto(r, "patch")
      BY <1>5, <1>7, <3>3 DEF Admit
    <3>4. CASE Succeed(r, NoEntries)
      BY <1>4, <3>4, NoEntriesType
    <3> QED BY <1>7, <3>1, <3>2, <3>3, <3>4 DEF Admit
  <2>2. UNCHANGED <<cluster, current, history>>
    BY <1>7 DEF Admit
  <2> QED BY <1>6, <2>1, <2>2 DEF TypeOK, AnswerType, ReadsTaints, Field, cluster, history
<1>8. CASE Read(r)
  <2>1. map["taints"] \in Map
    BY <1>8, BodyType DEF Read, ReadsTaints, TypeOK
  <2>2. AnswerType' /\ pc'[r] # "read"
    BY <1>3, <1>4, <1>5, <1>8, <2>1 DEF Read
  <2>3. current' \in [Requests -> Map] /\ behind' \in [Requests -> BOOLEAN]
    <3>1. current \in [Requests -> Map] /\ behind \in [Requests -> BOOLEAN]
      BY DEF TypeOK
    <3>2. behind' = behind \/ behind' = [behind EXCEPT ![r] = FALSE]
      BY <1>8 DEF Read
    <3>3. current' = current \/ current' = [current EXCEPT ![r] = map["taints"]]
      BY <1>8 DEF Read
    <3>4. current' \in [Requests -> Map]
      BY <2>1, <3>1, <3>3
    <3> QED BY <3>1, <3>2, <3>4
  <2>4. UNCHANGED <<present, map, applied, disturbed>>
    BY <1>8 DEF Read, cluster
  <2> QED BY <1>6, <2>2, <2>3, <2>4 DEF TypeOK, AnswerType, ReadsTaints, Field
<1>9. CASE Patch(r)
  <2>1. AnswerType' /\ pc'[r] # "read"
    <3>1. ASSUME NEW e \in SdkErrors(ErrorStatus), Raise(r, Translate(e))
          PROVE  AnswerType' /\ pc'[r] # "read"
      BY <1>2, <3>1 DEF Exceptions
    <3> QED BY <1>3, <1>5, <1>9, <3>1 DEF Patch
  <2>2. ClusterType' /\ applied' \in [Requests -> BOOLEAN]
    <3>1. CASE Apply(r)
      BY <3>1, ApplyType
    <3>2. CASE UNCHANGED <<map, history>>
      BY <1>1, <3>2 DEF ClusterType, TypeOK, history
    <3> QED BY <1>9, <3>1, <3>2 DEF Patch
  <2>3. UNCHANGED <<present, current>>
    BY <1>9 DEF Patch
  <2> QED
    BY <1>6, <2>1, <2>2, <2>3 DEF TypeOK, AnswerType, ClusterType, ReadsTaints, Field
<1>10. CASE Reread(r)
  <2>1. AnswerType' /\ pc'[r] # "read"
    BY <1>3, <1>4, <1>10, BodyType DEF Reread, Reported, TypeOK
  <2>2. UNCHANGED <<cluster, current, history>>
    BY <1>10 DEF Reread
  <2> QED BY <1>6, <2>1, <2>2 DEF TypeOK, AnswerType, ReadsTaints, Field, cluster, history
<1> QED BY <1>7, <1>8, <1>9, <1>10 DEF Step

LEMMA EnvironmentType ==
  ASSUME TypeOK, ReadsTaints, Environment PROVE TypeOK' /\ ReadsTaints'
<1>1. UNCHANGED ours /\ present' \in BOOLEAN
  BY DEF Environment, Edit, Deregister, Register, TypeOK
<1>2. ClusterType'
  <2>1. ASSUME NEW f \in Fields, NEW k \in Key, Edit(f, k) PROVE ClusterType'
    <3> PICK v \in Value \cup {None} : Write(f, [map[f] EXCEPT ![k] = v], {k}, "others")
      BY <2>1 DEF Edit
    <3>1. [map[f] EXCEPT ![k] = v] \in Map /\ {k} \in SUBSET Key /\ ClusterType
      BY DEF TypeOK, Map, ClusterType
    <3> QED BY <3>1, WriteType
  <2>2. CASE Register
    BY <2>2 DEF Register, ClusterType
  <2>3. CASE Deregister
    BY <2>3 DEF Deregister, TypeOK, ClusterType
  <2> QED BY <2>1, <2>2, <2>3 DEF Environment
<1> QED BY <1>1, <1>2 DEF TypeOK, ClusterType, ReadsTaints, ours, Field

\* The node, the requests and the answers keep their types, and a request has
\* an HTTP status exactly when it is done.
THEOREM TypeCorrect == Spec => []TypeOK
<1>1. Init => TypeOK /\ ReadsTaints
  BY NoEntriesType DEF Init, TypeOK, ReadsTaints, Answer, MetadataCode
<1>2. TypeOK /\ ReadsTaints /\ [Next]_vars => (TypeOK /\ ReadsTaints)'
  <2>1. TypeOK /\ ReadsTaints /\ UNCHANGED vars => (TypeOK /\ ReadsTaints)'
    BY DEF TypeOK, ReadsTaints, vars, Field
  <2> QED BY <2>1, StepType, EnvironmentType DEF Next
<1> QED BY <1>1, <1>2, PTL DEF Spec

-----------------------------------------------------------------------------
(* The inductive invariant, one request at a time: what r read is still so *)
(* unless it is behind, and what it wrote and answered is still so but for *)
(* the entries that others edited.                                         *)

Snapshot(r) ==
  pc[r] = "patch" /\ Field(r) = "taints" /\ ~behind[r] => current[r] = map["taints"]

Kept(r) ==
  applied[r] => \A k \in Named(r) \ disturbed[r] : map[Field(r)][k] = Wanted(r, k)

AnswerOK(r) ==
  answer[r].code = "OK" /\ (Field(r) = "taints" \/ Named(r) # {}) => Holds(r)

RequestInv(r) ==
  /\ Snapshot(r) /\ Kept(r) /\ AnswerOK(r)
  /\ pc[r] = "reread" => applied[r]
  /\ applied[r] => pc[r] \in {"reread", "done"}
  /\ pc[r] # "done" => answer[r].code = "PENDING"

IInv == TypeOK /\ ReadsTaints /\ \A r \in Requests : RequestInv(r)

\* What anyone else's step does to request r.
Untouched(r) ==
  UNCHANGED <<pc[r], answer[r], request[r], current[r], applied[r]>>

Spared(r) ==
  /\ \A k \in Key \ disturbed'[r] :
       k \notin disturbed[r] /\ map'[Field(r)][k] = map[Field(r)][k]
  /\ ~behind'[r] => ~behind[r] /\ map'[Field(r)] = map[Field(r)]

\* Request r survives any step that spares it.
LEMMA SparedOK ==
  ASSUME TypeOK, NEW r \in Requests, RequestInv(r), Untouched(r), Spared(r)
  PROVE  RequestInv(r)'
<1>1. Field(r)' = Field(r) /\ Body(r)' = Body(r) /\ Named(r)' = Named(r) /\ Named(r) \subseteq Key
  BY BodyType DEF Untouched, Field, Body, Named
<1>2. \A k : Wanted(r, k)' = Wanted(r, k)
  BY <1>1 DEF Wanted
<1>3. Snapshot(r)'
  BY <1>1 DEF RequestInv, Snapshot, Untouched, Spared
<1>4. Kept(r)'
  BY <1>1, <1>2 DEF RequestInv, Kept, Untouched, Spared
<1>5. AnswerOK(r)'
  <2> SUFFICES ASSUME answer[r].code = "OK", Field(r) = "taints" \/ Named(r) # {},
                      NEW k \in Key \ disturbed'[r]
               PROVE  /\ answer[r].map[k] = map'[Field(r)][k]
                      /\ k \in Named(r) => answer[r].map[k] = Wanted(r, k)
    BY <1>1, <1>2 DEF AnswerOK, Holds, Untouched
  <2>1. k \in Key \ disturbed[r] /\ map'[Field(r)][k] = map[Field(r)][k]
    BY DEF Spared
  <2> QED BY <2>1 DEF RequestInv, AnswerOK, Holds
<1> QED BY <1>3, <1>4, <1>5 DEF RequestInv, Untouched

\* A write spares a request of another writer, if it leaves alone what it does
\* not name.
LEMMA WriteSpares ==
  ASSUME TypeOK, NEW r \in Requests, NEW writer, writer # r,
         NEW f \in Fields, NEW entries, NEW keys, Write(f, entries, keys, writer),
         \A k \in Key \ keys : entries[k] = map[f][k]
  PROVE  Spared(r)
<1>1. Field(r) \in Fields /\ map' = [map EXCEPT ![f] = entries] /\ map \in [Fields -> Map]
  BY BodyType DEF Write, TypeOK
<1>2. CASE Field(r) = f
  BY <1>1, <1>2 DEF Write, Spared
<1>3. CASE Field(r) # f
  BY <1>1, <1>3 DEF Write, Spared
<1> QED BY <1>2, <1>3

LEMMA ApplySpares ==
  ASSUME IInv, NEW q \in Requests, pc[q] = "patch", Apply(q), NEW r \in Requests \ {q}
  PROVE  Spared(r)
<1> DEFINE keys == IF Field(q) = "taints" /\ behind[q] THEN Key ELSE Named(q)
<1>1. Write(Field(q), NewEntries(q), keys, q) /\ Field(q) \in Fields
  BY BodyType DEF Apply, IInv
<1>2. \A k \in Key \ keys : NewEntries(q)[k] = map[Field(q)][k]
  <2> SUFFICES ASSUME NEW k \in Key \ keys PROVE NewEntries(q)[k] = map[Field(q)][k]
    OBVIOUS
  <2>1. k \notin Named(q) /\ (Field(q) = "taints" => ~behind[q])
    BY DEF keys
  <2>2. Field(q) = "taints" => current[q] = map[Field(q)]
    BY <2>1 DEF IInv, RequestInv, Snapshot
  <2> QED BY <2>1, <2>2, NewEntriesMeet DEF IInv
<1> HIDE DEF keys
<1> QED BY <1>1, <1>2, WriteSpares DEF IInv

-----------------------------------------------------------------------------
(* The steps of r itself.                                                  *)

LEMMA RaiseAnswer ==
  ASSUME TypeOK, NEW r \in Requests,
         (\E exc \in Exceptions : Raise(r, exc)) \/ CallFailed(r)
  PROVE  pc'[r] = "done" /\ answer'[r].code # "OK"
<1>1. PICK exc \in Exceptions : Raise(r, exc)
  BY CallFailedRaises
<1>2. exc.code # "OK"
  BY ExceptionType DEF ErrorCode
<1> QED BY <1>1, <1>2 DEF Raise, Respond, Answer, TypeOK

LEMMA GotoAnswer ==
  ASSUME TypeOK, NEW r \in Requests, NEW l, Goto(r, l), pc[r] # "done"
  PROVE  pc'[r] = l /\ answer'[r] = answer[r]
  BY DEF Goto, TypeOK

LEMMA SucceedAnswer ==
  ASSUME TypeOK, NEW r \in Requests, NEW entries, Succeed(r, entries)
  PROVE  pc'[r] = "done" /\ answer'[r].map = entries
  BY DEF Succeed, Respond, Answer, TypeOK

LEMMA SameRequest ==
  ASSUME NEW r \in Requests, UNCHANGED request
  PROVE  /\ Field(r)' = Field(r) /\ Named(r)' = Named(r)
         /\ \A k : Wanted(r, k)' = Wanted(r, k)
  BY DEF Field, Body, Named, Wanted

LEMMA AdmitOK ==
  ASSUME IInv, NEW r \in Requests, Admit(r) PROVE RequestInv(r)'
<1>1. /\ UNCHANGED <<map, current, applied, behind, disturbed, request>>
      /\ ~applied[r] /\ answer[r].code = "PENDING" /\ pc[r] = "admit" /\ TypeOK
  BY DEF Admit, IInv, RequestInv, cluster, history
<1>2. Field(r)' = Field(r) /\ Named(r)' = Named(r)
  BY <1>1, SameRequest
<1>3. CASE \E exc \in PolicyErrors \cup ResolveErrors : Raise(r, exc)
  <2>1. pc'[r] = "done" /\ answer'[r].code # "OK"
    BY <1>1, <1>3, RaiseAnswer DEF Exceptions
  <2> QED BY <1>1, <2>1 DEF RequestInv, Snapshot, Kept, AnswerOK
<1>4. CASE Field(r) = "taints" /\ Goto(r, "read")
  <2>1. pc'[r] = "read" /\ answer'[r] = answer[r]
    BY <1>1, <1>4, GotoAnswer
  <2> QED BY <1>1, <2>1 DEF RequestInv, Snapshot, Kept, AnswerOK
<1>5. CASE Field(r) # "taints" /\ Goto(r, "patch")
  <2>1. pc'[r] = "patch" /\ answer'[r] = answer[r]
    BY <1>1, <1>5, GotoAnswer
  <2> QED BY <1>1, <1>2, <1>5, <2>1 DEF RequestInv, Snapshot, Kept, AnswerOK
<1>6. CASE Field(r) # "taints" /\ Named(r) = {} /\ Succeed(r, NoEntries)
  <2>1. pc'[r] = "done"
    BY <1>1, <1>6, SucceedAnswer
  <2> QED BY <1>1, <1>2, <1>6, <2>1 DEF RequestInv, Snapshot, Kept, AnswerOK
<1> QED BY <1>3, <1>4, <1>5, <1>6 DEF Admit

LEMMA ReadOK ==
  ASSUME IInv, NEW r \in Requests, Read(r) PROVE RequestInv(r)'
<1>1. /\ UNCHANGED <<map, applied, disturbed, request>>
      /\ ~applied[r] /\ answer[r].code = "PENDING" /\ pc[r] = "read" /\ TypeOK
      /\ Field(r) = "taints"
  BY DEF Read, IInv, RequestInv, ReadsTaints, cluster
<1>2. Field(r)' = Field(r) /\ Named(r)' = Named(r)
  BY <1>1, SameRequest
<1>3. CASE CallFailed(r)
  <2>1. pc'[r] = "done" /\ answer'[r].code # "OK"
    BY <1>1, <1>3, RaiseAnswer
  <2> QED BY <1>1, <2>1 DEF RequestInv, Snapshot, Kept, AnswerOK
<1>4. CASE current' = [current EXCEPT ![r] = map["taints"]]
           /\ Named(r) = {} /\ Succeed(r, map["taints"])
  <2>1. pc'[r] = "done" /\ answer'[r].map = map["taints"]
    BY <1>1, <1>4, SucceedAnswer
  <2>2. Holds(r)'
    BY <1>1, <1>2, <1>4, <2>1 DEF Holds
  <2> QED BY <1>1, <2>1, <2>2 DEF RequestInv, Snapshot, Kept, AnswerOK
<1>5. CASE current' = [current EXCEPT ![r] = map["taints"]] /\ Goto(r, "patch")
  <2>1. pc'[r] = "patch" /\ answer'[r] = answer[r] /\ current'[r] = map["taints"]
    BY <1>1, <1>5, GotoAnswer DEF TypeOK
  <2> QED BY <1>1, <2>1 DEF RequestInv, Snapshot, Kept, AnswerOK
<1> QED BY <1>3, <1>4, <1>5 DEF Read

\* The patch of r leaves what it names as it was asked for.
LEMMA ApplyKeeps ==
  ASSUME TypeOK, NEW r \in Requests, Apply(r), UNCHANGED request
  PROVE  Kept(r)' /\ applied'[r]
<1>1. Field(r) \in Fields /\ Named(r) \subseteq Key
      /\ \A k \in Named(r) : NewEntries(r)[k] = Wanted(r, k)
  BY BodyType, NewEntriesMeet
<1>2. map'[Field(r)] = NewEntries(r) /\ applied'[r]
  BY <1>1 DEF Apply, Write, TypeOK
<1>3. /\ Field(r)' = Field(r) /\ Named(r)' = Named(r)
      /\ \A k : Wanted(r, k)' = Wanted(r, k)
  BY SameRequest
<1> QED BY <1>1, <1>2, <1>3 DEF Kept

LEMMA PatchOK ==
  ASSUME IInv, NEW r \in Requests, Patch(r) PROVE RequestInv(r)'
<1>1. UNCHANGED request /\ answer[r].code = "PENDING" /\ pc[r] = "patch" /\ TypeOK /\ ~applied[r]
  BY DEF Patch, IInv, RequestInv
<1>2. /\ Field(r)' = Field(r) /\ Named(r)' = Named(r)
      /\ \A k : Wanted(r, k)' = Wanted(r, k)
  BY <1>1, SameRequest
<1>3. CASE Apply(r) /\ Goto(r, "reread")
  <2>1. pc'[r] = "reread" /\ answer'[r] = answer[r]
    BY <1>1, <1>3, GotoAnswer
  <2>2. Kept(r)' /\ applied'[r]
    BY <1>1, <1>3, ApplyKeeps
  <2> QED BY <1>1, <2>1, <2>2 DEF RequestInv, Snapshot, AnswerOK
<1>4. CASE CallFailed(r) /\ UNCHANGED <<map, history>>
  <2>1. pc'[r] = "done" /\ answer'[r].code # "OK"
    BY <1>1, <1>4, RaiseAnswer
  <2> QED BY <1>1, <1>4, <2>1 DEF RequestInv, Snapshot, Kept, AnswerOK, history
<1>5. CASE \E e \in SdkErrors(ErrorStatus) : Apply(r) /\ Raise(r, Translate(e))
  <2>1. pc'[r] = "done" /\ answer'[r].code # "OK"
    BY <1>1, <1>5, RaiseAnswer DEF Exceptions
  <2>2. Kept(r)' /\ applied'[r]
    BY <1>1, <1>5, ApplyKeeps
  <2> QED BY <2>1, <2>2 DEF RequestInv, Snapshot, AnswerOK
<1> QED BY <1>3, <1>4, <1>5 DEF Patch

LEMMA RereadOK ==
  ASSUME IInv, NEW r \in Requests, Reread(r) PROVE RequestInv(r)'
<1>1. /\ UNCHANGED <<map, current, applied, behind, disturbed, request>>
      /\ applied[r] /\ Kept(r) /\ TypeOK
  BY DEF Reread, IInv, RequestInv, cluster, history
<1>2. /\ Field(r)' = Field(r) /\ Named(r)' = Named(r)
      /\ \A k : Wanted(r, k)' = Wanted(r, k)
  BY <1>1, SameRequest
<1>3. CASE CallFailed(r)
  <2>1. pc'[r] = "done" /\ answer'[r].code # "OK"
    BY <1>1, <1>3, RaiseAnswer
  <2> QED BY <1>1, <1>2, <2>1 DEF RequestInv, Snapshot, Kept, AnswerOK
<1>4. CASE Succeed(r, Reported(r))
  <2>1. pc'[r] = "done" /\ answer'[r].map = map[Field(r)]
    BY <1>1, <1>4, SucceedAnswer DEF Reported
  <2>2. Holds(r)' /\ Kept(r)'
    BY <1>1, <1>2, <2>1 DEF Holds, Kept
  <2> QED BY <1>1, <2>1, <2>2 DEF RequestInv, Snapshot, AnswerOK
<1> QED BY <1>3, <1>4 DEF Reread

-----------------------------------------------------------------------------
(* The theorems.                                                           *)

LEMMA OthersOK ==
  ASSUME IInv, NEW q \in Requests, Step(q), NEW r \in Requests \ {q} PROVE RequestInv(r)'
<1>1. TypeOK /\ RequestInv(r)
  BY DEF IInv
<1>2. Untouched(r)
  <2>1. ASSUME (\E l : Goto(q, l)) \/ (\E a : Respond(q, a))
        PROVE  pc'[r] = pc[r] /\ answer'[r] = answer[r]
    BY <1>1, <2>1 DEF Goto, Respond, TypeOK
  <2>2. (\E l : Goto(q, l)) \/ (\E a : Respond(q, a))
    BY DEF Step, Admit, Read, Patch, Reread, CallFailed, Succeed, Raise
  <2>3. UNCHANGED <<request, current[r], applied[r]>>
    <3>1. CASE Admit(q) \/ Reread(q)
      BY <3>1 DEF Admit, Reread, history
    <3>2. CASE Read(q)
      BY <1>1, <3>2 DEF Read, TypeOK
    <3>3. CASE Patch(q)
      BY <1>1, <3>3 DEF Patch, Apply, TypeOK, history
    <3> QED BY <3>1, <3>2, <3>3 DEF Step
  <2> QED BY <2>1, <2>2, <2>3 DEF Untouched
<1>3. Spared(r)
  <2>1. ASSUME UNCHANGED <<map, disturbed>>, behind'[r] = behind[r] PROVE Spared(r)
    BY <2>1 DEF Spared
  <2>2. CASE Admit(q) \/ Reread(q)
    BY <2>1, <2>2 DEF Admit, Reread, cluster, history
  <2>3. CASE Read(q)
    BY <1>1, <2>1, <2>3 DEF Read, TypeOK, cluster
  <2>4. CASE Patch(q)
    <3>1. CASE Apply(q)
      BY <2>4, <3>1, ApplySpares DEF Patch
    <3>2. CASE UNCHANGED <<map, history>>
      BY <2>1, <3>2 DEF history
    <3> QED BY <2>4, <3>1, <3>2 DEF Patch
  <2> QED BY <2>2, <2>3, <2>4 DEF Step
<1> QED BY <1>1, <1>2, <1>3, SparedOK

LEMMA EnvironmentOK ==
  ASSUME IInv, Environment, NEW r \in Requests PROVE RequestInv(r)'
<1>1. TypeOK /\ RequestInv(r) /\ Untouched(r)
  BY DEF IInv, Untouched, Environment, Edit, Deregister, Register, ours
<1>2. Spared(r)
  <2>1. ASSUME NEW f \in Fields, NEW k \in Key, Edit(f, k) PROVE Spared(r)
    <3>1. PICK v \in Value \cup {None} : Write(f, [map[f] EXCEPT ![k] = v], {k}, "others")
      BY <2>1 DEF Edit
    <3> DEFINE entries == [map[f] EXCEPT ![k] = v]
               keys == {k}
    <3>2. Write(f, entries, keys, "others")
      BY <3>1
    <3>3. \A j \in Key \ keys : entries[j] = map[f][j]
      BY <1>1 DEF TypeOK, Map
    <3>4. "others" # r
      BY RequestsAssumption
    <3> HIDE DEF entries, keys
    <3> QED BY <1>1, <3>2, <3>3, <3>4, WriteSpares
  <2>2. CASE Deregister
    BY <2>2 DEF Deregister, Spared
  <2>3. CASE Register
    BY <2>3 DEF Register, Spared
  <2> QED BY <2>1, <2>2, <2>3 DEF Environment
<1> QED BY <1>1, <1>2, SparedOK

\* The invariant that relates what a request read, wrote and answered to what
\* is on the node is preserved by every step.
THEOREM Inductive == IInv /\ [Next]_vars => IInv'
<1> SUFFICES ASSUME IInv, [Next]_vars PROVE IInv'
  OBVIOUS
<1>1. CASE UNCHANGED vars
  BY <1>1
  DEF vars, IInv, TypeOK, ReadsTaints, RequestInv, Snapshot, Kept, AnswerOK, Holds, Wanted, Named,
      Body, Field
<1>2. CASE Environment
  BY <1>2, EnvironmentType, EnvironmentOK DEF IInv
<1>3. ASSUME NEW q \in Requests, Step(q) PROVE IInv'
  <2>1. TypeOK' /\ ReadsTaints'
    BY <1>3, StepType DEF IInv
  <2>2. RequestInv(q)'
    BY <1>3, AdmitOK, ReadOK, PatchOK, RereadOK DEF Step
  <2> QED BY <1>3, <2>1, <2>2, OthersOK DEF IInv
<1> QED BY <1>1, <1>2, <1>3 DEF Next

LEMMA Invariant == Spec => []IInv
<1>1. Init => IInv
  BY NoEntriesType
  DEF Init, IInv, TypeOK, ReadsTaints, RequestInv, Snapshot, Kept, AnswerOK, Answer, MetadataCode
<1> QED BY <1>1, Inductive, PTL DEF Spec

\* A label or annotation that was set or removed stays so until someone edits
\* it; a taint, until someone edits it or writes taints over it unread.
THEOREM NoUpdateLost == Spec => []UpdatesKept
<1>1. IInv => UpdatesKept
  BY DEF IInv, RequestInv, Kept, UpdatesKept
<1> QED BY <1>1, Invariant, PTL

\* An answer that a patch or a read of taints led to is what was asked for, and
\* what is on the node.
THEOREM AnswersTrue == Spec => []AnswerHolds
<1>1. IInv => AnswerHolds
  BY DEF IInv, RequestInv, AnswerOK, AnswerHolds
<1> QED BY <1>1, Invariant, PTL

\* A request changes no entry it does not name, unless it writes taints over a
\* change that it has not read.
THEOREM ForeignEntriesKept == Spec => OthersKept
<1> DEFINE Keeps(r) ==
      applied'[r] /\ ~applied[r] /\ ~(Field(r) = "taints" /\ behind[r]) =>
        /\ \A k \in Key \ Named(r) : map'[Field(r)][k] = map[Field(r)][k]
        /\ \A f \in Fields \ {Field(r)} : map'[f] = map[f]
<1>1. IInv /\ [Next]_vars => [\A r \in Requests : Keeps(r)]_vars
  <2> SUFFICES ASSUME IInv, Next, NEW r \in Requests, applied'[r], ~applied[r],
                      ~(Field(r) = "taints" /\ behind[r])
               PROVE  /\ \A k \in Key \ Named(r) : map'[Field(r)][k] = map[Field(r)][k]
                      /\ \A f \in Fields \ {Field(r)} : map'[f] = map[f]
    BY Zenon
  <2>1. PICK q \in Requests : Patch(q) /\ Apply(q)
    BY DEF Next, Step, Admit, Read, Patch, Reread, history, Environment, Edit, Deregister,
           Register, ours
  <2>2. q = r
    BY <2>1 DEF Apply, IInv, TypeOK
  <2>3. /\ TypeOK /\ Field(r) \in Fields
        /\ map' = [map EXCEPT ![Field(r)] = NewEntries(r)]
    BY <2>1, <2>2, BodyType DEF Apply, Write, IInv
  <2>4. Field(r) = "taints" => current[r] = map[Field(r)]
    BY <2>1, <2>2 DEF Patch, IInv, RequestInv, Snapshot
  <2>5. \A k \in Key \ Named(r) : NewEntries(r)[k] = map[Field(r)][k]
    BY <2>3, <2>4, NewEntriesMeet
  <2> QED BY <2>3, <2>5 DEF TypeOK
<1> QED BY <1>1, Invariant, PTL DEF Spec, OthersKept

=============================================================================
