--------------------------- MODULE NodeBatchProofs ---------------------------
(***************************************************************************)
(* Safety of NodeBatch for any nodes, any node lists and any error         *)
(* statuses.                                                               *)
(***************************************************************************)
EXTENDS NodeBatch, TLAPS

ErrorCode == BatchCode \ {"PENDING", "OK", "POLICY_DENIED"}

-----------------------------------------------------------------------------
(* Lemmas on what a failure becomes.                                       *)

Exceptions ==
  {Translate(e) : e \in SdkErrors(ErrorStatus)} \cup ResolveErrors \cup {NodeNotFound, NodeNotReady}

LEMMA ExceptionType ==
  ASSUME NEW exc \in Exceptions
  PROVE  /\ exc.code \in ErrorCode /\ exc.http \in 400..599 /\ exc.kubeStatus \in 0..599
  BY StatusAssumption
  DEF Exceptions, SdkErrors, ApiError, NetworkError, Translate, KubeApiException, ConnectionError,
      ResolveErrors, NodeNotFound, NodeNotReady, AppException, BatchCode, ErrorCode, NoStatus

LEMMA BodyType ==
  ASSUME TypeOK
  PROVE  /\ request.body \in Seq(Nodes) /\ Len(request.body) \in Nat
         /\ request.action \in {"cordon", "uncordon"} /\ request.many \in BOOLEAN
         /\ ~request.many => Len(request.body) = 1
         /\ \A i \in 1 .. Len(request.body) : request.body[i] \in Nodes
         /\ Names \subseteq Nodes
<1>1. request.body \in Seq(Nodes) /\ Len(request.body) \in Nat
  BY BodiesAssumption DEF TypeOK, Request
<1> QED BY <1>1 DEF TypeOK, Request, Names, ToSet
-----------------------------------------------------------------------------
(* The three ways a step of the loop moves the request on, and the two ways *)
(* it leaves the cluster.                                                  *)

ResultCode == BatchCode \cup {"NONE"}

\* Past a repeated name, past a node with a result, or out of the loop.
Passed == ~FirstSeen(at) /\ at' = at + 1 /\ UNCHANGED <<pc, answer, results>>
Recorded(code) ==
  /\ FirstSeen(at)
  /\ \E status \in 0..599 : Record(code, status)
Left(code) ==
  /\ FirstSeen(at)
  /\ \E http \in {200} \cup 400..599 : Leave(Answer(code, http))

Untouched == UNCHANGED <<unschedulable, history>>

LEMMA FailShape ==
  ASSUME TypeOK, Turn, NEW exc \in Exceptions, Fail(exc)
  PROVE  \E code \in ErrorCode : (Recorded(code) /\ request.many) \/ Left(code)
<1>1. exc.code \in ErrorCode /\ exc.http \in 0..599 /\ exc.http \in 400..599
      /\ exc.kubeStatus \in 0..599
  BY ExceptionType
<1>2. \/ request.many /\ \E status \in 0..599 : Record(exc.code, status)
      \/ Leave(Answer(exc.code, exc.http))
  BY <1>1 DEF Fail
<1>3. FirstSeen(at)
  BY DEF Turn
<1>4. CASE request.many /\ \E status \in 0..599 : Record(exc.code, status)
  BY <1>1, <1>3, <1>4 DEF Recorded
<1>5. CASE Leave(Answer(exc.code, exc.http))
  BY <1>1, <1>3, <1>5 DEF Left
<1> QED BY <1>2, <1>4, <1>5

LEMMA SucceedShape ==
  ASSUME Turn, Succeed
  PROVE  (Recorded("NONE") /\ request.many) \/ (Left("OK") /\ ~request.many)
  BY DEF Succeed, Recorded, Left, Turn, NoStatus

LEMMA LoopShape ==
  ASSUME TypeOK, Loop
  PROVE  /\ pc = "loop" /\ at \in 1 .. Len(request.body)
         /\ UNCHANGED <<health, request, denied, statuses>>
         /\ Untouched \/ (~Refused(Node) /\ ~Gated /\ Apply)
         /\ \/ Passed
            \/ Refused(Node) /\ Recorded("POLICY_DENIED")
            \/ \E code \in ErrorCode \cup {"NONE"} :
                 ~Refused(Node) /\ Recorded(code) /\ request.many
            \/ \E code \in ErrorCode : Left(code)
            \/ Left("OK") /\ ~request.many
<1>1. pc = "loop" /\ at \in 1 .. Len(request.body) /\ UNCHANGED <<health, request, denied, statuses>>
  BY BodyType DEF TypeOK, Loop, Repeated, Deny, GateOut, Patch, Turn
<1>2. CASE Repeated
  BY <1>1, <1>2 DEF Repeated, Passed, Untouched
<1>3. CASE Deny
  BY <1>1, <1>3 DEF Deny, Turn, Recorded, NoStatus, Untouched
<1>4. CASE GateOut
  BY <1>1, <1>4, FailShape DEF GateOut, Exceptions, Untouched
<1>5. CASE Patch
  <2>1. CASE PatchAccepted
    BY <1>1, <1>5, <2>1, SucceedShape DEF Patch, PatchAccepted
  <2>2. CASE PatchNotFound
    BY <1>1, <1>5, <2>2, FailShape DEF Patch, PatchNotFound, Exceptions, Untouched
  <2>3. CASE PatchFailed
    <3> PICK e \in SdkErrors(ErrorStatus \ {404}) :
               /\ Untouched \/ (health[Node] # "absent" /\ Apply)
               /\ Fail(Translate(e))
      BY <2>3 DEF PatchFailed, Untouched
    <3>1. Translate(e) \in Exceptions
      BY DEF Exceptions, SdkErrors
    <3> QED BY <1>1, <1>5, <3>1, FailShape DEF Patch
  <2> QED BY <1>5, <2>1, <2>2, <2>3 DEF Patch
<1> QED BY <1>1, <1>2, <1>3, <1>4, <1>5 DEF Loop

-----------------------------------------------------------------------------
(* Types.                                                                  *)

AnswerType == /\ answer \in [code : BatchCode, http : {0, 200} \cup 400..599]
              /\ pc = "done" <=> answer.http # 0

LEMMA RespondType ==
  ASSUME NEW code \in BatchCode, NEW http \in {200} \cup 400..599, Respond(Answer(code, http))
  PROVE  AnswerType' /\ pc' = "done"
  BY DEF Respond, Answer, AnswerType

LEMMA RaiseType ==
  ASSUME NEW exc \in Exceptions \cup PolicyErrors, Raise(exc)
  PROVE  AnswerType' /\ pc' = "done"
<1>1. CASE exc \in Exceptions
  BY <1>1, ExceptionType, RespondType DEF Raise, ErrorCode
<1>2. CASE exc \in PolicyErrors
  BY <1>2, RespondType
  DEF Raise, PolicyErrors, PolicyDenied, UsersFileInvalid, AppException, BatchCode
<1> QED BY <1>1, <1>2

LEMMA AdmitShape ==
  ASSUME TypeOK, Admit
  PROVE  /\ pc = "admit" /\ denied' \in SUBSET Names /\ AnswerType'
         /\ \/ pc' = "done"
            \/ pc' = "read" /\ request.action = "uncordon"
            \/ pc' = "loop" /\ (request.action = "uncordon" => Names \subseteq denied')
         /\ ~request.many /\ pc' # "done" => ~(Names \subseteq denied' /\ Names # {})
         /\ UNCHANGED <<cluster, request, statuses, at, results, history>>
<1>1. CASE denied' = {} /\ Raise(UsersFileInvalid)
  BY <1>1, RaiseType DEF Admit, PolicyErrors
<1>2. CASE \E refused \in SUBSET Names :
             /\ denied' = refused
             /\ IF Names \subseteq refused /\ Names # {}
                THEN IF request.many THEN Goto("loop") ELSE Raise(PolicyDenied)
                ELSE Resolve
  <2> PICK refused \in SUBSET Names :
             /\ denied' = refused
             /\ IF Names \subseteq refused /\ Names # {}
                THEN IF request.many THEN Goto("loop") ELSE Raise(PolicyDenied)
                ELSE Resolve
    BY <1>2
  <2>1. CASE Names \subseteq refused /\ Names # {}
    BY <2>1, RaiseType DEF Admit, Goto, TypeOK, AnswerType, PolicyErrors
  <2>2. CASE Resolve /\ ~(Names \subseteq refused /\ Names # {})
    <3>1. CASE \E exc \in ResolveErrors : Raise(exc)
      BY <2>2, <3>1, RaiseType DEF Admit, Exceptions
    <3>2. CASE ~\E exc \in ResolveErrors : Raise(exc)
      BY <2>2, <3>2, BodyType DEF Admit, Resolve, Goto, TypeOK, AnswerType
    <3> QED BY <3>1, <3>2
  <2> QED BY <2>1, <2>2
<1> QED BY <1>1, <1>2 DEF Admit

LEMMA AdmitAnswers ==
  ASSUME TypeOK, Admit, answer.code # "OK" PROVE answer'.code # "OK"
<1>1. UNCHANGED answer \/ \E exc \in PolicyErrors \cup ResolveErrors : Raise(exc)
  BY DEF Admit, Resolve, Goto, PolicyErrors
<1>2. \A exc \in PolicyErrors \cup ResolveErrors : exc.code # "OK"
  BY DEF PolicyErrors, PolicyDenied, UsersFileInvalid, ResolveErrors, AppException,
         KubeApiException
<1> QED BY <1>1, <1>2 DEF Raise, Respond, Answer

LEMMA ReadAnswers ==
  ASSUME TypeOK, Read, answer.code # "OK" PROVE answer'.code # "OK"
<1>1. UNCHANGED answer \/ \E exc \in Exceptions : Raise(exc)
  BY DEF Read, ReadDone, ReadFailed, Goto, Exceptions
<1> QED BY <1>1, ExceptionType DEF Raise, Respond, Answer, ErrorCode

LEMMA ReadShape ==
  ASSUME TypeOK, Read
  PROVE  /\ pc = "read" /\ AnswerType' /\ statuses' \in [Nodes -> Health]
         /\ \/ pc' = "done"
            \/ pc' = "loop" /\ (~request.many => statuses'[request.body[1]] = "Ready")
         /\ UNCHANGED <<cluster, request, denied, at, results, history>>
<1>1. CASE ReadDone
  <2>1. CASE request.many \/ health[request.body[1]] = "Ready"
    BY <1>1, <2>1 DEF Read, ReadDone, Goto, TypeOK, AnswerType
  <2>2. CASE ~(request.many \/ health[request.body[1]] = "Ready")
    <3>1. \E exc \in Exceptions : Raise(exc)
      BY <1>1, <2>2 DEF ReadDone, Exceptions
    <3> QED BY <1>1, <3>1, RaiseType DEF Read, ReadDone, TypeOK
  <2> QED BY <2>1, <2>2
<1>2. CASE ReadFailed
  <2> PICK e \in SdkErrors(ErrorStatus) : Raise(Translate(e))
    BY <1>2 DEF ReadFailed
  <2> QED BY <1>2, RaiseType DEF Read, ReadFailed, Exceptions, TypeOK
<1> QED BY <1>1, <1>2 DEF Read

LEMMA RecordType ==
  ASSUME TypeOK, at \in 1 .. Len(request.body), UNCHANGED request, NEW code \in ResultCode,
         Recorded(code)
  PROVE  /\ at' = at + 1 /\ at' \in 1 .. Len(request'.body) + 1
         /\ \E status \in 0..599 : results' = Append(results, Result(Node, code, status))
         /\ results' \in Seq([node : Nodes, kube_status : 0..599, error_code : ResultCode])
<1> PICK status \in 0..599 : Record(code, status)
  BY DEF Recorded
<1>1. at' = at + 1 /\ at' \in 1 .. Len(request'.body) + 1
  BY BodyType DEF Record
<1>2. Node \in Nodes
  BY BodyType DEF Node
<1>3. Result(Node, code, status) \in [node : Nodes, kube_status : 0..599, error_code : ResultCode]
  BY <1>2 DEF Result
<1>4. results' = Append(results, Result(Node, code, status))
  BY DEF Record
<1>5. results' \in Seq([node : Nodes, kube_status : 0..599, error_code : ResultCode])
  BY <1>3, <1>4 DEF TypeOK, ResultCode
<1> QED BY <1>1, <1>4, <1>5
LEMMA LoopType ==
  ASSUME TypeOK, Loop PROVE TypeOK'
<1>1. pc = "loop" /\ at \in 1 .. Len(request.body) /\ UNCHANGED <<health, request, denied, statuses>>
  BY LoopShape
<1>2. Node \in Nodes
  BY <1>1, BodyType DEF Node
<1>3. /\ unschedulable' \in [Nodes -> BOOLEAN]
      /\ patched' \in SUBSET Nodes /\ disturbed' \in SUBSET Nodes
  <2>1. Untouched \/ Apply
    BY LoopShape
  <2>2. Target \in BOOLEAN
    BY DEF Target
  <2> QED BY <1>2, <2>1, <2>2 DEF Untouched, Apply, TypeOK, history
<1>4. \/ Passed
      \/ \E code \in ResultCode : Recorded(code)
      \/ \E code \in BatchCode : Left(code)
  BY LoopShape DEF ResultCode, BatchCode, ErrorCode
<1>5. /\ at' \in 1 .. Len(request'.body) + 1
      /\ results' \in Seq([node : Nodes, kube_status : 0..599, error_code : ResultCode])
      /\ AnswerType' /\ pc' \in {"loop", "done"}
  <2>1. CASE Passed
    BY <1>1, <2>1, BodyType DEF Passed, TypeOK, AnswerType, ResultCode
  <2>2. CASE \E code \in ResultCode : Recorded(code)
    <3> PICK code \in ResultCode : Recorded(code)
      BY <2>2
    <3>1. UNCHANGED <<pc, answer>>
      BY DEF Recorded, Record
    <3>2. AnswerType'
      BY <3>1 DEF TypeOK, AnswerType
    <3>3. UNCHANGED request
      BY <1>1
    <3>4. /\ at' \in 1 .. Len(request'.body) + 1
          /\ results' \in Seq([node : Nodes, kube_status : 0..599, error_code : ResultCode])
      BY <1>1, <3>3, RecordType, ZenonT(30)
    <3> QED BY <1>1, <3>1, <3>2, <3>4
  <2>3. CASE \E code \in BatchCode : Left(code)
    <3> PICK code \in BatchCode, http \in {200} \cup 400..599 : Leave(Answer(code, http))
      BY <2>3 DEF Left
    <3>1. AnswerType' /\ pc' = "done"
      BY RespondType DEF Leave
    <3>2. at' = at /\ results' = results /\ request' = request
      BY <1>1 DEF Leave
    <3> QED BY <3>1, <3>2 DEF TypeOK, ResultCode
  <2> QED BY <1>4, <2>1, <2>2, <2>3
<1> QED BY <1>1, <1>3, <1>5 DEF TypeOK, AnswerType, ResultCode

LEMMA OtherStepsType ==
  ASSUME TypeOK, Admit \/ Read \/ Finish \/ Environment PROVE TypeOK'
<1>1. CASE Admit
  BY <1>1, AdmitShape, BodyType DEF TypeOK, AnswerType, cluster, history
<1>2. CASE Read
  BY <1>2, ReadShape DEF TypeOK, AnswerType, cluster, history
<1>3. CASE Finish
  <2>1. AnswerType' /\ pc' = "done"
    BY <1>3, RespondType DEF Finish, BatchCode
  <2> QED BY <1>3, <2>1 DEF Finish, TypeOK, AnswerType, cluster, history
<1>4. CASE Environment
  <2> PICK n \in Nodes : Register(n) \/ Deregister(n) \/ ChangeHealth(n) \/ SetUnschedulable(n)
    BY <1>4 DEF Environment
  <2>1. UNCHANGED unread /\ disturbed' \in SUBSET Nodes
    BY DEF Register, Deregister, ChangeHealth, SetUnschedulable, unread, TypeOK
  <2>2. health' \in [Nodes -> Health]
    BY DEF Register, Deregister, ChangeHealth, SetUnschedulable, TypeOK, Health
  <2>3. unschedulable' \in [Nodes -> BOOLEAN]
    <3>1. (~unschedulable[n]) \in BOOLEAN
      OBVIOUS
    <3>2. unschedulable \in [Nodes -> BOOLEAN]
      BY DEF TypeOK
    <3>3. \/ UNCHANGED unschedulable
          \/ \E u \in BOOLEAN : unschedulable' = [unschedulable EXCEPT ![n] = u]
      BY <3>1 DEF Register, Deregister, ChangeHealth, SetUnschedulable
    <3> QED BY <3>2, <3>3
  <2> QED BY <2>1, <2>2, <2>3 DEF unread, TypeOK
<1> QED BY <1>1, <1>2, <1>3, <1>4

\* TypeOK is an invariant; in particular a request that is done has an answer.
THEOREM TypeCorrect == Spec => []TypeOK
<1>1. Init => TypeOK
  <2> SUFFICES ASSUME Init PROVE TypeOK
    OBVIOUS
  <2>1. Len(request.body) \in Nat
    BY BodiesAssumption DEF Init, Request
  <2> QED BY <2>1 DEF Init, TypeOK, Answer, BatchCode, Health
<1>2. TypeOK /\ [Next]_vars => TypeOK'
  <2>1. TypeOK /\ UNCHANGED vars => TypeOK'
    BY DEF vars, TypeOK
  <2> QED BY <2>1, LoopType, OtherStepsType DEF Next, Step
<1> QED BY <1>1, <1>2, PTL DEF Spec

-----------------------------------------------------------------------------
(* The inductive invariant: what the loop has done by the time it reaches  *)
(* a position.                                                             *)

Seen(n) == \E k \in 1 .. at - 1 : request.body[k] = n

\* Exactly the names behind the loop have a result, and one each.
ResultsInv ==
  /\ \A i, j \in DOMAIN results : results[i].node = results[j].node => i = j
  /\ \A i \in DOMAIN results : Seen(results[i].node)
  /\ \A i \in DOMAIN results : results[i].error_code = "POLICY_DENIED" <=> results[i].node \in denied
  /\ request.many /\ pc = "loop" =>
       \A n \in Nodes : Seen(n) => \E i \in DOMAIN results : results[i].node = n
  /\ answer.code = "OK" /\ request.many => {results[i].node : i \in DOMAIN results} = Names

\* What a patch of n needs to have read.
Cleared(n) == IF request.many THEN ~NotReady(statuses[n]) ELSE statuses[n] = "Ready"

PatchInv ==
  /\ patched \cap denied = {}
  /\ request.action = "uncordon" => \A n \in patched : Cleared(n)
  /\ pc = "loop" /\ request.action = "uncordon" /\ ~request.many => Cleared(request.body[1])
  /\ pc = "loop" /\ ~request.many => ~(Names \subseteq denied)

BatchInv ==
  /\ pc \in {"admit", "read"} => patched = {} /\ results = <<>> /\ at = 1
  /\ pc # "done" => answer.code # "OK"
  /\ pc \in {"read"} /\ ~request.many => ~(Names \subseteq denied)
  /\ denied \subseteq Names
  /\ ResultsInv
  /\ PatchInv
\* One more position behind the loop.
LEMMA SeenNext ==
  ASSUME at \in Nat \ {0}, at' = at + 1, UNCHANGED request
  PROVE  /\ \A n : Seen(n)' <=> (Seen(n) \/ n = Node)
         /\ FirstSeen(at) <=> ~Seen(Node)
<1>1. \A k : k \in 1 .. at' - 1 <=> (k \in 1 .. at - 1 \/ k = at)
  OBVIOUS
<1> QED BY <1>1 DEF Seen, FirstSeen, Node

\* A result is appended for a node that had none.
LEMMA RecordKeeps ==
  ASSUME TypeOK, ResultsInv, pc = "loop", at \in 1 .. Len(request.body), answer.code # "OK",
         UNCHANGED <<request, denied>>, NEW code \in ResultCode, Recorded(code),
         code = "POLICY_DENIED" <=> Node \in denied
  PROVE  ResultsInv'
<1> DEFINE x == results'[Len(results) + 1]
<1>1. /\ at \in Nat \ {0} /\ at' = at + 1 /\ pc' = pc /\ answer' = answer
      /\ \E status \in 0..599 : results' = Append(results, Result(Node, code, status))
      /\ FirstSeen(at)
  <2>1. at \in Nat \ {0}
    BY BodyType
  <2>2. FirstSeen(at) /\ pc' = pc /\ answer' = answer
    BY DEF Recorded, Record
  <2>3. UNCHANGED request
    OBVIOUS
  <2>4. /\ at' = at + 1
        /\ \E status \in 0..599 : results' = Append(results, Result(Node, code, status))
    BY <2>3, RecordType, ZenonT(30)
  <2> QED BY <2>1, <2>2, <2>4
<1>2. results \in Seq([node : Nodes, kube_status : 0..599, error_code : ResultCode])
      /\ Len(results) \in Nat /\ DOMAIN results = 1 .. Len(results)
  BY DEF TypeOK, ResultCode
<1>3. /\ DOMAIN results' = DOMAIN results \cup {Len(results) + 1}
      /\ Len(results) + 1 \notin DOMAIN results
      /\ \A i \in DOMAIN results : results'[i] = results[i]
      /\ x.node = Node /\ x.error_code = code
  BY <1>1, <1>2 DEF Result
<1>4. /\ \A n : Seen(n)' <=> (Seen(n) \/ n = Node)
      /\ ~Seen(Node)
  BY <1>1, SeenNext
<1>5. \A i \in DOMAIN results : results[i].node # Node
  BY <1>4 DEF ResultsInv
<1>6. \A i, j \in DOMAIN results' : results'[i].node = results'[j].node => i = j
  BY <1>3, <1>5 DEF ResultsInv
<1>7. (\A i \in DOMAIN results : Seen(results[i].node))'
  <2> SUFFICES ASSUME NEW i \in DOMAIN results' PROVE Seen(results[i].node)'
    OBVIOUS
  <2>1. CASE i \in DOMAIN results
    BY <1>3, <1>4, <2>1 DEF ResultsInv
  <2>2. CASE i = Len(results) + 1
    BY <1>3, <1>4, <2>2
  <2> QED BY <1>3, <2>1, <2>2
<1>8. \A i \in DOMAIN results' :
        results'[i].error_code = "POLICY_DENIED" <=> results'[i].node \in denied'
  BY <1>3 DEF ResultsInv
<1>9. request.many => \A n \in Nodes : Seen(n)' => \E i \in DOMAIN results' : results'[i].node = n
  BY <1>3, <1>4 DEF ResultsInv
<1> QED BY <1>1, <1>6, <1>7, <1>8, <1>9 DEF ResultsInv

LEMMA LoopKeepsResults ==
  ASSUME TypeOK, BatchInv, Loop
  PROVE  ResultsInv' /\ (pc' # "done" => pc' = "loop" /\ answer'.code # "OK")
<1>1. /\ pc = "loop" /\ at \in 1 .. Len(request.body) /\ answer.code # "OK" /\ ResultsInv
      /\ UNCHANGED <<health, request, denied, statuses>>
  BY LoopShape DEF BatchInv
<1>2. at \in Nat \ {0}
  BY <1>1, BodyType
<1>3. CASE Passed
  <2>1. \A n : Seen(n)' <=> Seen(n)
    BY <1>1, <1>2, <1>3, SeenNext DEF Passed
  <2> QED BY <1>1, <1>3, <2>1 DEF Passed, ResultsInv
<1>4. CASE \E code \in ResultCode : Recorded(code) /\ (code = "POLICY_DENIED" <=> Node \in denied)
  <2> PICK code \in ResultCode : Recorded(code) /\ (code = "POLICY_DENIED" <=> Node \in denied)
    BY <1>4
  <2>1. pc' = pc /\ answer' = answer
    BY DEF Recorded, Record
  <2> QED BY <1>1, <2>1, RecordKeeps
<1>5. CASE \E code \in BatchCode : Left(code) /\ (code = "OK" => ~request.many)
  <2> PICK code \in BatchCode, http \in {200} \cup 400..599 :
             Leave(Answer(code, http)) /\ (code = "OK" => ~request.many)
    BY <1>5 DEF Left
  <2>1. /\ pc' = "done" /\ answer'.code = code /\ UNCHANGED <<results, at>>
    BY DEF Leave, Respond, Answer
  <2>2. \A n : Seen(n)' <=> Seen(n)
    BY <1>1, <2>1 DEF Seen
  <2> QED BY <1>1, <2>1, <2>2 DEF ResultsInv
<1> QED BY <1>3, <1>4, <1>5, LoopShape DEF Refused, ErrorCode, ResultCode, BatchCode

LEMMA LoopKeeps ==
  ASSUME TypeOK, BatchInv, Loop PROVE BatchInv'
<1>1. /\ pc = "loop" /\ at \in 1 .. Len(request.body) /\ PatchInv
      /\ UNCHANGED <<health, request, denied, statuses>>
      /\ pc' \in {"loop", "done"}
  <2>1. pc' \in {"loop", "done"}
    BY LoopKeepsResults
  <2> QED BY <2>1, LoopShape DEF BatchInv
<1>2. PatchInv'
  <2>1. CASE Untouched
    BY <1>1, <2>1 DEF PatchInv, Untouched, history, Cleared, Names
  <2>2. CASE ~Refused(Node) /\ ~Gated /\ Apply
    <3>1. request.action = "uncordon" => Cleared(Node)
      <4>1. ~request.many => Node = request.body[1]
        BY <1>1, BodyType DEF Node
      <4> QED BY <1>1, <2>2, <4>1 DEF Gated, Cleared, PatchInv
    <3>2. patched' = patched \cup {Node} /\ Node \notin denied
      BY <2>2 DEF Apply, Refused
    <3> QED BY <1>1, <3>1, <3>2 DEF PatchInv, Cleared, Names
  <2> QED BY <2>1, <2>2, LoopShape
<1> QED BY <1>1, <1>2, LoopKeepsResults DEF BatchInv, Names

LEMMA OtherStepsKeep ==
  ASSUME TypeOK, BatchInv, Admit \/ Read \/ Finish \/ Environment \/ UNCHANGED vars
  PROVE  BatchInv'
<1>1. CASE Admit
  <2>1. /\ pc = "admit" /\ denied' \in SUBSET Names /\ patched' = {} /\ results' = <<>> /\ at' = 1
        /\ pc' \in {"read", "loop", "done"} /\ UNCHANGED <<request, statuses>>
    BY <1>1, AdmitShape DEF BatchInv, history
  <2>2. answer'.code # "OK"
    BY <1>1, AdmitAnswers DEF BatchInv, Admit
  <2>3. ResultsInv'
    BY <2>1, <2>2 DEF ResultsInv, Seen
  <2>4. ~request.many /\ pc' # "done" => ~(Names \subseteq denied')
    <3>1. ~request.many => Names # {}
      <4>1. ~request.many => 1 \in DOMAIN request.body
        BY BodyType
      <4> QED BY <4>1 DEF Names, ToSet
    <3> QED BY <1>1, <3>1, AdmitShape
  <2>5. pc' = "loop" /\ request.action = "uncordon" => Names \subseteq denied'
    BY <1>1, AdmitShape
  <2>6. PatchInv'
    BY <2>1, <2>4, <2>5 DEF PatchInv, Names
  <2> QED BY <2>1, <2>2, <2>3, <2>4, <2>6 DEF BatchInv, Names
<1>2. CASE Read
  <2>1. /\ pc = "read" /\ patched' = {} /\ results' = <<>> /\ at' = 1 /\ pc' \in {"loop", "done"}
        /\ UNCHANGED <<request, denied>>
    BY <1>2, ReadShape DEF BatchInv, history
  <2>2. answer'.code # "OK"
    BY <1>2, ReadAnswers DEF BatchInv, Read
  <2>3. ResultsInv'
    BY <2>1, <2>2 DEF ResultsInv, Seen
  <2>4. PatchInv'
    BY <1>2, <2>1, ReadShape DEF BatchInv, PatchInv, Cleared, Names
  <2> QED BY <2>1, <2>2, <2>3, <2>4 DEF BatchInv, Names
<1>3. CASE Finish
  <2>1. /\ pc = "loop" /\ pc' = "done" /\ at > Len(request.body)
        /\ UNCHANGED <<request, denied, statuses, at, results, patched>>
    BY <1>3 DEF Finish, Respond, history
  <2>2. \A n \in Names : Seen(n)
    BY <2>1, BodyType DEF Seen, Names, ToSet, TypeOK
  <2>3. {results[i].node : i \in DOMAIN results} \subseteq Names
    BY BodyType DEF BatchInv, ResultsInv, Seen, Names, ToSet, TypeOK
  <2>4. request.many => {results[i].node : i \in DOMAIN results} = Names
    BY <2>1, <2>2, <2>3, BodyType DEF BatchInv, ResultsInv
  <2>5. ResultsInv'
    BY <2>1, <2>4 DEF BatchInv, ResultsInv, Seen, Names
  <2>6. PatchInv'
    BY <2>1 DEF BatchInv, PatchInv, Cleared, Names
  <2> QED BY <2>1, <2>5, <2>6 DEF BatchInv, Names
<1>4. CASE Environment \/ UNCHANGED vars
  <2>1. UNCHANGED unread
    BY <1>4 DEF Environment, Register, Deregister, ChangeHealth, SetUnschedulable, unread, vars
  <2> QED
    BY <2>1 DEF BatchInv, ResultsInv, PatchInv, Seen, Cleared, Names, unread
<1> QED BY <1>1, <1>2, <1>3, <1>4

THEOREM Inductive == Spec => []BatchInv
<1>1. Init => BatchInv
  BY DEF Init, BatchInv, ResultsInv, PatchInv, Seen, Answer
<1>2. TypeOK /\ BatchInv /\ [Next]_vars => BatchInv'
  BY LoopKeeps, OtherStepsKeep DEF Next, Step
<1> QED BY <1>1, <1>2, TypeCorrect, PTL DEF Spec

-----------------------------------------------------------------------------
(* What a result says of its node, and whose failure is whose.             *)

\* The node is as asked, and the failure of a patch that did it is one that
\* leaves it open whether it did.
Applied == Apply /\ health[Node] # "absent"
Open(code, status) == code = "KUBE_API_ERROR" /\ status >= 500

Clusterwide == {401, 403, 502, 503}

\* What a failure leaves behind: a result of its own code, or an answer.
RecordedAs(exc) ==
  \E status \in 0..599 :
    /\ Record(exc.code, status)
    /\ exc.code = "KUBE_API_ERROR" => status = exc.kubeStatus /\ status \notin {0, 401, 403}
LeftFor ==
  \E code \in ErrorCode, http \in 400..599 :
    /\ Leave(Answer(code, http))
    /\ request.many => code = "KUBE_API_ERROR" /\ http \in Clusterwide

LEMMA FailEffect ==
  ASSUME NEW exc \in Exceptions, Fail(exc),
         exc \in {NodeNotFound, NodeNotReady} \/ \E e \in SdkErrors(ErrorStatus) : exc = Translate(e)
  PROVE  exc.code \in ErrorCode /\ (RecordedAs(exc) \/ LeftFor)
<1>1. exc.code \in ErrorCode /\ exc.http \in 400..599 /\ exc.kubeStatus \in 0..599
  BY ExceptionType
<1>2. CASE request.many /\ ~IsClusterLevel(exc)
  <2> DEFINE s == IF exc.code = "KUBE_API_ERROR" THEN exc.kubeStatus ELSE exc.http
  <2>1. Record(exc.code, s) /\ s \in 0..599
    BY <1>1, <1>2 DEF Fail
  <2>2. exc.code = "KUBE_API_ERROR" => s = exc.kubeStatus /\ s \notin {0, 401, 403}
    BY <1>2 DEF IsClusterLevel, NoStatus
  <2> HIDE DEF s
  <2>3. RecordedAs(exc)
    BY <2>1, <2>2, ZenonT(30) DEF RecordedAs
  <2> QED BY <1>1, <2>3
<1>3. CASE ~(request.many /\ ~IsClusterLevel(exc))
  <2>1. Leave(Answer(exc.code, exc.http))
    BY <1>3 DEF Fail
  <2>2. IsClusterLevel(exc) => exc.code = "KUBE_API_ERROR" /\ exc.http \in Clusterwide
    BY StatusAssumption
    DEF IsClusterLevel, Clusterwide, SdkErrors, ApiError, NetworkError, Translate,
        KubeApiException, ConnectionError, NodeNotFound, NodeNotReady, AppException, NoStatus
  <2>3. request.many => IsClusterLevel(exc)
    BY <1>3
  <2> QED BY <1>1, <2>1, <2>2, <2>3 DEF LeftFor
<1> QED BY <1>1, <1>2, <1>3

\* What a turn of the loop may come to: a result that is true, or an answer.
ResultOf(code, status) ==
  /\ Record(code, status)
  /\ Untouched \/ (Applied /\ Open(code, status))
  /\ code = "KUBE_API_ERROR" => status \notin {0, 401, 403}
AnswerOf(code, http) ==
  /\ Leave(Answer(code, http))
  /\ Untouched \/ Applied
  /\ request.many => code = "KUBE_API_ERROR" /\ http \in Clusterwide

LEMMA LeftForAnswers ==
  ASSUME LeftFor, Untouched \/ Applied
  PROVE  \E code \in BatchCode, http \in {200} \cup 400..599 : AnswerOf(code, http)
<1>1. PICK code \in ErrorCode, http \in 400..599 :
        /\ Leave(Answer(code, http))
        /\ request.many => code = "KUBE_API_ERROR" /\ http \in Clusterwide
  BY DEF LeftFor
<1>2. AnswerOf(code, http)
  BY <1>1 DEF AnswerOf
<1>3. code \in BatchCode /\ http \in {200} \cup 400..599
  BY DEF ErrorCode
<1> QED BY <1>2, <1>3

LEMMA FailUntouched ==
  ASSUME NEW exc \in {NodeNotFound, NodeNotReady}, exc \in Exceptions, Fail(exc), Untouched
  PROVE  \/ \E code \in ErrorCode, status \in 0..599 : ResultOf(code, status)
         \/ \E code \in BatchCode, http \in {200} \cup 400..599 : AnswerOf(code, http)
<1>1. exc.code \in ErrorCode /\ (RecordedAs(exc) \/ LeftFor)
  BY FailEffect
<1>2. CASE RecordedAs(exc)
  <2>1. PICK status \in 0..599 :
          /\ Record(exc.code, status)
          /\ exc.code = "KUBE_API_ERROR" => status \notin {0, 401, 403}
    BY <1>2 DEF RecordedAs
  <2>2. ResultOf(exc.code, status)
    BY <2>1 DEF ResultOf
  <2> QED BY <1>1, <2>2
<1>3. CASE LeftFor
  BY <1>3, LeftForAnswers
<1> QED BY <1>1, <1>2, <1>3

LEMMA LoopEffect ==
  ASSUME TypeOK, Loop
  PROVE  \/ Passed /\ Untouched
         \/ /\ FirstSeen(at)
            /\ \/ Record("POLICY_DENIED", NoStatus) /\ Untouched
               \/ Record("NONE", NoStatus) /\ Applied
               \/ \E code \in ErrorCode, status \in 0..599 : ResultOf(code, status)
               \/ \E code \in BatchCode, http \in {200} \cup 400..599 : AnswerOf(code, http)
<1>1. CASE Repeated
  BY <1>1 DEF Repeated, Passed, Untouched
<1>2. CASE Deny
  BY <1>2 DEF Deny, Turn, Untouched
<1>3. CASE GateOut
  <2>1. NodeNotReady \in Exceptions /\ Fail(NodeNotReady) /\ FirstSeen(at) /\ Untouched
    BY <1>3 DEF GateOut, Turn, Untouched, Exceptions
  <2> QED BY <2>1, FailUntouched
<1>4. CASE Patch /\ PatchAccepted
  <2>1. FirstSeen(at) /\ Applied /\ Succeed
    BY <1>4 DEF Patch, PatchAccepted, Turn, Applied
  <2>2. CASE request.many
    BY <2>1, <2>2 DEF Succeed
  <2>3. CASE ~request.many
    <3>1. AnswerOf("OK", 200) /\ "OK" \in BatchCode
      BY <2>1, <2>3 DEF Succeed, AnswerOf, BatchCode
    <3> QED BY <2>1, <3>1
  <2> QED BY <2>2, <2>3
<1>5. CASE Patch /\ PatchNotFound
  <2>1. NodeNotFound \in Exceptions /\ Fail(NodeNotFound) /\ FirstSeen(at) /\ Untouched
    BY <1>5 DEF Patch, PatchNotFound, Turn, Untouched, Exceptions
  <2> QED BY <2>1, FailUntouched
<1>6. CASE Patch /\ PatchFailed
  <2>1. PICK e \in SdkErrors(ErrorStatus \ {404}) :
             /\ Untouched \/ (MayHaveApplied(e) /\ Applied)
             /\ Fail(Translate(e))
    BY <1>6 DEF PatchFailed, Untouched, Applied
  <2>2. e \in SdkErrors(ErrorStatus) /\ Translate(e) \in Exceptions
    BY DEF Exceptions, SdkErrors
  <2>3. Translate(e).code = "KUBE_API_ERROR" /\ (MayHaveApplied(e) => Translate(e).kubeStatus >= 500)
    BY StatusAssumption
    DEF MayHaveApplied, SdkErrors, ApiError, NetworkError, Translate, KubeApiException,
        ConnectionError
  <2>4. Translate(e).code \in ErrorCode /\ (RecordedAs(Translate(e)) \/ LeftFor)
    BY <2>1, <2>2, FailEffect
  <2>5. FirstSeen(at)
    BY <1>6 DEF Patch, Turn
  <2>6. CASE RecordedAs(Translate(e))
    <3> DEFINE exc == Translate(e)
    <3> HIDE DEF exc
    <3>1. PICK status \in 0..599 :
            /\ Record(exc.code, status)
            /\ exc.code = "KUBE_API_ERROR" =>
                 status = exc.kubeStatus /\ status \notin {0, 401, 403}
      BY <2>6 DEF RecordedAs, exc
    <3>2. Untouched \/ (Applied /\ Open(exc.code, status))
      BY <2>1, <2>3, <3>1 DEF Open, exc
    <3>3. ResultOf(exc.code, status)
      BY <3>1, <3>2 DEF ResultOf
    <3>4. exc.code \in ErrorCode
      BY <2>4 DEF exc
    <3> QED BY <2>5, <3>3, <3>4
  <2>7. CASE LeftFor
    BY <2>1, <2>5, <2>7, LeftForAnswers
  <2> QED BY <2>4, <2>6, <2>7
<1> QED BY <1>1, <1>2, <1>3, <1>4, <1>5, <1>6 DEF Loop, Patch

ResultTrue(i) ==
  LET undecided == results[i].error_code = "KUBE_API_ERROR" /\ results[i].kube_status >= 500
  IN  /\ Succeeded(i) => results[i].node \in patched
      /\ ~Succeeded(i) /\ ~undecided => results[i].node \notin patched
      /\ results[i].error_code = "KUBE_API_ERROR" => results[i].kube_status \notin {0, 401, 403}

AnswerLayer ==
  request.many =>
    /\ answer.code \notin {"POLICY_DENIED", "NODE_NOT_FOUND", "NODE_NOT_READY"}
    /\ answer.code = "KUBE_API_ERROR" /\ results # <<>> => answer.http \in Clusterwide

HoldInv ==
  /\ \A n \in patched : pc # "done" => Seen(n)
  /\ \A n \in patched \ disturbed : health[n] # "absent" /\ unschedulable[n] = Target
  /\ \A i \in DOMAIN results : ResultTrue(i)
  /\ AnswerLayer
  /\ pc # "done" => answer.code = "PENDING"

\* The cluster's part: whoever patches has the node as asked, and a node that was
\* not seen yet was not patched.
LEMMA ApplyKeeps ==
  ASSUME TypeOK, BatchInv, HoldInv, pc = "loop", at \in 1 .. Len(request.body), FirstSeen(at),
         UNCHANGED <<health, request>>, Untouched \/ Applied
  PROVE  /\ \A n \in patched' \ disturbed' : health'[n] # "absent" /\ unschedulable'[n] = Target'
         /\ patched' \in {patched, patched \cup {Node}}
         /\ Node \notin patched
         /\ \A i \in DOMAIN results : results[i].node # Node
<1>1. at \in Nat \ {0} /\ Node \in Nodes
  BY BodyType DEF Node
<1>2. ~Seen(Node)
  BY <1>1 DEF FirstSeen, Seen, Node
<1>3. Node \notin patched /\ \A i \in DOMAIN results : results[i].node # Node
  BY <1>2 DEF HoldInv, BatchInv, ResultsInv
<1>4. Target' = Target
  BY DEF Target
<1>5. CASE Untouched
  BY <1>3, <1>4, <1>5 DEF Untouched, history, HoldInv
<1>6. CASE Applied
  BY <1>1, <1>3, <1>4, <1>6 DEF Applied, Apply, HoldInv, TypeOK
<1> QED BY <1>3, <1>5, <1>6

LEMMA LoopHolds ==
  ASSUME TypeOK, BatchInv, HoldInv, Loop PROVE HoldInv'
<1>1. /\ pc = "loop" /\ at \in 1 .. Len(request.body) /\ at \in Nat \ {0}
      /\ UNCHANGED <<health, request, denied, statuses>>
  BY LoopShape, BodyType
<1>2. /\ results \in Seq([node : Nodes, kube_status : 0..599, error_code : ResultCode])
      /\ Len(results) \in Nat /\ DOMAIN results = 1 .. Len(results)
  BY DEF TypeOK, ResultCode
<1>3. CASE Passed /\ Untouched
  <2>1. \A n : Seen(n) => Seen(n)'
    BY <1>1, <1>3, SeenNext DEF Passed
  <2> QED BY <1>1, <1>3, <2>1
          DEF Passed, Untouched, history, HoldInv, ResultTrue, Succeeded, AnswerLayer, Target
<1>4. ASSUME NEW code \in ResultCode, NEW status \in 0..599, FirstSeen(at), Record(code, status),
             Untouched \/ Applied,
             code = "NONE" => Applied, code # "NONE" => Untouched \/ Open(code, status),
             code = "KUBE_API_ERROR" => status \notin {0, 401, 403}
      PROVE  HoldInv'
  <2> DEFINE x == results'[Len(results) + 1]
  <2>1. /\ at' = at + 1 /\ pc' = pc /\ answer' = answer
        /\ results' = Append(results, Result(Node, code, status))
    BY <1>4 DEF Record
  <2>2. /\ DOMAIN results' = DOMAIN results \cup {Len(results) + 1}
        /\ \A i \in DOMAIN results : results'[i] = results[i]
        /\ x.node = Node /\ x.error_code = code /\ x.kube_status = status
    BY <1>2, <2>1 DEF Result
  <2>3. \A n : Seen(n)' <=> (Seen(n) \/ n = Node)
    BY <1>1, <2>1, SeenNext
  <2>4. /\ \A n \in patched' \ disturbed' : health'[n] # "absent" /\ unschedulable'[n] = Target'
        /\ patched' \in {patched, patched \cup {Node}}
        /\ Node \notin patched
        /\ \A i \in DOMAIN results : results[i].node # Node
    BY <1>1, <1>4, ApplyKeeps
  <2>5. \A n \in patched' : Seen(n)'
    BY <1>1, <2>3, <2>4 DEF HoldInv
  <2>6. \A i \in DOMAIN results : ResultTrue(i)'
    BY <2>2, <2>4 DEF HoldInv, ResultTrue, Succeeded
  <2>7. ASSUME NEW i \in DOMAIN results', i \notin DOMAIN results PROVE ResultTrue(i)'
    <3>1. Applied => Node \in patched'
      BY DEF Applied, Apply
    <3>2. Untouched => Node \notin patched'
      BY <2>4 DEF Untouched, history
    <3>3. results'[i].node = Node /\ results'[i].error_code = code /\ results'[i].kube_status = status
      BY <2>2, <2>7
    <3> QED BY <1>4, <3>1, <3>2, <3>3 DEF ResultTrue, Succeeded, Open
  <2>8. AnswerLayer' /\ answer'.code = "PENDING"
    BY <1>1, <2>1 DEF HoldInv, AnswerLayer
  <2>9. \A i \in DOMAIN results' : ResultTrue(i)'
    BY <2>2, <2>6, <2>7
  <2> QED BY <2>4, <2>5, <2>8, <2>9 DEF HoldInv
<1>5. ASSUME NEW code \in BatchCode, NEW http \in {200} \cup 400..599, FirstSeen(at),
             Leave(Answer(code, http)), Untouched \/ Applied,
             request.many => code = "KUBE_API_ERROR" /\ http \in Clusterwide
      PROVE  HoldInv'
  <2>1. pc' = "done" /\ answer' = Answer(code, http) /\ results' = results
    BY <1>5 DEF Leave, Respond
  <2>2. /\ \A n \in patched' \ disturbed' : health'[n] # "absent" /\ unschedulable'[n] = Target'
        /\ patched' \in {patched, patched \cup {Node}}
        /\ \A i \in DOMAIN results : results[i].node # Node
    BY <1>1, <1>5, ApplyKeeps
  <2>3. \A i \in DOMAIN results : ResultTrue(i)'
    BY <2>1, <2>2 DEF HoldInv, ResultTrue, Succeeded
  <2>4. AnswerLayer'
    BY <1>1, <1>5, <2>1 DEF AnswerLayer, Answer
  <2> QED BY <2>1, <2>2, <2>3, <2>4 DEF HoldInv
<1>6. CASE FirstSeen(at) /\ Record("POLICY_DENIED", NoStatus) /\ Untouched
  BY <1>4, <1>6 DEF ResultCode, BatchCode, NoStatus
<1>7. CASE FirstSeen(at) /\ Record("NONE", NoStatus) /\ Applied
  BY <1>4, <1>7 DEF ResultCode, NoStatus
<1>8. CASE FirstSeen(at) /\ \E code \in ErrorCode, status \in 0..599 : ResultOf(code, status)
  <2> PICK code \in ErrorCode, status \in 0..599 : ResultOf(code, status)
    BY <1>8
  <2>1. code \in ResultCode /\ code # "NONE"
    BY DEF ErrorCode, ResultCode, BatchCode
  <2>2. /\ Record(code, status) /\ (Untouched \/ Applied)
        /\ code = "NONE" => Applied
        /\ code # "NONE" => Untouched \/ Open(code, status)
        /\ code = "KUBE_API_ERROR" => status \notin {0, 401, 403}
    BY <2>1 DEF ResultOf
  <2>3. FirstSeen(at)
    BY <1>8
  <2> QED BY <1>4, <2>1, <2>2, <2>3, ZenonT(60)
<1>9. CASE FirstSeen(at) /\ \E code \in BatchCode, http \in {200} \cup 400..599 : AnswerOf(code, http)
  <2> PICK code \in BatchCode, http \in {200} \cup 400..599 : AnswerOf(code, http)
    BY <1>9
  <2>1. /\ Leave(Answer(code, http)) /\ (Untouched \/ Applied)
        /\ request.many => code = "KUBE_API_ERROR" /\ http \in Clusterwide
    BY DEF AnswerOf
  <2> QED BY <1>5, <1>9, <2>1
<1> QED BY <1>3, <1>6, <1>7, <1>8, <1>9, LoopEffect

LEMMA OthersHold ==
  ASSUME TypeOK, BatchInv, HoldInv, Admit \/ Read \/ Finish \/ UNCHANGED vars PROVE HoldInv'
<1>1. CASE Admit \/ Read
  <2>1. /\ patched = {} /\ patched' = {} /\ results = <<>> /\ results' = <<>>
        /\ UNCHANGED request
    BY <1>1, AdmitShape, ReadShape DEF BatchInv, history
  <2>2. AnswerLayer'
    <3>1. UNCHANGED answer \/ \E exc \in {UsersFileInvalid} \cup ResolveErrors \cup
            {Translate(e) : e \in SdkErrors(ErrorStatus)} : Raise(exc)
          \/ ~request.many
      BY <1>1 DEF Admit, Resolve, Read, ReadDone, ReadFailed, Goto
    <3>2. \A exc \in {UsersFileInvalid} \cup ResolveErrors \cup
            {Translate(e) : e \in SdkErrors(ErrorStatus)} :
            exc.code \notin {"POLICY_DENIED", "NODE_NOT_FOUND", "NODE_NOT_READY"}
      BY DEF UsersFileInvalid, ResolveErrors, AppException, KubeApiException, Translate,
             ConnectionError
    <3>3. answer'.code \notin {"POLICY_DENIED", "NODE_NOT_FOUND", "NODE_NOT_READY"} \/ ~request.many
      BY <3>1, <3>2 DEF Raise, Respond, Answer, HoldInv, AnswerLayer
    <3> QED BY <2>1, <3>3 DEF AnswerLayer
  <2>3. pc' # "done" => answer'.code = "PENDING"
    <3>1. pc # "done" /\ (pc' # "done" => UNCHANGED answer)
      BY <1>1 DEF Admit, Resolve, Read, ReadDone, ReadFailed, Goto, Raise, Respond
    <3> QED BY <3>1 DEF HoldInv
  <2> QED BY <2>1, <2>2, <2>3 DEF HoldInv
<1>2. CASE Finish
  <2>1. /\ pc' = "done" /\ answer' = Answer("OK", 200)
        /\ UNCHANGED <<health, unschedulable, request, results, patched, disturbed>>
    BY <1>2 DEF Finish, Respond, cluster, history
  <2> QED BY <2>1 DEF HoldInv, ResultTrue, Succeeded, AnswerLayer, Answer, Target
<1>3. CASE UNCHANGED vars
  BY <1>3 DEF vars, HoldInv, ResultTrue, Succeeded, AnswerLayer, Target, Seen
<1> QED BY <1>1, <1>2, <1>3

\* Whatever happens to a node is noted.
LEMMA EnvironmentHolds ==
  ASSUME TypeOK, HoldInv, Environment PROVE HoldInv'
<1> PICK n \in Nodes : Register(n) \/ Deregister(n) \/ ChangeHealth(n) \/ SetUnschedulable(n)
  BY DEF Environment
<1>1. UNCHANGED unread
  BY DEF Register, Deregister, ChangeHealth, SetUnschedulable
<1>2. \A m \in Nodes \ disturbed' :
        m \notin disturbed /\ unschedulable'[m] = unschedulable[m]
        /\ (health[m] # "absent" => health'[m] # "absent")
  BY DEF Register, Deregister, ChangeHealth, SetUnschedulable, TypeOK, Health
<1>3. \A m \in patched' \ disturbed' :
        health'[m] # "absent" /\ unschedulable'[m] = Target'
  BY <1>1, <1>2 DEF unread, HoldInv, TypeOK, Target
<1> QED BY <1>1, <1>3 DEF unread, HoldInv, ResultTrue, Succeeded, AnswerLayer, Seen

\* What has been patched and recorded so far is as the results say.
THEOREM HoldInductive == Spec => []HoldInv
<1>1. Init => HoldInv
  BY DEF Init, HoldInv, AnswerLayer, Answer
<1>2. TypeOK /\ BatchInv /\ HoldInv /\ [Next]_vars => HoldInv'
  BY LoopHolds, OthersHold, EnvironmentHolds DEF Next, Step
<1> QED BY <1>1, <1>2, TypeCorrect, Inductive, PTL DEF Spec

-----------------------------------------------------------------------------
(* The promises of a batch.                                                *)

\* Results are safe to key by node name, and a 200 batch covers every name.
THEOREM OneResultEach == Spec => []OneResultPerNode
<1>1. BatchInv => OneResultPerNode
  BY DEF BatchInv, ResultsInv, OneResultPerNode
<1> QED BY <1>1, Inductive, PTL

\* No request ever patches a node its policy refused.
THEOREM PolicyHolds == Spec => []DeniedNeverSent
<1>1. BatchInv => DeniedNeverSent
  BY DEF BatchInv, ResultsInv, PatchInv, DeniedNeverSent
<1> QED BY <1>1, Inductive, PTL

\* No uncordon patches a node it read as anything but Ready.
THEOREM GateHolds == Spec => []ReadinessGate
<1>1. BatchInv => ReadinessGate
  BY DEF BatchInv, PatchInv, Cleared, NotReady, ReadinessGate
<1> QED BY <1>1, Inductive, PTL

\* Each result of a batch is true of its node: success means that it was patched
\* and is as asked, unless someone else has changed it since; a failure that somebody
\* decided on, that it was left alone.
THEOREM ResultsTrue == Spec => []ResultsHold
<1>1. HoldInv => ResultsHold
  BY DEF HoldInv, ResultTrue, Succeeded, ResultsHold
<1> QED BY <1>1, HoldInductive, PTL

\* A batch keeps a node's failure in its result, and a failure that concerns all
\* nodes out of the results.
THEOREM LayersKept == Spec => []FailureLayers
<1>1. HoldInv => FailureLayers
  BY DEF HoldInv, ResultTrue, AnswerLayer, Clusterwide, FailureLayers
<1> QED BY <1>1, HoldInductive, PTL
=============================================================================
