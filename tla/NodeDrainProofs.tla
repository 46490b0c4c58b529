--------------------------- MODULE NodeDrainProofs ---------------------------
(***************************************************************************)
(* Safety of NodeDrain for any number of drains and pods, any options and  *)
(* any wait budget.                                                        *)
(***************************************************************************)
EXTENDS NodeDrain, TLAPS

ErrorCode == DrainCode \ {"PENDING", "OK", "DRAIN_BLOCKED"}

-----------------------------------------------------------------------------
(* Lemmas on the two ways a step leaves a request: going on and answering. *)

\* The exceptions Kubernetes errors become answer with a code of their own.
LEMMA TranslatedType ==
  ASSUME NEW e \in SdkErrors(ErrorStatus)
  PROVE  /\ Translate(e).code \in ErrorCode /\ Translate(e).http \in 400..599
         /\ TranslateOn(e, NodeNotFound).code \in ErrorCode
         /\ TranslateOn(e, NodeNotFound).http \in 400..599
  BY NumbersAssumption
  DEF SdkErrors, ApiError, NetworkError, Translate, TranslateOn, KubeApiException,
      ConnectionError, NodeNotFound, AppException, DrainCode, ErrorCode, NoStatus

LEMMA GotoType ==
  ASSUME AnswerTypeOK, NEW d \in Drains, NEW l \in PC \ {"done"}, pc[d] # "done",
         Goto(d, l)
  PROVE  AnswerTypeOK'
  BY DEF AnswerTypeOK, Goto

LEMMA RespondType ==
  ASSUME AnswerTypeOK, NEW d \in Drains, NEW code \in DrainCode,
         NEW http \in {200} \cup 400..599, NEW still \in SUBSET Pods,
         Respond(d, Answer(code, http, still))
  PROVE  AnswerTypeOK'
<1>1. http # 0
  OBVIOUS
<1>2. Answer(code, http, still) \in [code : DrainCode, http : {0, 200} \cup 400..599,
                                     still_terminating : SUBSET Pods]
  BY DEF Answer
<1>3. Answer(code, http, still).http = http
  BY DEF Answer
<1> QED BY <1>1, <1>2, <1>3 DEF AnswerTypeOK, Respond, PC

LEMMA RaiseType ==
  ASSUME AnswerTypeOK, NEW d \in Drains, NEW e \in SdkErrors(ErrorStatus),
         Raise(d, Translate(e)) \/ Raise(d, TranslateOn(e, NodeNotFound))
  PROVE  AnswerTypeOK'
<1> PICK exc \in {Translate(e), TranslateOn(e, NodeNotFound)} : Raise(d, exc)
  OBVIOUS
<1>1. exc.code \in DrainCode /\ exc.http \in {200} \cup 400..599
  BY TranslatedType DEF ErrorCode
<1>2. Respond(d, Answer(exc.code, exc.http, {}))
  BY DEF Raise
<1> QED BY <1>1, <1>2, RespondType

\* The drain answers 200, with the pods it still saw.
LEMMA OkType ==
  ASSUME AnswerTypeOK, NEW d \in Drains, NEW still \in SUBSET Pods,
         Respond(d, Answer("OK", 200, still))
  PROVE  AnswerTypeOK'
<1>1. "OK" \in DrainCode /\ 200 \in {200} \cup 400..599
  BY DEF DrainCode
<1> QED BY <1>1, RespondType

-----------------------------------------------------------------------------
(* TypeOK, one lemma per action.                                           *)

LEMMA AdmitType ==
  ASSUME TypeOK, NEW d \in Drains, Admit(d) PROVE TypeOK'
<1>1. AnswerTypeOK'
  <2>1. CASE Goto(d, "cordon")
    BY <2>1, GotoType DEF Admit, TypeOK, PC
  <2>2. CASE Respond(d, Answer("DRY_RUN", 200, {}))
    BY <2>2, RespondType DEF TypeOK, DrainCode
  <2>3. CASE \E exc \in PolicyErrors \cup ResolveErrors : Raise(d, exc)
    <3> PICK exc \in PolicyErrors \cup ResolveErrors : Raise(d, exc)
      BY <2>3
    <3>1. exc.code \in DrainCode /\ exc.http \in 400..599
      BY DEF PolicyErrors, PolicyDenied, UsersFileInvalid, ResolveErrors, AppException,
             KubeApiException, NoStatus, DrainCode
    <3> QED BY <3>1, RespondType DEF Raise, TypeOK
  <2> QED BY <2>1, <2>2, <2>3 DEF Admit
<1> QED
  BY <1>1 DEF Admit, TypeOK, ClusterTypeOK, RequestTypeOK, HistoryTypeOK, cluster, history

LEMMA CordonType ==
  ASSUME TypeOK, NEW d \in Drains, Cordon(d) PROVE TypeOK'
<1>1. AnswerTypeOK' /\ unschedulable' \in BOOLEAN /\ uncordoned' \in [Drains -> BOOLEAN]
  <2>1. CASE Cordoned(d)
    BY <2>1, GotoType DEF Cordon, Cordoned, TypeOK, HistoryTypeOK, PC
  <2>2. CASE CordonFailed(d)
    BY <2>2, RaiseType DEF CordonFailed, TypeOK, ClusterTypeOK, HistoryTypeOK
  <2> QED BY <2>1, <2>2 DEF Cordon
<1> QED
  BY <1>1 DEF Cordon, TypeOK, ClusterTypeOK, RequestTypeOK, HistoryTypeOK

LEMMA ListType ==
  ASSUME TypeOK, NEW d \in Drains, List(d) PROVE TypeOK'
<1>1. AnswerTypeOK'
  <2>1. CASE Goto(d, "evict")
    BY <2>1, GotoType DEF List, TypeOK, PC
  <2>2. CASE Respond(d, Answer("DRAIN_BLOCKED", 400, {}))
    BY <2>2, RespondType DEF TypeOK, DrainCode
  <2>3. CASE \E e \in SdkErrors(ErrorStatus) : Raise(d, Translate(e))
    BY <2>3, RaiseType DEF TypeOK
  <2> QED BY <2>1, <2>2, <2>3 DEF List, Classify
<1>2. RequestTypeOK'
  BY DEF List, Classify, TypeOK, RequestTypeOK
<1>3. HistoryTypeOK'
  <2>1. CASE UNCHANGED listed
    BY <2>1 DEF List, TypeOK, HistoryTypeOK
  <2>2. CASE listed' = [listed EXCEPT ![d] =
                          [p \in Pods |-> IF OnNode(p) /\ phase[p] # "completed"
                                         THEN uid[p] ELSE 0]]
    <3>1. [p \in Pods |-> IF OnNode(p) /\ phase[p] # "completed" THEN uid[p] ELSE 0]
            \in [Pods -> 0..MaxUid]
      BY NumbersAssumption DEF TypeOK, ClusterTypeOK
    <3> QED BY <2>2, <3>1 DEF List, TypeOK, HistoryTypeOK
  <2> QED BY <2>1, <2>2 DEF List
<1> QED
  BY <1>1, <1>2, <1>3 DEF List, TypeOK, ClusterTypeOK, cluster

\* What the API server does with a pod leaves every pod in a phase it knows.
LEMMA RemovalType ==
  ASSUME TypeOK, NEW d \in Drains, NEW p \in Pods, StartRemoval(d, p)
  PROVE  /\ phase' \in [Pods -> Phase]
         /\ deleting' \in [Pods -> BOOLEAN]
         /\ removed' \in [Drains -> SUBSET (Pods \X (0..MaxUid))]
<1>1. /\ phase' \in [Pods -> Phase]
      /\ deleting' \in [Pods -> BOOLEAN]
  BY DEF TypeOK, ClusterTypeOK, StartRemoval, Remove, Phase
<1>2. <<p, uid[p]>> \in Pods \X (0..MaxUid)
  BY DEF TypeOK, ClusterTypeOK
<1> QED
  BY <1>1, <1>2 DEF TypeOK, HistoryTypeOK, StartRemoval

LEMMA EvictType ==
  ASSUME TypeOK, NEW d \in Drains, Evict(d) PROVE TypeOK'
<1> DEFINE Removal == /\ phase' \in [Pods -> Phase]
                      /\ deleting' \in [Pods -> BOOLEAN]
                      /\ removed' \in [Drains -> SUBSET (Pods \X (0..MaxUid))]
<1> PICK p \in todo[d] : EvictAccepted(d, p) \/ EvictAlreadyGone(d, p)
                           \/ BudgetRefuses(d, p) \/ EvictFailed(d, p)
  BY DEF Evict
<1>0. p \in Pods /\ pc[d] = "evict" /\ "evict" \in PC
  BY DEF Evict, TypeOK, RequestTypeOK, PC
<1>t. UNCHANGED <<phase, deleting, removed>> => Removal
  BY DEF TypeOK, ClusterTypeOK, HistoryTypeOK
<1>1. AnswerTypeOK' /\ todo' \in [Drains -> SUBSET Pods] /\ Removal
  <2>1. CASE EvictAccepted(d, p)
    <3>1. Removal
      BY <2>1, <1>0, RemovalType DEF EvictAccepted
    <3> QED
      BY <2>1, <3>1, <1>0, GotoType DEF EvictAccepted, TypeOK, RequestTypeOK
  <2>2. CASE EvictAlreadyGone(d, p)
    BY <2>2, <1>0, <1>t, GotoType DEF EvictAlreadyGone, TypeOK, RequestTypeOK
  <2>3. CASE BudgetRefuses(d, p)
    <3>1. AnswerTypeOK'
      <4>1. Respond(d, Answer("KUBE_API_ERROR", 409, {}))
        BY <2>3 DEF BudgetRefuses, Raise, KubeApiException
      <4>2. "KUBE_API_ERROR" \in DrainCode /\ 409 \in {200} \cup 400..599
        BY DEF DrainCode
      <4> QED BY <4>1, <4>2, RespondType DEF TypeOK
    <3> QED
      BY <2>3, <3>1, <1>t DEF BudgetRefuses, TypeOK, RequestTypeOK
  <2>4. CASE EvictFailed(d, p)
    <3> PICK e \in SdkErrors(OtherStatus(d)) :
               /\ \/ UNCHANGED <<phase, deleting, removed>>
                  \/ MayHaveApplied(e) /\ StartRemoval(d, p)
               /\ Raise(d, Translate(e))
               /\ UNCHANGED todo
      BY <2>4 DEF EvictFailed
    <3>1. e \in SdkErrors(ErrorStatus)
      BY DEF SdkErrors, OtherStatus
    <3>2. AnswerTypeOK'
      BY <3>1, RaiseType DEF TypeOK
    <3>3. Removal
      BY <1>0, <1>t, RemovalType
    <3> QED
      BY <3>2, <3>3 DEF TypeOK, RequestTypeOK
  <2> QED BY <2>1, <2>2, <2>3, <2>4
<1> QED
  BY <1>1 DEF Evict, TypeOK, ClusterTypeOK, RequestTypeOK, HistoryTypeOK

LEMMA WaitType ==
  ASSUME TypeOK, NEW d \in Drains, StartWait(d) \/ Poll(d) \/ Sleep(d) PROVE TypeOK'
<1>1. AnswerTypeOK' /\ elapsed' \in [Drains -> Nat]
  <2>1. CASE StartWait(d)
    <3>3. elapsed' \in [Drains -> Nat]
      BY <2>1 DEF StartWait, TypeOK, RequestTypeOK
    <3>1. CASE pods_to_evict[d] = {}
      <4>1. Respond(d, Answer("OK", 200, {}))
        BY <2>1, <3>1 DEF StartWait
      <4> QED BY <3>3, <4>1, OkType DEF TypeOK
    <3>2. CASE pods_to_evict[d] # {}
      <4>1. pc[d] # "done" /\ Goto(d, "poll") /\ "poll" \in PC \ {"done"}
        BY <2>1, <3>2 DEF StartWait, PC
      <4> QED BY <3>3, <4>1, GotoType DEF TypeOK
    <3> QED BY <3>1, <3>2
  <2>2. CASE Poll(d)
    <3>1. CASE PollAnswered(d)
      <4> PICK seconds \in elapsed[d] .. elapsed[d] + MaxCall :
                 /\ elapsed' = [elapsed EXCEPT ![d] = seconds]
                 /\ Respond(d, Answer("OK", 200, StillPresent(d))) \/ Goto(d, "sleep")
        BY <3>1 DEF PollAnswered
      <4>1. StillPresent(d) \in SUBSET Pods
        BY DEF StillPresent, TypeOK, RequestTypeOK
      <4>2. AnswerTypeOK'
        <5>1. pc[d] # "done" /\ "sleep" \in PC \ {"done"}
          BY <2>2 DEF Poll, PC
        <5> QED BY <4>1, <5>1, OkType, GotoType DEF TypeOK
      <4>3. seconds \in Nat
        BY NumbersAssumption DEF TypeOK, RequestTypeOK
      <4> QED BY <4>2, <4>3 DEF TypeOK, RequestTypeOK
    <3>2. CASE \E e \in SdkErrors(ErrorStatus) : Raise(d, Translate(e)) /\ UNCHANGED elapsed
      BY <3>2, RaiseType DEF TypeOK, RequestTypeOK
    <3> QED BY <2>2, <3>1, <3>2 DEF Poll
  <2>3. CASE Sleep(d)
    BY <2>3, GotoType DEF Sleep, PollSeconds, TypeOK, RequestTypeOK, PC
  <2> QED BY <2>1, <2>2, <2>3
<1> QED
  BY <1>1 DEF StartWait, Poll, Sleep, TypeOK, ClusterTypeOK, RequestTypeOK, HistoryTypeOK,
              cluster, history

LEMMA EnvironmentType ==
  ASSUME TypeOK, Environment PROVE TypeOK'
<1>1. AnswerTypeOK' /\ RequestTypeOK'
  BY DEF Environment, Create, Complete, Delete, Terminated, SetUnschedulable, requests,
         TypeOK, AnswerTypeOK, RequestTypeOK
<1>2. ASSUME NEW p \in Pods, Create(p) PROVE ClusterTypeOK' /\ HistoryTypeOK'
  <2>1. uid[p] + 1 \in 0..MaxUid
    BY <1>2, NumbersAssumption DEF Create, TypeOK, ClusterTypeOK
  <2>2. ClusterTypeOK'
    BY <1>2, <2>1 DEF Create, TypeOK, ClusterTypeOK, Phase
  <2> QED
    BY <1>2, <2>2 DEF Create, TypeOK, HistoryTypeOK, history
<1>3. ASSUME NEW p \in Pods, Complete(p) \/ Delete(p) \/ Terminated(p)
      PROVE  ClusterTypeOK' /\ HistoryTypeOK'
  BY <1>3
  DEF Complete, Delete, Remove, Terminated, TypeOK, ClusterTypeOK, HistoryTypeOK, Phase, history
<1>4. CASE SetUnschedulable
  BY <1>1, <1>4 DEF SetUnschedulable, TypeOK, ClusterTypeOK, HistoryTypeOK
<1> QED BY <1>1, <1>2, <1>3, <1>4 DEF Environment, TypeOK

\* TypeOK is an invariant; in particular every drain that is done has answered
\* with an HTTP status, and no drain answers before.
THEOREM TypeCorrect == Spec => []TypeOK
<1>1. Init => TypeOK
  BY NumbersAssumption
  DEF Init, TypeOK, ClusterTypeOK, AnswerTypeOK, RequestTypeOK, HistoryTypeOK,
      NoAnswer, Answer, DrainCode, Phase, PC
<1>2. TypeOK /\ [Next]_vars => TypeOK'
  <2>1. TypeOK /\ UNCHANGED vars => TypeOK'
    BY DEF vars, TypeOK, ClusterTypeOK, AnswerTypeOK, RequestTypeOK, HistoryTypeOK
  <2> QED
    BY <2>1, AdmitType, CordonType, ListType, EvictType, WaitType, EnvironmentType
    DEF Next, DrainStep
<1> QED BY <1>1, <1>2, PTL DEF Spec
-----------------------------------------------------------------------------
(* The inductive invariant.  None of the four promises is inductive on its *)
(* own: what a 200 answer says rests on what the wait, the eviction loop,  *)
(* the listing and the cordon left behind, in turn.                        *)

\* What is known of one drain at each of its program points.
BeforeListing(d) == pc[d] \in {"admit", "cordon", "list"}
AfterListing(d) == pc[d] \in {"evict", "poll", "sleep"}

Permitted(d) ==
  \A p \in Pods \ (Mirror \cup DaemonSet) : listed[d][p] # 0 =>
    /\ p \in Unmanaged => options[d].force
    /\ p \in EmptyDir => options[d].delete_emptydir_data

ControlInv(d) ==
  /\ pc[d] # "done" => answer[d] = NoAnswer
  /\ BeforeListing(d) => pods_to_evict[d] = {} /\ removed[d] = {}
  /\ AfterListing(d) => blocked[d] = {} /\ Permitted(d)
  /\ pc[d] \in {"poll", "sleep"} => todo[d] = {}
  /\ todo[d] \subseteq pods_to_evict[d]
  /\ removed[d] # {} => Permitted(d)
  /\ \A r \in removed[d] : r[1] \in pods_to_evict[d]
  /\ answer[d].code = "OK" => todo[d] = {} /\ blocked[d] = {}

ListingInv(d) ==
  /\ \A p \in Pods : listed[d][p] <= uid[p]
  /\ \A p \in pods_to_evict[d] :
       /\ p \notin Mirror \cup DaemonSet
       /\ listed[d][p] # 0
       /\ uid[p] = listed[d][p] => here[p]

RemovalInv(d) ==
  /\ blocked[d] = {} => \A p \in pods_to_evict[d] \ todo[d] : StillThere(d, p) => deleting[p]
  /\ answer[d].code = "OK" =>
       \A p \in pods_to_evict[d] \ answer[d].still_terminating : ~StillThere(d, p)

CordonInv(d) ==
  ~uncordoned[d] =>
    /\ pc[d] = "list" \/ AfterListing(d) \/ answer[d].code = "OK" => unschedulable
    /\ AfterListing(d) => \A p \in Pods : OnNode(p) /\ ~Skipped(p) => p \in pods_to_evict[d]
    /\ answer[d].code = "OK" /\ answer[d].still_terminating = {} =>
         \A p \in Pods : OnNode(p) => Skipped(p)

DrainInv(d) == ControlInv(d) /\ ListingInv(d) /\ RemovalInv(d) /\ CordonInv(d)

IInv ==
  /\ \A p \in Pods : uid[p] = 0 => phase[p] = "absent"
  /\ \A d \in Drains : DrainInv(d)

-----------------------------------------------------------------------------
(* What a step may do to the cluster, as any drain that looks on sees it.  *)

\* The pod named p is the same or has gone, or a new one has taken its name.
SamePod(p) ==
  /\ uid'[p] = uid[p] /\ here'[p] = here[p]
  /\ phase'[p] # "absent" => phase[p] # "absent" /\ (deleting[p] => deleting'[p])
  /\ phase[p] = "completed" => phase'[p] \in {"completed", "absent"}

NewPod(p) ==
  /\ uid'[p] = uid[p] + 1 /\ phase[p] = "absent"
  /\ here'[p] => ~unschedulable \/ p \in Mirror \cup DaemonSet

PodsStep == \A p \in Pods : SamePod(p) \/ NewPod(p)

\* An uncordon is remembered by every drain that is not just cordoning.
FlagStep(d) ==
  /\ uncordoned[d] => uncordoned'[d]
  /\ unschedulable => unschedulable' \/ uncordoned'[d]

\* What drain d has read stays as it was.
Unread(d) ==
  /\ options'[d] = options[d] /\ listed'[d] = listed[d]
  /\ pods_to_evict'[d] = pods_to_evict[d] /\ blocked'[d] = blocked[d]

\* Drain d stands still, or ends with an error.
StandsOrFails(d) ==
  /\ Unread(d) /\ todo'[d] = todo[d]
  /\ \/ pc'[d] = pc[d] /\ answer'[d] = answer[d] /\ removed'[d] = removed[d]
     \/ /\ pc'[d] = "done" /\ pc[d] # "done" /\ answer'[d].code # "OK"
        /\ \/ removed'[d] = removed[d]
           \/ pc[d] = "evict" /\ \E p \in todo[d] : removed'[d] = removed[d] \cup {<<p, uid[p]>>}

LEMMA PodsUnchanged ==
  ASSUME UNCHANGED <<phase, deleting, uid, here>> PROVE PodsStep
  BY DEF PodsStep, SamePod

LEMMA RemovalStep ==
  ASSUME TypeOK, NEW d \in Drains, NEW p \in Pods, Remove(p), UNCHANGED <<uid, here>>
  PROVE  PodsStep
  BY DEF Remove, PodsStep, SamePod, TypeOK, ClusterTypeOK

\* What was listed stays true of the pods that are still there.
LEMMA ListingKept ==
  ASSUME TypeOK, NEW d \in Drains, ListingInv(d), PodsStep, Unread(d)
  PROVE  ListingInv(d)'
<1>1. \A p \in Pods : (uid'[p] = uid[p] /\ here'[p] = here[p]) \/ uid'[p] = uid[p] + 1
  BY DEF PodsStep, SamePod, NewPod
<1>2. \A p \in Pods : uid[p] \in Nat /\ listed[d][p] \in Nat
  BY DEF TypeOK, ClusterTypeOK, HistoryTypeOK
<1>3. pods_to_evict[d] \subseteq Pods
  BY DEF TypeOK, RequestTypeOK
<1> QED BY <1>1, <1>2, <1>3 DEF ListingInv, Unread

\* A pod that is no longer the listed one, or gone, never comes back.
LEMMA NotStillThereKept ==
  ASSUME TypeOK, NEW d \in Drains, ListingInv(d), PodsStep, listed'[d] = listed[d]
  PROVE  \A p \in Pods : StillThere(d, p)' => StillThere(d, p) /\ (deleting[p] => deleting'[p])
<1> TAKE p \in Pods
<1>1. uid[p] \in Nat /\ listed[d][p] \in Nat /\ listed[d][p] <= uid[p]
  BY DEF TypeOK, ClusterTypeOK, HistoryTypeOK, ListingInv
<1>2. CASE SamePod(p)
  BY <1>2 DEF SamePod, StillThere
<1>3. CASE NewPod(p)
  BY <1>1, <1>3 DEF NewPod, StillThere
<1> QED BY <1>2, <1>3 DEF PodsStep

\* No pod a drain could remove appears on a node that stays cordoned.
LEMMA NothingBound ==
  ASSUME TypeOK, PodsStep, unschedulable, NEW p \in Pods, OnNode(p)', ~Skipped(p)'
  PROVE  OnNode(p) /\ ~Skipped(p)
<1>1. CASE SamePod(p)
  BY <1>1 DEF SamePod, OnNode, Skipped
<1>2. CASE NewPod(p)
  BY <1>2 DEF NewPod, OnNode, Skipped
<1> QED BY <1>1, <1>2 DEF PodsStep

-----------------------------------------------------------------------------
(* A drain that stands still, or ends with an error, keeps its invariant   *)
(* whatever the step does to the cluster.                                  *)

LEMMA StandsOrFailsControl ==
  ASSUME TypeOK, NEW d \in Drains, ControlInv(d), StandsOrFails(d)
  PROVE  ControlInv(d)'
<1>1. Permitted(d) => Permitted(d)'
  BY DEF Permitted, StandsOrFails, Unread
<1>2. CASE pc'[d] = pc[d] /\ answer'[d] = answer[d] /\ removed'[d] = removed[d]
  BY <1>1, <1>2 DEF ControlInv, StandsOrFails, Unread, BeforeListing, AfterListing
<1>3. CASE /\ pc'[d] = "done" /\ pc[d] # "done" /\ answer'[d].code # "OK"
           /\ removed'[d] = removed[d]
  BY <1>1, <1>3 DEF ControlInv, StandsOrFails, Unread, BeforeListing, AfterListing
<1>4. CASE /\ pc'[d] = "done" /\ pc[d] = "evict" /\ answer'[d].code # "OK"
           /\ \E p \in todo[d] : removed'[d] = removed[d] \cup {<<p, uid[p]>>}
  BY <1>1, <1>4 DEF ControlInv, StandsOrFails, Unread, BeforeListing, AfterListing
<1> QED BY <1>2, <1>3, <1>4 DEF StandsOrFails

LEMMA StandsOrFailsKeeps ==
  ASSUME TypeOK, NEW d \in Drains, DrainInv(d), PodsStep, FlagStep(d), StandsOrFails(d)
  PROVE  DrainInv(d)'
<1>t. pods_to_evict[d] \subseteq Pods
  BY DEF TypeOK, RequestTypeOK
<1>1. ControlInv(d)'
  BY StandsOrFailsControl DEF DrainInv
<1>2. ListingInv(d)'
  BY ListingKept DEF DrainInv, StandsOrFails
<1>3. RemovalInv(d)'
  <2>1. \A p \in Pods : StillThere(d, p)' => StillThere(d, p) /\ (deleting[p] => deleting'[p])
    BY NotStillThereKept DEF DrainInv, StandsOrFails, Unread
  <2> QED BY <1>t, <2>1 DEF DrainInv, RemovalInv, StandsOrFails, Unread
<1>4. CordonInv(d)'
  <2> SUFFICES ASSUME ~uncordoned'[d] PROVE CordonInv(d)'
    BY DEF CordonInv
  <2>1. ~uncordoned[d] /\ (unschedulable => unschedulable')
    BY DEF FlagStep
  <2>2. \/ pc'[d] = pc[d] /\ answer'[d] = answer[d]
        \/ pc'[d] = "done" /\ answer'[d].code # "OK"
    BY DEF StandsOrFails
  <2>3. unschedulable => \A p \in Pods : OnNode(p)' /\ ~Skipped(p)' => OnNode(p) /\ ~Skipped(p)
    BY NothingBound
  <2>4. CASE pc'[d] = "done" /\ answer'[d].code # "OK"
    BY <2>4 DEF CordonInv, AfterListing
  <2>5. CASE pc'[d] = pc[d] /\ answer'[d] = answer[d]
    BY <2>1, <2>3, <2>5 DEF DrainInv, CordonInv, AfterListing, StandsOrFails, Unread
  <2> QED BY <2>2, <2>4, <2>5
<1> QED BY <1>1, <1>2, <1>3, <1>4 DEF DrainInv
-----------------------------------------------------------------------------
(* The drain that takes the step, one lemma per action.                    *)

LEMMA RaiseEnds ==
  ASSUME TypeOK, NEW d \in Drains, NEW exc, Raise(d, exc)
  PROVE  pc'[d] = "done" /\ answer'[d].code = exc.code
  BY DEF TypeOK, AnswerTypeOK, Raise, Respond, Answer

LEMMA RespondEnds ==
  ASSUME TypeOK, NEW d \in Drains, NEW a, Respond(d, a)
  PROVE  pc'[d] = "done" /\ answer'[d] = a
  BY DEF TypeOK, AnswerTypeOK, Respond

LEMMA GoesOn ==
  ASSUME TypeOK, NEW d \in Drains, NEW l, Goto(d, l)
  PROVE  pc'[d] = l /\ answer'[d] = answer[d]
  BY DEF TypeOK, AnswerTypeOK, Goto

LEMMA AdmitInv ==
  ASSUME TypeOK, NEW d \in Drains, DrainInv(d), Admit(d) PROVE DrainInv(d)'
<1>1. PodsStep /\ FlagStep(d) /\ Unread(d) /\ todo'[d] = todo[d] /\ removed'[d] = removed[d]
  BY PodsUnchanged DEF Admit, cluster, history, FlagStep, Unread
<1>2. CASE pc'[d] = "done" /\ answer'[d].code # "OK"
  BY <1>1, <1>2, StandsOrFailsKeeps DEF StandsOrFails, Admit
<1>3. CASE Goto(d, "cordon")
  <2>1. pc[d] = "admit" /\ pc'[d] = "cordon" /\ answer'[d] = answer[d]
    BY <1>3, GoesOn DEF Admit
  <2>2. answer[d].code # "OK"
    BY <2>1 DEF DrainInv, ControlInv, NoAnswer, Answer
  <2>3. ControlInv(d)'
    BY <1>1, <2>1, <2>2
    DEF DrainInv, ControlInv, BeforeListing, AfterListing, Permitted, Unread
  <2>4. ListingInv(d)'
    BY <1>1, ListingKept DEF DrainInv
  <2>5. RemovalInv(d)'
    BY <1>1, <2>1, <2>2 DEF DrainInv, ControlInv, BeforeListing, RemovalInv, Unread
  <2>6. CordonInv(d)'
    BY <2>1, <2>2 DEF CordonInv, AfterListing
  <2> QED BY <2>3, <2>4, <2>5, <2>6 DEF DrainInv
<1> QED
  <2>1. \A exc \in PolicyErrors \cup ResolveErrors : exc.code # "OK"
    BY DEF PolicyErrors, PolicyDenied, UsersFileInvalid, ResolveErrors, AppException,
           KubeApiException
  <2> QED BY <1>2, <1>3, <2>1, RaiseEnds, RespondEnds DEF Admit, Answer

LEMMA CordonKeeps ==
  ASSUME TypeOK, NEW d \in Drains, DrainInv(d), Cordon(d) PROVE DrainInv(d)'
<1>1. PodsStep /\ Unread(d) /\ todo'[d] = todo[d] /\ removed'[d] = removed[d]
  BY PodsUnchanged DEF Cordon, Unread
<1>2. CASE CordonFailed(d)
  <2>1. FlagStep(d)
    BY <1>2 DEF CordonFailed, FlagStep
  <2>2. pc'[d] = "done" /\ answer'[d].code # "OK"
    <3> PICK e \in SdkErrors(ErrorStatus) : Raise(d, TranslateOn(e, NodeNotFound))
      BY <1>2 DEF CordonFailed
    <3>1. TranslateOn(e, NodeNotFound).code # "OK"
      BY TranslatedType DEF ErrorCode
    <3> QED BY <3>1, RaiseEnds
  <2> QED BY <1>1, <2>1, <2>2, StandsOrFailsKeeps DEF StandsOrFails, Cordon
<1>3. CASE Cordoned(d)
  <2>1. pc[d] = "cordon" /\ pc'[d] = "list" /\ answer'[d] = answer[d] /\ unschedulable'
    BY <1>3, GoesOn DEF Cordon, Cordoned
  <2>2. answer[d].code # "OK"
    BY <2>1 DEF DrainInv, ControlInv, NoAnswer, Answer
  <2>3. ControlInv(d)'
    BY <1>1, <2>1, <2>2
    DEF DrainInv, ControlInv, BeforeListing, AfterListing, Permitted, Unread
  <2>4. ListingInv(d)'
    BY <1>1, ListingKept DEF DrainInv
  <2>5. RemovalInv(d)'
    BY <1>1, <2>1, <2>2 DEF DrainInv, ControlInv, BeforeListing, RemovalInv, Unread
  <2>6. CordonInv(d)'
    BY <2>1, <2>2 DEF CordonInv, AfterListing
  <2> QED BY <2>3, <2>4, <2>5, <2>6 DEF DrainInv
<1> QED BY <1>2, <1>3 DEF Cordon

\* Classify lets a pod through to pods_to_evict only if the options permit it,
\* and one pod they do not permit keeps every other from being removed.
LEMMA ListKeeps ==
  ASSUME TypeOK, NEW d \in Drains, DrainInv(d), List(d),
         \A p \in Pods : uid[p] = 0 => phase[p] = "absent"
  PROVE  DrainInv(d)'
<1>1. PodsStep /\ FlagStep(d) /\ removed'[d] = removed[d] /\ options'[d] = options[d]
      /\ pc[d] = "list" /\ answer[d].code # "OK" /\ removed[d] = {}
  BY PodsUnchanged
  DEF List, cluster, FlagStep, DrainInv, ControlInv, BeforeListing, NoAnswer, Answer
<1>2. CASE UNCHANGED <<pods_to_evict, blocked, todo, listed>>
           /\ \E e \in SdkErrors(ErrorStatus) : Raise(d, Translate(e))
  <2>1. pc'[d] = "done" /\ answer'[d].code # "OK"
    <3> PICK e \in SdkErrors(ErrorStatus) : Raise(d, Translate(e))
      BY <1>2
    <3>1. Translate(e).code # "OK"
      BY TranslatedType DEF ErrorCode
    <3> QED BY <3>1, RaiseEnds
  <2> QED BY <1>1, <1>2, <2>1, StandsOrFailsKeeps DEF StandsOrFails, Unread
<1>3. CASE /\ Classify(d)
           /\ listed' = [listed EXCEPT ![d] =
                           [p \in Pods |-> IF OnNode(p) /\ phase[p] # "completed"
                                          THEN uid[p] ELSE 0]]
  <2> DEFINE candidates == {p \in Pods : OnNode(p) /\ ~Skipped(p)}
             refused == {p \in candidates : Blocks(options[d], p)}
  <2>1. pods_to_evict'[d] = candidates \ refused /\ blocked'[d] = refused
    BY <1>3 DEF Classify, TypeOK, RequestTypeOK
  <2>2. \A p \in Pods : listed'[d][p] = IF OnNode(p) /\ phase[p] # "completed"
                                        THEN uid[p] ELSE 0
    BY <1>3 DEF TypeOK, HistoryTypeOK
  <2>3. UNCHANGED <<unschedulable, phase, deleting, uid, here>>
    BY DEF List, cluster
  <2>4. \/ /\ refused # {} /\ pc'[d] = "done" /\ answer'[d].code # "OK"
           /\ todo'[d] = todo[d] /\ todo[d] = {}
        \/ /\ refused = {} /\ pc'[d] = "evict" /\ answer'[d] = answer[d] /\ answer[d] = NoAnswer
           /\ todo'[d] = candidates
    <3>1. CASE refused # {}
      <4>1. Respond(d, Answer("DRAIN_BLOCKED", 400, {})) /\ UNCHANGED todo
        BY <1>3, <3>1 DEF Classify
      <4>2. todo[d] = {}
        BY <1>1 DEF DrainInv, ControlInv, BeforeListing
      <4> QED BY <3>1, <4>1, <4>2, RespondEnds DEF Answer
    <3>2. CASE refused = {}
      <4>1. Goto(d, "evict") /\ todo' = [todo EXCEPT ![d] = candidates]
        BY <1>3, <3>2 DEF Classify
      <4>2. answer[d] = NoAnswer
        BY <1>1 DEF DrainInv, ControlInv
      <4> QED BY <3>2, <4>1, <4>2, GoesOn DEF TypeOK, RequestTypeOK
    <3> QED BY <3>1, <3>2
  <2>5. refused = {} => Permitted(d)'
    BY <1>1, <2>2 DEF Permitted, Blocks, Skipped
  <2>6. ControlInv(d)'
    BY <1>1, <2>1, <2>4, <2>5 DEF ControlInv, BeforeListing, AfterListing, NoAnswer, Answer
  <2>7. ListingInv(d)'
    <3>1. \A p \in Pods : uid[p] \in Nat
      BY DEF TypeOK, ClusterTypeOK
    <3> QED BY <2>1, <2>2, <2>3, <3>1 DEF ListingInv, OnNode, Skipped
  <2>8. RemovalInv(d)'
    BY <1>1, <2>1, <2>4 DEF RemovalInv, NoAnswer, Answer
  <2>9. CordonInv(d)'
    <3>1. unschedulable \/ uncordoned'[d]
      BY <1>1 DEF DrainInv, CordonInv, List
    <3>2. pc'[d] = "evict" =>
            \A p \in Pods : OnNode(p)' /\ ~Skipped(p)' => p \in pods_to_evict'[d]
      BY <2>1, <2>3, <2>4 DEF OnNode, Skipped
    <3> QED BY <1>1, <2>3, <2>4, <3>1, <3>2 DEF CordonInv, AfterListing, NoAnswer, Answer
  <2> QED BY <2>6, <2>7, <2>8, <2>9 DEF DrainInv
<1> QED BY <1>2, <1>3 DEF List
\* Going on after one pod of the loop: it is gone, or it is going.
LEMMA EvictedOne ==
  ASSUME TypeOK, NEW d \in Drains, DrainInv(d), NEW p \in todo[d], pc[d] = "evict",
         PodsStep, UNCHANGED unschedulable, uncordoned'[d] = uncordoned[d], Unread(d),
         todo' = [todo EXCEPT ![d] = @ \ {p}], Goto(d, "evict"),
         phase'[p] # "absent" => deleting'[p],
         removed'[d] \subseteq removed[d] \cup {<<p, uid[p]>>}
  PROVE  DrainInv(d)'
<1>t. p \in Pods /\ pods_to_evict[d] \subseteq Pods
  BY DEF TypeOK, RequestTypeOK
<1>1. pc'[d] = pc[d] /\ answer'[d] = answer[d] /\ answer[d] = NoAnswer
  BY GoesOn DEF DrainInv, ControlInv
<1>2. todo'[d] = todo[d] \ {p}
  BY DEF TypeOK, RequestTypeOK
<1>3. ControlInv(d)'
  <2>1. Permitted(d) /\ Permitted(d)'
    BY DEF DrainInv, ControlInv, AfterListing, Permitted, Unread
  <2>2. \A r \in removed'[d] : r[1] \in pods_to_evict[d]
    BY DEF DrainInv, ControlInv
  <2> QED
    BY <1>1, <1>2, <2>1, <2>2
    DEF DrainInv, ControlInv, BeforeListing, AfterListing, Unread, NoAnswer, Answer
<1>4. ListingInv(d)'
  BY ListingKept DEF DrainInv
<1>5. RemovalInv(d)'
  <2>1. \A q \in Pods : StillThere(d, q)' => StillThere(d, q) /\ (deleting[q] => deleting'[q])
    BY NotStillThereKept DEF DrainInv, Unread
  <2>2. StillThere(d, p)' => deleting'[p]
    BY DEF StillThere
  <2> QED
    BY <1>t, <1>1, <1>2, <2>1, <2>2 DEF DrainInv, RemovalInv, Unread, NoAnswer, Answer
<1>6. CordonInv(d)'
  <2>1. unschedulable => \A q \in Pods : OnNode(q)' /\ ~Skipped(q)' => OnNode(q) /\ ~Skipped(q)
    BY NothingBound
  <2> QED
    BY <1>1, <2>1 DEF DrainInv, CordonInv, AfterListing, Unread, NoAnswer, Answer
<1> QED BY <1>3, <1>4, <1>5, <1>6 DEF DrainInv

LEMMA EvictKeeps ==
  ASSUME TypeOK, NEW d \in Drains, DrainInv(d), Evict(d) PROVE DrainInv(d)'
<1> PICK p \in todo[d] : EvictAccepted(d, p) \/ EvictAlreadyGone(d, p)
                           \/ BudgetRefuses(d, p) \/ EvictFailed(d, p)
  BY DEF Evict
<1>t. p \in Pods /\ pc[d] = "evict"
  BY DEF Evict, TypeOK, RequestTypeOK
<1>1. Unread(d) /\ FlagStep(d) /\ UNCHANGED unschedulable /\ uncordoned'[d] = uncordoned[d]
  BY DEF Evict, Unread, FlagStep
<1>2. StartRemoval(d, p) => /\ PodsStep /\ (phase'[p] # "absent" => deleting'[p])
                            /\ \/ removed'[d] = removed[d]
                               \/ removed'[d] = removed[d] \cup {<<p, uid[p]>>}
  <2>1. Remove(p) => PodsStep
    BY <1>t, RemovalStep DEF Evict
  <2> QED
    BY <1>t, <2>1
    DEF StartRemoval, Remove, TypeOK, ClusterTypeOK, HistoryTypeOK
<1>3. UNCHANGED <<phase, deleting, removed>> => PodsStep /\ removed'[d] = removed[d]
  BY PodsUnchanged DEF Evict
<1>4. CASE EvictAccepted(d, p)
  BY <1>t, <1>1, <1>2, <1>4, EvictedOne DEF EvictAccepted
<1>5. CASE EvictAlreadyGone(d, p)
  BY <1>t, <1>1, <1>3, <1>5, EvictedOne DEF EvictAlreadyGone
<1>6. CASE BudgetRefuses(d, p)
  <2>1. pc'[d] = "done" /\ answer'[d].code # "OK"
    BY <1>6, RaiseEnds DEF BudgetRefuses, KubeApiException
  <2> QED
    BY <1>t, <1>1, <1>3, <1>6, <2>1, StandsOrFailsKeeps DEF StandsOrFails, BudgetRefuses
<1>7. CASE EvictFailed(d, p)
  <2> PICK e \in SdkErrors(OtherStatus(d)) :
             /\ \/ UNCHANGED <<phase, deleting, removed>>
                \/ MayHaveApplied(e) /\ StartRemoval(d, p)
             /\ Raise(d, Translate(e))
             /\ UNCHANGED todo
    BY <1>7 DEF EvictFailed
  <2>1. pc'[d] = "done" /\ answer'[d].code # "OK"
    <3>1. e \in SdkErrors(ErrorStatus)
      BY DEF SdkErrors, OtherStatus
    <3>2. Translate(e).code # "OK"
      BY <3>1, TranslatedType DEF ErrorCode
    <3> QED BY <3>2, RaiseEnds
  <2> QED
    BY <1>t, <1>1, <1>2, <1>3, <2>1, StandsOrFailsKeeps DEF StandsOrFails
<1> QED BY <1>4, <1>5, <1>6, <1>7

\* In the wait the pods and the requests' reading of them do not change; what
\* is left to show is what holds when the wait answers 200.
LEMMA WaitStepKeeps ==
  ASSUME TypeOK, NEW d \in Drains, DrainInv(d), AfterListing(d), todo[d] = {},
         UNCHANGED <<cluster, options, pods_to_evict, blocked, todo, history>>,
         \/ pc'[d] \in {"poll", "sleep"} /\ answer'[d] = answer[d]
         \/ pc'[d] = "done" /\ answer'[d] = Answer("OK", 200, StillPresent(d))
  PROVE  DrainInv(d)'
<1>1. answer[d] = NoAnswer /\ blocked[d] = {} /\ Permitted(d) /\ Permitted(d)'
  BY DEF DrainInv, ControlInv, AfterListing, Permitted, history
<1>2. ControlInv(d)'
  BY <1>1 DEF DrainInv, ControlInv, BeforeListing, AfterListing, history, NoAnswer, Answer
<1>3. ListingInv(d)'
  BY ListingKept, PodsUnchanged DEF DrainInv, Unread, cluster, history
<1>4. RemovalInv(d)'
  <2>1. \A p \in Pods : StillThere(d, p)' => StillThere(d, p)
    BY DEF StillThere, cluster, history
  <2>2. \A p \in pods_to_evict[d] \ StillPresent(d) : ~StillThere(d, p)
    BY DEF StillPresent, StillThere, OnNode, DrainInv, ListingInv
  <2> QED
    BY <1>1, <2>1, <2>2
    DEF DrainInv, RemovalInv, cluster, history, NoAnswer, Answer, TypeOK, RequestTypeOK
<1>5. CordonInv(d)'
  <2> SUFFICES ASSUME ~uncordoned[d] PROVE CordonInv(d)'
    BY DEF CordonInv, history
  <2>1. unschedulable /\ \A p \in Pods : OnNode(p) /\ ~Skipped(p) => p \in pods_to_evict[d]
    BY DEF DrainInv, CordonInv, AfterListing
  <2>2. \A p \in Pods : (OnNode(p)' <=> OnNode(p)) /\ (Skipped(p)' <=> Skipped(p))
    BY DEF OnNode, Skipped, cluster
  <2>3. StillPresent(d) = {} => \A p \in pods_to_evict[d] : ~OnNode(p)
    BY DEF StillPresent
  <2> QED
    BY <1>1, <2>1, <2>2, <2>3 DEF CordonInv, AfterListing, cluster, history, NoAnswer, Answer
<1> QED BY <1>2, <1>3, <1>4, <1>5 DEF DrainInv

LEMMA StartWaitKeeps ==
  ASSUME TypeOK, NEW d \in Drains, DrainInv(d), StartWait(d) PROVE DrainInv(d)'
<1>1. CASE pods_to_evict[d] = {}
  <2>1. StillPresent(d) = {}
    BY <1>1 DEF StillPresent
  <2> QED BY <1>1, <2>1, RespondEnds, WaitStepKeeps DEF StartWait, AfterListing
<1>2. CASE pods_to_evict[d] # {}
  BY <1>2, GoesOn, WaitStepKeeps DEF StartWait, AfterListing
<1> QED BY <1>1, <1>2

LEMMA PollKeeps ==
  ASSUME TypeOK, NEW d \in Drains, DrainInv(d), Poll(d) PROVE DrainInv(d)'
<1>1. AfterListing(d) /\ todo[d] = {}
  BY DEF Poll, AfterListing, DrainInv, ControlInv
<1>2. CASE PollAnswered(d)
  BY <1>1, <1>2, RespondEnds, GoesOn, WaitStepKeeps DEF Poll, PollAnswered
<1>3. CASE \E e \in SdkErrors(ErrorStatus) : Raise(d, Translate(e))
  <2> PICK e \in SdkErrors(ErrorStatus) : Raise(d, Translate(e))
    BY <1>3
  <2>1. pc'[d] = "done" /\ answer'[d].code # "OK"
    BY TranslatedType, RaiseEnds DEF ErrorCode
  <2>2. PodsStep /\ FlagStep(d) /\ Unread(d) /\ todo'[d] = todo[d] /\ removed'[d] = removed[d]
    BY PodsUnchanged DEF Poll, cluster, history, FlagStep, Unread
  <2> QED BY <2>1, <2>2, StandsOrFailsKeeps DEF StandsOrFails, Poll
<1> QED BY <1>2, <1>3 DEF Poll

LEMMA SleepKeeps ==
  ASSUME TypeOK, NEW d \in Drains, DrainInv(d), Sleep(d) PROVE DrainInv(d)'
  BY GoesOn, WaitStepKeeps DEF Sleep, AfterListing, DrainInv, ControlInv
-----------------------------------------------------------------------------
(* The whole step.                                                         *)

\* A step of one drain is, for every other drain, a move of the cluster.
LEMMA DrainStepKeeps ==
  ASSUME TypeOK, IInv, NEW d \in Drains, DrainStep(d)
  PROVE  IInv'
<1>1. DrainInv(d)'
  BY AdmitInv, CordonKeeps, ListKeeps, EvictKeeps, StartWaitKeeps, PollKeeps, SleepKeeps
  DEF DrainStep, IInv
<1>2. /\ PodsStep /\ UNCHANGED uid /\ (unschedulable => unschedulable')
      /\ \A q \in Drains \ {d} : Unread(q) /\ todo'[q] = todo[q] /\ pc'[q] = pc[q]
           /\ answer'[q] = answer[q] /\ removed'[q] = removed[q] /\ uncordoned'[q] = uncordoned[q]
  <2>1. CASE Admit(d)
    BY <2>1, PodsUnchanged
    DEF Admit, Raise, Respond, Goto, Unread, cluster, history, TypeOK, AnswerTypeOK
  <2>2. CASE Cordon(d)
    BY <2>2, PodsUnchanged
    DEF Cordon, Cordoned, CordonFailed, Raise, Respond, Goto, Unread, TypeOK, AnswerTypeOK,
        HistoryTypeOK
  <2>3. CASE List(d)
    <3>1. PodsStep
      BY <2>3, PodsUnchanged DEF List, cluster
    <3> QED
      BY <2>3, <3>1
      DEF List, Classify, Raise, Respond, Goto, Unread, cluster, TypeOK, AnswerTypeOK,
          RequestTypeOK, HistoryTypeOK
  <2>4. CASE Evict(d)
    <3> PICK p \in todo[d] : EvictAccepted(d, p) \/ EvictAlreadyGone(d, p)
                               \/ BudgetRefuses(d, p) \/ EvictFailed(d, p)
      BY <2>4 DEF Evict
    <3>1. p \in Pods /\ UNCHANGED <<unschedulable, uid, here>>
      BY <2>4 DEF Evict, TypeOK, RequestTypeOK
    <3>2. UNCHANGED <<phase, deleting, removed>> \/ StartRemoval(d, p)
      BY DEF EvictAccepted, EvictAlreadyGone, BudgetRefuses, EvictFailed
    <3>3. PodsStep
      BY <3>1, <3>2, PodsUnchanged, RemovalStep DEF StartRemoval
    <3>4. \A q \in Drains \ {d} : removed'[q] = removed[q]
      BY <3>2 DEF StartRemoval, TypeOK, HistoryTypeOK
    <3>5. \A q \in Drains \ {d} : todo'[q] = todo[q] /\ pc'[q] = pc[q] /\ answer'[q] = answer[q]
      <4>1. todo' = [todo EXCEPT ![d] = @ \ {p}] \/ UNCHANGED todo
        BY DEF EvictAccepted, EvictAlreadyGone, BudgetRefuses, EvictFailed
      <4>2. Goto(d, "evict") \/ \E a : Respond(d, a)
        BY DEF EvictAccepted, EvictAlreadyGone, BudgetRefuses, EvictFailed, Raise
      <4> QED
        BY <4>1, <4>2 DEF Respond, Goto, TypeOK, AnswerTypeOK, RequestTypeOK
    <3> QED BY <2>4, <3>1, <3>3, <3>4, <3>5 DEF Evict, Unread
  <2>5. CASE StartWait(d) \/ Poll(d) \/ Sleep(d)
    <3>1. PodsStep
      BY <2>5, PodsUnchanged DEF StartWait, Poll, Sleep, cluster
    <3> QED
      BY <2>5, <3>1
      DEF StartWait, Poll, PollAnswered, Sleep, Raise, Respond, Goto, Unread, cluster, history,
          TypeOK, AnswerTypeOK
  <2> QED BY <2>1, <2>2, <2>3, <2>4, <2>5 DEF DrainStep
<1>3. \A q \in Drains \ {d} : DrainInv(q)'
  BY <1>2, StandsOrFailsKeeps DEF IInv, StandsOrFails, FlagStep
<1>4. \A p \in Pods : uid'[p] = 0 => phase'[p] = "absent"
  <2>1. \A p \in Pods : uid[p] \in Nat
    BY DEF TypeOK, ClusterTypeOK
  <2> QED BY <1>2, <2>1 DEF IInv, PodsStep, SamePod, NewPod
<1> QED BY <1>1, <1>3, <1>4 DEF IInv

LEMMA EnvironmentKeeps ==
  ASSUME TypeOK, IInv, Environment PROVE IInv'
<1>1. /\ PodsStep /\ \A p \in Pods : uid'[p] = 0 => phase'[p] = "absent"
      /\ \A d \in Drains : FlagStep(d)
  <2>t. \A p \in Pods : uid[p] \in Nat
    BY DEF TypeOK, ClusterTypeOK
  <2>1. ASSUME NEW p \in Pods, Create(p)
        PROVE  /\ PodsStep /\ \A q \in Pods : uid'[q] = 0 => phase'[q] = "absent"
    BY <2>t, <2>1 DEF Create, PodsStep, SamePod, NewPod, IInv, TypeOK, ClusterTypeOK
  <2>2. ASSUME NEW p \in Pods, Complete(p) \/ Delete(p) \/ Terminated(p)
        PROVE  /\ PodsStep /\ \A q \in Pods : uid'[q] = 0 => phase'[q] = "absent"
    BY <2>2
    DEF Complete, Delete, Remove, Terminated, PodsStep, SamePod, IInv, TypeOK, ClusterTypeOK
  <2>3. ASSUME NEW p \in Pods, Create(p) \/ Complete(p) \/ Delete(p) \/ Terminated(p)
        PROVE  \A d \in Drains : FlagStep(d)
    BY <2>3 DEF Create, Complete, Delete, Terminated, history, FlagStep
  <2>4. CASE SetUnschedulable
    BY <2>4, PodsUnchanged DEF SetUnschedulable, FlagStep, IInv
  <2> QED BY <2>1, <2>2, <2>3, <2>4 DEF Environment
<1>2. \A d \in Drains : StandsOrFails(d)
  BY DEF Environment, Create, Complete, Delete, Terminated, SetUnschedulable, requests, history,
         StandsOrFails, Unread
<1> QED BY <1>1, <1>2, StandsOrFailsKeeps DEF IInv

\* The strengthened invariant: what is known of every drain at each of its
\* program points survives every step of every other drain and of the cluster.
THEOREM Inductive == Spec => []IInv
<1>1. Init => IInv
  <2> SUFFICES ASSUME Init PROVE IInv
    OBVIOUS
  <2>1. \A p \in Pods : uid[p] \in {0, 1} /\ (uid[p] = 0 => phase[p] = "absent")
    BY DEF Init
  <2>2. ASSUME NEW d \in Drains PROVE DrainInv(d)
    BY <2>1
    DEF Init, DrainInv, ControlInv, ListingInv, RemovalInv, CordonInv, BeforeListing,
        AfterListing, NoAnswer, Answer
  <2> QED BY <2>1, <2>2 DEF IInv
<1>2. TypeOK /\ IInv /\ [Next]_vars => IInv'
  <2>1. TypeOK /\ IInv /\ UNCHANGED vars => IInv'
    <3> SUFFICES ASSUME TypeOK, IInv, UNCHANGED vars PROVE IInv'
      OBVIOUS
    <3>1. PodsStep /\ \A d \in Drains : FlagStep(d) /\ StandsOrFails(d)
      BY PodsUnchanged DEF vars, FlagStep, StandsOrFails, Unread
    <3>2. \A p \in Pods : uid'[p] = 0 => phase'[p] = "absent"
      BY DEF vars, IInv
    <3> QED BY <3>1, <3>2, StandsOrFailsKeeps DEF IInv
  <2> QED BY <2>1, DrainStepKeeps, EnvironmentKeeps DEF Next
<1> QED BY <1>1, <1>2, TypeCorrect, PTL DEF Spec

-----------------------------------------------------------------------------
(* The promises of a drain.                                                *)

\* A 200 answer accounts for every pod it targeted.
THEOREM DrainedIsGone == Spec => []NodeEmptied
<1>1. IInv => NodeEmptied
  BY DEF IInv, DrainInv, RemovalInv, NodeEmptied
<1> QED BY <1>1, Inductive, PTL

\* No drain passes over a pod whose removal was not accepted.
THEOREM NoPodPassedOver == Spec => []AcceptedIsGoing
<1>1. IInv => AcceptedIsGoing
  BY DEF IInv, DrainInv, RemovalInv, AcceptedIsGoing
<1> QED BY <1>1, Inductive, PTL

\* Nothing is removed that the options do not permit, nor beside a pod they do
\* not permit.
THEOREM OptionsRespected == Spec => []DrainRespectsOptions
<1>1. IInv => DrainRespectsOptions
  <2> SUFFICES ASSUME IInv, NEW d \in Drains, removed[d] # {}
               PROVE  /\ Permitted(d)
                      /\ \A r \in removed[d] : r[1] \notin Mirror \cup DaemonSet
                                               /\ listed[d][r[1]] # 0
    BY DEF DrainRespectsOptions, Permitted
  <2> QED BY DEF IInv, DrainInv, ControlInv, ListingInv
<1> QED BY <1>1, Inductive, PTL

\* Cordoning first keeps an emptied node empty until someone uncordons it.
THEOREM EmptyUntilUncordoned == Spec => []EmptiedStaysEmpty
<1>1. IInv => EmptiedStaysEmpty
  BY DEF IInv, DrainInv, CordonInv, EmptiedStaysEmpty
<1> QED BY <1>1, Inductive, PTL

\* A pod on another node is removed only as the namesake of a listed one.
THEOREM OnlyNamesakesStray == Spec => StraysAreNamesakes
<1> DEFINE A == \A d \in Drains : \A p \in Pods :
                  <<p, uid[p]>> \in removed'[d] \ removed[d] /\ ~here[p] =>
                    listed[d][p] # 0 /\ listed[d][p] < uid[p]
<1>1. TypeOK /\ IInv /\ [Next]_vars => [A]_vars
  <2> SUFFICES ASSUME TypeOK, IInv, Next, NEW d \in Drains, NEW p \in Pods,
                      <<p, uid[p]>> \in removed'[d] \ removed[d], ~here[p]
               PROVE  listed[d][p] # 0 /\ listed[d][p] < uid[p]
    OBVIOUS
  <2>1. removed' # removed
    OBVIOUS
  <2>2. PICK e \in Drains : Evict(e)
    BY <2>1
    DEF Next, Environment, Create, Complete, Delete, Terminated, SetUnschedulable, history,
        DrainStep, Admit, Cordon, List, StartWait, Poll, Sleep
  <2>3. PICK q \in todo[e] : \/ EvictAccepted(e, q) \/ EvictAlreadyGone(e, q)
                             \/ BudgetRefuses(e, q) \/ EvictFailed(e, q)
    BY <2>2 DEF Evict
  <2>4. StartRemoval(e, q)
    BY <2>1, <2>3 DEF EvictAccepted, EvictAlreadyGone, BudgetRefuses, EvictFailed
  <2>5. d = e /\ p = q
    BY <2>4 DEF StartRemoval, TypeOK, HistoryTypeOK
  <2>6. p \in pods_to_evict[d] /\ ListingInv(d)
    BY <2>3, <2>5 DEF IInv, DrainInv, ControlInv
  <2>7. uid[p] \in Nat /\ listed[d][p] \in Nat
    BY DEF TypeOK, ClusterTypeOK, HistoryTypeOK
  <2> QED BY <2>6, <2>7 DEF ListingInv
<1> QED BY <1>1, TypeCorrect, Inductive, PTL DEF Spec, StraysAreNamesakes

-----------------------------------------------------------------------------
(* The wait budget, which needs nothing of the cluster.                    *)

WaitInv(d) ==
  /\ pc[d] = "poll" => elapsed[d] < Budget + PollSeconds
  /\ pc[d] = "sleep" => elapsed[d] < Budget
  /\ elapsed[d] < Budget + PollSeconds + MaxCall
  /\ answer[d].still_terminating # {} => pc[d] = "done" /\ elapsed[d] >= Budget

\* Outside the wait a step answers without leftovers and leaves the clock alone.
LEMMA WaitUntouched ==
  ASSUME TypeOK, NEW d \in Drains, WaitInv(d), elapsed'[d] = elapsed[d],
         \/ pc'[d] = pc[d] /\ answer'[d] = answer[d]
         \/ pc'[d] \notin {"poll", "sleep"} /\ pc[d] # "done"
              /\ answer'[d].still_terminating \in {{}, answer[d].still_terminating}
  PROVE  WaitInv(d)'
  BY DEF WaitInv

\* Up to the wait a step goes on, or answers without leftovers.
LEMMA BeforeWait ==
  ASSUME NEW d \in Drains, Admit(d) \/ Cordon(d) \/ List(d) \/ Evict(d)
  PROVE  \/ \E l \in {"cordon", "list", "evict"} : Goto(d, l)
         \/ \E code, http : Respond(d, Answer(code, http, {}))
<1>r. ASSUME NEW exc, Raise(d, exc) PROVE \E code, http : Respond(d, Answer(code, http, {}))
  BY <1>r DEF Raise
<1>1. CASE Admit(d)
  BY <1>1, <1>r DEF Admit
<1>2. CASE Cordon(d)
  BY <1>2, <1>r DEF Cordon, Cordoned, CordonFailed
<1>3. CASE List(d)
  <2>1. (\E e \in SdkErrors(ErrorStatus) : Raise(d, Translate(e)))
           \/ Goto(d, "evict") \/ Respond(d, Answer("DRAIN_BLOCKED", 400, {}))
    BY <1>3 DEF List, Classify
  <2> QED BY <2>1, <1>r
<1>4. CASE Evict(d)
  <2>1. (\E exc : Raise(d, exc)) \/ Goto(d, "evict")
    BY <1>4 DEF Evict, EvictAccepted, EvictAlreadyGone, BudgetRefuses, EvictFailed
  <2> QED BY <2>1, <1>r
<1> QED BY <1>1, <1>2, <1>3, <1>4

\* No wait reports leftovers before its budget is spent, nor runs past it by
\* more than one poll interval and one listing.
THEOREM BudgetHeld == Spec => []WaitBudget
<1> DEFINE Inv == \A d \in Drains : WaitInv(d)
<1>1. Init => Inv
  BY NumbersAssumption DEF Init, WaitInv, NoAnswer, Answer, PollSeconds
<1>2. TypeOK /\ Inv /\ [Next]_vars => Inv'
  <2> SUFFICES ASSUME TypeOK, Inv, [Next]_vars, NEW d \in Drains PROVE WaitInv(d)'
    OBVIOUS
  <2>t. elapsed[d] \in Nat /\ Budget \in Nat /\ MaxCall \in Nat
    BY NumbersAssumption DEF TypeOK, RequestTypeOK
  <2>1. CASE Environment \/ UNCHANGED vars
    BY <2>1, WaitUntouched
    DEF Environment, Create, Complete, Delete, Terminated, SetUnschedulable, requests, vars
  <2>2. ASSUME NEW c \in Drains \ {d}, DrainStep(c) PROVE WaitInv(d)'
    <3>1. UNCHANGED elapsed \/ \E s : elapsed' = [elapsed EXCEPT ![c] = s]
      BY <2>2 DEF DrainStep, Admit, Cordon, List, Evict, StartWait, Poll, PollAnswered, Sleep
    <3>2. (\E l : Goto(c, l)) \/ (\E a : Respond(c, a))
      BY <2>2, BeforeWait DEF DrainStep, StartWait, Poll, PollAnswered, Sleep, Raise
    <3>3. elapsed'[d] = elapsed[d]
      BY <3>1 DEF TypeOK, RequestTypeOK
    <3>4. pc'[d] = pc[d] /\ answer'[d] = answer[d]
      BY <3>2 DEF Goto, Respond, TypeOK, AnswerTypeOK
    <3> QED BY <3>3, <3>4, WaitUntouched
  <2>3. CASE Admit(d) \/ Cordon(d) \/ List(d) \/ Evict(d)
    <3>1. pc[d] \notin {"poll", "sleep", "done"} /\ elapsed'[d] = elapsed[d]
      BY <2>3 DEF Admit, Cordon, List, Evict
    <3>2. \/ \E l \in {"cordon", "list", "evict"} : Goto(d, l)
          \/ \E code, http : Respond(d, Answer(code, http, {}))
      BY <2>3, BeforeWait
    <3>3. \/ pc'[d] \in {"cordon", "list", "evict"} /\ answer'[d] = answer[d]
          \/ pc'[d] = "done" /\ answer'[d].still_terminating = {}
      <4>1. CASE \E l \in {"cordon", "list", "evict"} : Goto(d, l)
        BY <4>1, GoesOn
      <4>2. CASE \E code, http : Respond(d, Answer(code, http, {}))
        <5> PICK code, http : Respond(d, Answer(code, http, {}))
          BY <4>2
        <5> QED BY RespondEnds DEF Answer
      <4> QED BY <3>2, <4>1, <4>2
    <3> QED BY <3>1, <3>3, WaitUntouched
  <2>4. CASE StartWait(d)
    <3>1. elapsed'[d] = 0 /\ pc[d] = "evict"
      BY <2>4 DEF StartWait, TypeOK, RequestTypeOK
    <3>2. \/ pc'[d] = "poll" /\ answer'[d] = answer[d]
          \/ pc'[d] = "done" /\ answer'[d].still_terminating = {}
      BY <2>4, GoesOn, RespondEnds DEF StartWait, Answer
    <3> QED BY <2>t, <3>1, <3>2 DEF WaitInv, PollSeconds
  <2>5. CASE Poll(d)
    <3>1. CASE PollAnswered(d)
      <4> PICK seconds \in elapsed[d] .. elapsed[d] + MaxCall :
                 /\ elapsed' = [elapsed EXCEPT ![d] = seconds]
                 /\ IF StillPresent(d) = {} \/ BudgetSpent(seconds)
                    THEN Respond(d, Answer("OK", 200, StillPresent(d)))
                    ELSE Goto(d, "sleep")
        BY <3>1 DEF PollAnswered
      <4>1. elapsed'[d] = seconds /\ pc[d] = "poll"
        BY <2>5 DEF Poll, TypeOK, RequestTypeOK
      <4>2. CASE StillPresent(d) = {} \/ BudgetSpent(seconds)
        <5>1. pc'[d] = "done" /\ answer'[d].still_terminating = StillPresent(d)
          BY <4>2, RespondEnds DEF Answer
        <5> QED BY <2>t, <4>1, <4>2, <5>1 DEF WaitInv, BudgetSpent, PollSeconds
      <4>3. CASE ~(StillPresent(d) = {} \/ BudgetSpent(seconds))
        BY <2>t, <4>1, <4>3, GoesOn DEF WaitInv, BudgetSpent, PollSeconds
      <4> QED BY <4>2, <4>3
    <3>2. CASE \E e \in SdkErrors(ErrorStatus) : Raise(d, Translate(e)) /\ UNCHANGED elapsed
      <4>1. pc'[d] = "done" /\ answer'[d].still_terminating = {} /\ pc[d] = "poll"
        BY <2>5, <3>2, RespondEnds DEF Poll, Raise, Answer
      <4> QED BY <3>2, <4>1, WaitUntouched
    <3> QED BY <2>5, <3>1, <3>2 DEF Poll
  <2>6. CASE Sleep(d)
    <3>1. elapsed'[d] = elapsed[d] + PollSeconds /\ pc[d] = "sleep" /\ pc'[d] = "poll"
          /\ answer'[d] = answer[d]
      BY <2>6, GoesOn DEF Sleep, TypeOK, RequestTypeOK
    <3> QED BY <2>t, <3>1 DEF WaitInv, PollSeconds
  <2> QED BY <2>1, <2>2, <2>3, <2>4, <2>5, <2>6 DEF Next, DrainStep
<1>3. Inv => WaitBudget
  BY DEF WaitInv, WaitBudget
<1> QED BY <1>1, <1>2, <1>3, TypeCorrect, PTL DEF Spec
=============================================================================
