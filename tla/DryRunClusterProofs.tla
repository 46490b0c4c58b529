------------------------- MODULE DryRunClusterProofs -------------------------
(***************************************************************************)
(* Safety of DryRunCluster for any number of calls, any pods and any       *)
(* entries, however the threads take turns.                                *)
(***************************************************************************)
EXTENDS DryRunCluster, SequenceTheorems, TLAPS

-----------------------------------------------------------------------------
(* The inductive invariant, in three parts that do not depend on each      *)
(* other's data: pods, the namespace, and the maps.                        *)

\* What a call may be doing.
KindInv(c) ==
  /\ pc[c] = "start" => at[c] = 1
  /\ pc[c] = "scan" => op[c].kind \in {"remove", "list"}
  /\ pc[c] = "pop" => op[c].kind = "remove"
  /\ pc[c] = "insert" => op[c].kind = "create"
  /\ pc[c] \in {"copy", "store"} => op[c].kind = "patch"

NoRepetition == \A i, j \in 1..Len(pods) : pods[i] = pods[j] => i = j

\* Pods only go.  Until a removal interrupts it, a scan has what is before its
\* index, and the pod it is about to pop is at the index.
ScanInv(c) ==
  /\ pc[c] \in {"scan", "pop"} => ToSet(pods) \subseteq before[c]
  /\ pc[c] \in {"scan", "pop"} /\ ~raced[c] => before[c] \subseteq ToSet(pods)
  /\ pc[c] = "start" => found[c] = {} /\ ~raced[c]
  /\ op[c].kind = "list" => found[c] \subseteq before[c] \cap op[c].selected
  /\ pc[c] = "scan" /\ ~raced[c] => \A j \in 1..Len(pods) : j < at[c] =>
       IF op[c].kind = "remove" THEN pods[j] # op[c].pod
       ELSE pods[j] \in op[c].selected => pods[j] \in found[c]
  /\ pc[c] = "pop" /\ ~raced[c] => at[c] <= Len(pods) /\ pods[at[c]] = op[c].pod

PodsInv ==
  /\ NoRepetition
  /\ EveryPodAccounted
  /\ UnracedIsExact
  /\ \A c \in Calls : ScanInv(c)

Created(c) == Is(c, "create", 201)
Inserting(c) == pc[c] = "insert"

\* Whoever is still to insert when the name is taken has been overtaken.
NameInv ==
  /\ CreatedStays
  /\ bound # None => bound \in Calls /\ Created(bound)
  /\ \A c \in Calls : Created(c) => bound # None
  /\ \A c \in Calls : Inserting(c) /\ bound # None =>
       raced[c] /\ \A d \in Calls : Created(d) => raced[d]
  /\ \A c \in Calls : pc[c] \in {"copy", "store"} \/ Is(c, "patch", 200) =>
       IF op[c].object = Node THEN ref[c] = Node
       ELSE ref[c] \in Calls /\ Created(ref[c]) /\ (bound = ref[c] \/ raced[ref[c]])

Position(f) == IF f = "labels" THEN 1 ELSE 2

Patching(c) == op[c].kind = "patch" /\ (pc[c] \in {"copy", "store"} \/ answer[c] = 200)

\* The fields before at are stored; what is about to be stored is the patched
\* map as it is, or was copied before somebody else's store.
StoredInv(c) ==
  Patching(c) => \A f \in Fields : Position(f) < at[c] =>
    \A k \in DOMAIN op[c][f] \ lost[c][f] : map[ref[c]][f][k] = op[c][f][k]

CopyInv(c) ==
  pc[c] = "store" =>
    /\ at[c] <= 2
    /\ \A k \in DOMAIN op[c][FieldAt(c)] : copy[c][k] = op[c][FieldAt(c)][k]
    /\ ~behind[c] => copy[c] = MergePatch(map[ref[c]][FieldAt(c)], op[c][FieldAt(c)])

MapInv(c) ==
  /\ Is(c, "patch", 200) => at[c] > 2
  /\ StoredInv(c)
  /\ CopyInv(c)

IInv ==
  /\ TypeOK
  /\ \A c \in Calls : KindInv(c)
  /\ PodsInv
  /\ NameInv
  /\ \A c \in Calls : MapInv(c)

-----------------------------------------------------------------------------
(* Lemmas on sequences, operations and helpers.                            *)

LEMMA RemoveAtShifts ==
  ASSUME NEW S, NEW s \in Seq(S), NEW i \in 1..Len(s)
  PROVE  /\ RemoveAt(s, i) \in Seq(S)
         /\ Len(RemoveAt(s, i)) = Len(s) - 1
         /\ \A j \in 1..Len(s) - 1 : RemoveAt(s, i)[j] = IF j < i THEN s[j] ELSE s[j + 1]
<1>0. i \in Nat /\ Len(s) \in Nat /\ 1 <= i /\ i <= Len(s)
  OBVIOUS
<1>1. \E a \in Seq(S) : /\ a = SubSeq(s, 1, i - 1) /\ Len(a) = i - 1
                        /\ \A j \in 1..i - 1 : a[j] = s[j]
  <2>1. \A j \in 1..i - 1 : s[j] \in S
    BY <1>0
  <2>2. /\ SubSeq(s, 1, i - 1) \in Seq(S)
        /\ Len(SubSeq(s, 1, i - 1)) = IF 1 <= i - 1 THEN i - 1 - 1 + 1 ELSE 0
        /\ \A j \in 1..i - 1 - 1 + 1 : SubSeq(s, 1, i - 1)[j] = s[1 + j - 1]
    BY <1>0, <2>1, SubSeqProperties, Z3
  <2>3. (IF 1 <= i - 1 THEN i - 1 - 1 + 1 ELSE 0) = i - 1
    BY <1>0
  <2>4. ASSUME NEW j \in 1..i - 1 PROVE SubSeq(s, 1, i - 1)[j] = s[j]
    <3>1. j \in 1..i - 1 - 1 + 1 /\ 1 + j - 1 = j
      BY <1>0
    <3> QED BY <3>1, <2>2
  <2> QED BY <2>2, <2>3, <2>4
<1>2. \E b \in Seq(S) : /\ b = SubSeq(s, i + 1, Len(s)) /\ Len(b) = Len(s) - i
                        /\ \A j \in 1..Len(s) - i : b[j] = s[i + j]
  <2>1. \A j \in i + 1..Len(s) : s[j] \in S
    BY <1>0
  <2>2. /\ SubSeq(s, i + 1, Len(s)) \in Seq(S)
        /\ Len(SubSeq(s, i + 1, Len(s))) = IF i + 1 <= Len(s) THEN Len(s) - (i + 1) + 1 ELSE 0
        /\ \A j \in 1..Len(s) - (i + 1) + 1 : SubSeq(s, i + 1, Len(s))[j] = s[i + 1 + j - 1]
    BY <1>0, <2>1, SubSeqProperties, Z3
  <2>3. (IF i + 1 <= Len(s) THEN Len(s) - (i + 1) + 1 ELSE 0) = Len(s) - i
    BY <1>0
  <2>4. ASSUME NEW j \in 1..Len(s) - i PROVE SubSeq(s, i + 1, Len(s))[j] = s[i + j]
    <3>1. j \in 1..Len(s) - (i + 1) + 1 /\ i + 1 + j - 1 = i + j
      BY <1>0
    <3> QED BY <3>1, <2>2
  <2> QED BY <2>2, <2>3, <2>4
<1>3. PICK a \in Seq(S), b \in Seq(S) :
        /\ RemoveAt(s, i) = a \o b /\ Len(a) = i - 1 /\ Len(b) = Len(s) - i
        /\ \A j \in 1..i - 1 : a[j] = s[j]
        /\ \A j \in 1..Len(s) - i : b[j] = s[i + j]
  BY <1>1, <1>2, Zenon DEF RemoveAt
<1>4. /\ a \o b \in Seq(S)
      /\ Len(a \o b) = Len(a) + Len(b)
      /\ \A j \in 1..Len(a) + Len(b) : (a \o b)[j] = IF j <= Len(a) THEN a[j] ELSE b[j - Len(a)]
  BY ConcatProperties
<1>5. Len(a) + Len(b) = Len(s) - 1
  BY <1>0, <1>3
<1>6. ASSUME NEW j \in 1..Len(s) - 1
      PROVE  RemoveAt(s, i)[j] = IF j < i THEN s[j] ELSE s[j + 1]
  <2>1. RemoveAt(s, i)[j] = IF j <= Len(a) THEN a[j] ELSE b[j - Len(a)]
    BY <1>3, <1>4, <1>5
  <2>2. CASE j < i
    <3>1. j \in 1..i - 1 /\ j <= Len(a)
      BY <1>0, <1>3, <2>2
    <3> QED BY <3>1, <2>1, <2>2, <1>3
  <2>3. CASE ~(j < i)
    <3>1. j - Len(a) \in 1..Len(s) - i /\ ~(j <= Len(a)) /\ i + (j - Len(a)) = j + 1
      BY <1>0, <1>3, <2>3
    <3>2. b[j - Len(a)] = s[i + (j - Len(a))]
      BY <3>1, <1>3
    <3> QED BY <3>1, <3>2, <2>1, <2>3
  <2> QED BY <2>2, <2>3
<1> QED BY <1>3, <1>4, <1>5, <1>6, Zenon

LEMMA ToSetIsRange ==
  ASSUME NEW S, NEW s \in Seq(S)
  PROVE  \A p : p \in ToSet(s) <=> \E j \in 1..Len(s) : s[j] = p
  BY DEF ToSet

LEMMA OpType ==
  ASSUME TypeOK, NEW c \in Calls
  PROVE  /\ op[c].kind = "remove" => op[c] \in Removals
         /\ op[c].kind = "list" => op[c] \in Listings
         /\ op[c].kind = "create" => op[c] \in Creations
         /\ op[c].kind = "patch" => op[c] \in Updates
  BY OpsAssumption DEF TypeOK, Removals, Listings, Creations, Updates

LEMMA PatchType ==
  ASSUME NEW patch \in Patches
  PROVE  /\ DOMAIN patch \subseteq Key
         /\ \A k \in DOMAIN patch : patch[k] \in Value \cup {None}
  BY DEF Patches

LEMMA EntriesType ==
  ASSUME TypeOK, NEW c \in Calls, op[c].kind \in {"create", "patch"}, NEW f \in Fields
  PROVE  op[c][f] \in Patches
  BY OpType DEF Creations, Updates, Fields

LEMMA MergeType ==
  ASSUME NEW entries \in Map, NEW patch \in Patches
  PROVE  MergePatch(entries, patch) \in Map
  BY PatchType DEF MergePatch, Map

LEMMA FieldType == \A c \in Calls : FieldAt(c) \in Fields
  BY DEF FieldAt, Fields

LEMMA Moves ==
  ASSUME TypeOK, NEW c \in Calls
  PROVE  /\ \A l : Goto(c, l) =>
              pc'[c] = l /\ answer' = answer /\ \A d \in Calls \ {c} : pc'[d] = pc[d]
         /\ \A http : Return(c, http) =>
              /\ pc'[c] = "done" /\ answer'[c] = http
              /\ \A d \in Calls \ {c} : pc'[d] = pc[d] /\ answer'[d] = answer[d]
         /\ Advance(c) => at'[c] = at[c] + 1 /\ \A d \in Calls \ {c} : at'[d] = at[d]
  BY DEF TypeOK, Goto, Return, Advance

-----------------------------------------------------------------------------
(* Types.                                                                  *)

THEOREM TypeInit == Init => TypeOK
<1> SUFFICES ASSUME Init PROVE TypeOK
  OBVIOUS
<1>1. NoEntries \in Map /\ 1 \in Nat \ {0}
  BY DEF NoEntries, Map
<1> QED BY <1>1, PodsAssumption DEF Init, TypeOK

\* What every step of a call has to show of its program counter and answer.
LEMMA MoveType ==
  ASSUME TypeOK, NEW c \in Calls, pc[c] # "done"
  PROVE  LET Typed == /\ pc' \in [Calls -> {"start", "scan", "pop", "insert", "copy", "store", "done"}]
                      /\ answer' \in [Calls -> {0, 200, 201, 404, 409, 500}]
                      /\ \A d \in Calls : pc'[d] = "done" <=> answer'[d] # 0
         IN  /\ \A l \in {"scan", "pop", "insert", "copy", "store"} : Goto(c, l) => Typed
             /\ \A http \in {200, 201, 404, 409, 500} : Return(c, http) => Typed
             /\ UNCHANGED <<pc, answer>> => Typed
<1>1. ASSUME NEW l \in {"scan", "pop", "insert", "copy", "store"}, Goto(c, l)
      PROVE  /\ pc' \in [Calls -> {"start", "scan", "pop", "insert", "copy", "store", "done"}]
             /\ \A d \in Calls : pc'[d] = "done" <=> pc[d] = "done"
  BY <1>1 DEF TypeOK, Goto
<1>2. ASSUME NEW http \in {200, 201, 404, 409, 500}, Return(c, http)
      PROVE  /\ pc' \in [Calls -> {"start", "scan", "pop", "insert", "copy", "store", "done"}]
             /\ answer' \in [Calls -> {0, 200, 201, 404, 409, 500}]
             /\ \A d \in Calls : pc'[d] = "done" <=> answer'[d] # 0
  BY <1>2 DEF TypeOK, Return
<1>3. /\ pc \in [Calls -> {"start", "scan", "pop", "insert", "copy", "store", "done"}]
      /\ answer \in [Calls -> {0, 200, 201, 404, 409, 500}]
      /\ \A d \in Calls : pc[d] = "done" <=> answer[d] # 0
  BY DEF TypeOK
<1>4. \A l \in {"scan", "pop", "insert", "copy", "store"} : Goto(c, l) => answer' = answer
  BY DEF Goto
<1>5. UNCHANGED <<pc, answer>> =>
        /\ pc' \in [Calls -> {"start", "scan", "pop", "insert", "copy", "store", "done"}]
        /\ answer' \in [Calls -> {0, 200, 201, 404, 409, 500}]
        /\ \A d \in Calls : pc'[d] = "done" <=> answer'[d] # 0
  BY <1>3
<1>6. ASSUME NEW l \in {"scan", "pop", "insert", "copy", "store"}, Goto(c, l)
      PROVE  /\ pc' \in [Calls -> {"start", "scan", "pop", "insert", "copy", "store", "done"}]
             /\ answer' \in [Calls -> {0, 200, 201, 404, 409, 500}]
             /\ \A d \in Calls : pc'[d] = "done" <=> answer'[d] # 0
  BY <1>1, <1>3, <1>4, <1>6
<1> QED BY <1>2, <1>5, <1>6

LEMMA AdvanceType ==
  ASSUME TypeOK, NEW c \in Calls, Advance(c) PROVE at' \in [Calls -> Nat \ {0}]
<1>1. at[c] + 1 \in Nat \ {0}
  BY DEF TypeOK
<1> QED BY <1>1 DEF TypeOK, Advance

LEMMA TypeStep ==
  ASSUME TypeOK, NameInv, \A c \in Calls : KindInv(c), NEW c \in Calls, Step(c)
  PROVE  TypeOK'
<1>1. CASE Begin(c)
  <2>1. ToSet(pods) \in SUBSET Pod
    <3>1. \A j \in 1..Len(pods) : pods[j] \in Pod
      BY DEF TypeOK
    <3>2. \A p : p \in ToSet(pods) <=> \E j \in 1..Len(pods) : pods[j] = p
      BY ToSetIsRange DEF TypeOK
    <3> QED BY <3>1, <3>2
  <2>2. before' \in [Calls -> SUBSET Pod]
    BY <1>1, <2>1 DEF Begin, TypeOK
  <2> QED BY <1>1, <2>2, MoveType DEF Begin, TypeOK, cluster, locals
<1>2. CASE Scan(c)
  <2>1. CASE UNCHANGED <<at, found>>
    BY <1>2, <2>1, MoveType DEF Scan, TypeOK, cluster, history
  <2>2. CASE /\ at[c] <= Len(pods) /\ Advance(c) /\ UNCHANGED <<pc, answer>>
             /\ found' = [found EXCEPT ![c] =
                  IF op[c].kind = "list" THEN @ \cup ({pods[at[c]]} \cap op[c].selected) ELSE @]
    <3>1. pods[at[c]] \in Pod
      BY <2>2 DEF TypeOK
    <3>2. found[c] \in SUBSET Pod /\ {pods[at[c]]} \cap op[c].selected \in SUBSET Pod
      BY <3>1 DEF TypeOK
    <3>3. found' \in [Calls -> SUBSET Pod]
      BY <2>2, <3>2 DEF TypeOK
    <3> QED BY <1>2, <2>2, <3>3, AdvanceType, MoveType DEF Scan, TypeOK, cluster, history
  <2> QED BY <1>2, <2>1, <2>2 DEF Scan
<1>3. CASE Pop(c)
  <2>1. CASE at[c] <= Len(pods)
    <3>1. at[c] \in 1..Len(pods) /\ pods[at[c]] \in Pod /\ pods' = RemoveAt(pods, at[c])
      BY <1>3, <2>1 DEF Pop, TypeOK
    <3>2. pods' \in Seq(Pod)
      BY <3>1, RemoveAtShifts DEF TypeOK
    <3>3. found' = [found EXCEPT ![c] = {pods[at[c]]}]
      BY <1>3, <2>1 DEF Pop
    <3>4. found' \in [Calls -> SUBSET Pod]
      BY <3>1, <3>3 DEF TypeOK
    <3>5. raced' = [d \in Calls |-> raced[d] \/ (d # c /\ pc[d] \in {"scan", "pop"})]
      BY <1>3, <2>1 DEF Pop
    <3>6. raced' \in [Calls -> BOOLEAN]
      BY <3>5 DEF TypeOK
    <3> QED BY <1>3, <2>1, <3>2, <3>4, <3>6, MoveType DEF Pop, TypeOK
  <2>2. CASE ~(at[c] <= Len(pods))
    BY <1>3, <2>2, MoveType DEF Pop, TypeOK
  <2> QED BY <2>1, <2>2
<1>4. CASE Check(c)
  BY <1>4, MoveType DEF Check, TypeOK, cluster, locals, history
<1>5. CASE Insert(c)
  <2>1. op[c].kind = "create" /\ pc[c] # "done"
    BY <1>5 DEF Insert, KindInv
  <2>2. ASSUME NEW f \in Fields PROVE MergePatch(NoEntries, op[c][f]) \in Map
    BY <2>1, EntriesType, MergeType DEF NoEntries, Map
  <2>3. map' \in [Calls \cup {Node} -> [Fields -> Map]]
    BY <1>5, <2>2 DEF Insert, TypeOK
  <2>4. raced' \in [Calls -> BOOLEAN]
    BY <1>5 DEF Insert, TypeOK
  <2> QED BY <1>5, <2>1, <2>3, <2>4, MoveType DEF Insert, TypeOK, locals
<1>6. CASE Find(c)
  <2>1. op[c].unschedulable \in BOOLEAN \cup {None}
    BY <1>6, OpType DEF Find, Updates
  <2>2. unschedulable' \in BOOLEAN
    BY <1>6, <2>1 DEF Find, TypeOK
  <2>3. ref' \in [Calls -> Calls \cup {Node, None}]
    <3>1. (IF op[c].object = Node THEN Node ELSE bound) \in Calls \cup {Node, None}
      BY DEF TypeOK
    <3>2. CASE UNCHANGED ref
      BY <3>2 DEF TypeOK
    <3>3. CASE ref' = [ref EXCEPT ![c] = IF op[c].object = Node THEN Node ELSE bound]
      BY <3>1, <3>3 DEF TypeOK
    <3> QED BY <1>6, <3>2, <3>3 DEF Find
  <2> QED BY <1>6, <2>2, <2>3, MoveType DEF Find, TypeOK, history
<1>7. CASE Copy(c)
  <2>1. ref[c] \in Calls \cup {Node} /\ op[c].kind = "patch"
    BY <1>7 DEF Copy, NameInv, KindInv
  <2>2. MergePatch(map[ref[c]][FieldAt(c)], op[c][FieldAt(c)]) \in Map
    BY <2>1, FieldType, EntriesType, MergeType DEF TypeOK
  <2>3. copy' \in [Calls -> Map]
    BY <1>7, <2>2 DEF Copy, TypeOK
  <2>5. behind' \in [Calls -> BOOLEAN]
    <3>1. behind \in [Calls -> BOOLEAN]
      BY DEF TypeOK
    <3>2. behind' = behind \/ behind' = [behind EXCEPT ![c] = FALSE]
      BY <1>7 DEF Copy
    <3> QED BY <3>1, <3>2
  <2>4. at' \in [Calls -> Nat \ {0}]
    BY <1>7, AdvanceType DEF Copy, TypeOK
  <2> QED BY <1>7, <2>3, <2>4, <2>5, MoveType DEF Copy, TypeOK, cluster
<1>8. CASE Store(c)
  <2>1. ref[c] \in Calls \cup {Node} /\ op[c].kind = "patch" /\ FieldAt(c) \in Fields /\ copy[c] \in Map
    BY <1>8, FieldType DEF Store, NameInv, KindInv, TypeOK
  <2>2. map' \in [Calls \cup {Node} -> [Fields -> Map]]
    BY <1>8, <2>1 DEF Store, TypeOK
  <2>3. Touched(c) \subseteq Key
    BY <2>1, EntriesType, PatchType DEF Touched
  <2>4. lost' \in [Calls -> [Fields -> SUBSET Key]]
    BY <1>8, <2>1, <2>3 DEF Store, TypeOK
  <2>5. behind' \in [Calls -> BOOLEAN]
    BY <1>8 DEF Store, TypeOK
  <2>6. at' \in [Calls -> Nat \ {0}]
    BY <1>8, AdvanceType DEF Store
  <2> QED BY <1>8, <2>2, <2>4, <2>5, <2>6, MoveType DEF Store, TypeOK
<1> QED BY <1>1, <1>2, <1>3, <1>4, <1>5, <1>6, <1>7, <1>8 DEF Step

LEMMA KindStep ==
  ASSUME TypeOK, \A c \in Calls : KindInv(c), NEW c \in Calls, Step(c)
  PROVE  \A d \in Calls : KindInv(d)'
<1>1. op' = op
  BY DEF Step, Begin, Scan, Pop, Check, Insert, Find, Copy, Store, cluster, locals, history
<1>2. \A d \in Calls \ {c} : pc'[d] = pc[d] /\ at'[d] = at[d]
  BY Moves DEF Step, Begin, Scan, Pop, Check, Insert, Find, Copy, Store, locals
<1>3. KindInv(c)'
  BY <1>1, Moves DEF KindInv, Step, Begin, Scan, Found, Pop, Check, Insert, Find, Copy, Store
<1> QED BY <1>1, <1>2, <1>3 DEF KindInv

-----------------------------------------------------------------------------
(* The namespace.                                                          *)

\* Calls that neither look a namespace up nor make one leave its invariant.
LEMMA NameFrame ==
  ASSUME NameInv, UNCHANGED <<bound, op, ref>>,
         \A d \in Calls : raced[d] => raced'[d],
         \A d \in Calls : Created(d)' <=> Created(d),
         \A d \in Calls : Inserting(d)' => Inserting(d),
         \A d \in Calls : (pc[d] \in {"copy", "store"} \/ Is(d, "patch", 200))'
                            => pc[d] \in {"copy", "store"} \/ Is(d, "patch", 200)
  PROVE  NameInv'
<1>1. \A d \in Calls : Is(d, "patch", 200)' /\ op[d].object = "namespace" =>
        ref[d] \in Calls /\ Created(ref[d]) /\ (bound = ref[d] \/ raced[ref[d]])
  BY DEF NameInv, Is, Node, CreatedStays
<1>2. CreatedStays'
  BY <1>1 DEF NameInv, CreatedStays, Created, Is
<1> QED BY <1>2 DEF NameInv, Created, Inserting, Is

LEMMA NameStep ==
  ASSUME TypeOK, NameInv, \A c \in Calls : KindInv(c), NEW c \in Calls, Step(c)
  PROVE  NameInv'
<1>0. op' = op
  BY DEF Step, Begin, Scan, Pop, Check, Insert, Find, Copy, Store, cluster, locals, history
<1>1. CASE Begin(c) \/ Scan(c) \/ Pop(c) \/ Copy(c) \/ Store(c)
  <2>1. UNCHANGED <<bound, ref>>
    BY <1>1 DEF Begin, Scan, Pop, Copy, Store, cluster, locals
  <2>2. \A d \in Calls : raced[d] => raced'[d]
    BY <1>1 DEF Begin, Scan, Pop, Copy, Store, history, TypeOK
  <2>3. \A d \in Calls \ {c} : pc'[d] = pc[d] /\ answer'[d] = answer[d]
    BY <1>1, Moves DEF Begin, Scan, Pop, Copy, Store
  <2>4. /\ pc[c] # "done" /\ answer[c] = 0
        /\ op[c].kind # "create" /\ pc'[c] # "insert"
    BY <1>1, Moves DEF Begin, Scan, Pop, Copy, Store, KindInv, TypeOK
  <2>5. pc'[c] \in {"copy", "store"} \/ Is(c, "patch", 200)' => pc[c] \in {"copy", "store"}
    BY <1>0, <1>1, <2>4, Moves DEF Begin, Scan, Pop, Copy, Store, KindInv, Is
  <2> QED BY <1>0, <2>1, <2>2, <2>3, <2>4, <2>5, NameFrame DEF Created, Inserting, Is
<1>2. CASE Check(c)
  <2>1. UNCHANGED <<bound, ref, raced>> /\ answer[c] = 0 /\ op[c].kind = "create"
    BY <1>2 DEF Check, cluster, locals, history, TypeOK
  <2>2. \A d \in Calls \ {c} : pc'[d] = pc[d] /\ answer'[d] = answer[d]
    BY <1>2, Moves DEF Check
  <2>3. CASE bound # None
    <3>1. pc'[c] = "done" /\ answer'[c] = 409
      BY <1>2, <2>3, Moves DEF Check
    <3> QED BY <1>0, <2>1, <2>2, <3>1, NameFrame DEF Created, Inserting, Is
  <2>4. CASE bound = None
    <3>1. pc'[c] = "insert" /\ answer' = answer
      BY <1>2, <2>4, Moves DEF Check
    <3>2. CreatedStays'
      BY <1>0, <2>1, <3>1 DEF NameInv, CreatedStays, Is
    <3> QED BY <1>0, <2>1, <2>2, <2>4, <3>1, <3>2 DEF NameInv, Created, Inserting, Is
  <2> QED BY <2>3, <2>4
<1>3. CASE Insert(c)
  <2>1. /\ bound' = c /\ ref' = ref /\ op[c].kind = "create"
        /\ pc[c] = "insert" /\ pc'[c] = "done" /\ answer'[c] = 201
        /\ \A d \in Calls \ {c} : pc'[d] = pc[d] /\ answer'[d] = answer[d]
    BY <1>3, Moves DEF Insert, locals, KindInv
  <2>2. /\ \A d \in Calls : raced[d] => raced'[d]
        /\ \A d \in Calls : pc[d] = "insert" /\ (\E e \in Calls \ {d} : pc[e] = "insert") => raced'[d]
    BY <1>3 DEF Insert
  <2>3. /\ Created(c)' /\ ~Is(c, "patch", 200)'
        /\ \A d \in Calls \ {c} : (Created(d)' <=> Created(d)) /\ (Is(d, "patch", 200)' <=> Is(d, "patch", 200))
    BY <1>0, <2>1 DEF Created, Is
  <2>4. ASSUME NEW d \in Calls, Created(d) PROVE raced[d] /\ raced'[d] /\ Created(d)'
    <3>1. bound # None /\ Inserting(c)
      BY <2>1, <2>4 DEF NameInv, Inserting
    <3>2. raced[d]
      BY <2>4, <3>1 DEF NameInv
    <3> QED BY <2>2, <2>3, <2>4, <3>2
  <2>5. \A d \in Calls \ {c} : Inserting(d)' => raced'[d] /\ raced'[c]
    BY <2>1, <2>2 DEF Inserting
  <2>6. ASSUME NEW d \in Calls, pc'[d] \in {"copy", "store"} \/ Is(d, "patch", 200)'
        PROVE  IF op[d].object = Node THEN ref[d] = Node
               ELSE ref[d] \in Calls /\ Created(ref[d])' /\ raced'[ref[d]]
    <3>1. pc[d] \in {"copy", "store"} \/ Is(d, "patch", 200)
      BY <2>1, <2>3, <2>6
    <3>2. IF op[d].object = Node THEN ref[d] = Node ELSE ref[d] \in Calls /\ Created(ref[d])
      BY <3>1 DEF NameInv
    <3>3. CASE op[d].object # Node
      <4>1. PICK o \in Calls : o = ref[d] /\ Created(o)
        BY <3>2, <3>3
      <4>2. Created(o)' /\ raced'[o] /\ ref'[d] = o
        BY <4>1, <2>1, <2>4
      <4> QED BY <3>3, <4>1, <4>2 DEF Created, Is
    <3> QED BY <3>2, <3>3
  <2>7. CreatedStays'
    <3>1. ASSUME NEW d \in Calls, Is(d, "create", 201)', ~raced'[d] PROVE bound' = d
      BY <3>1, <2>1, <2>3, <2>4 DEF Created
    <3>2. ASSUME NEW d \in Calls, Is(d, "patch", 200)', op[d].object = "namespace"
          PROVE  raced'[ref[d]]
      BY <3>2, <2>6 DEF Node
    <3> QED BY <1>0, <2>1, <3>1, <3>2 DEF CreatedStays
  <2>8. c # None
    BY NoneAssumption
  <2>9. \A d \in Calls : Inserting(d)' => raced'[d] /\ \A e \in Calls : Created(e)' => raced'[e]
    BY <2>1, <2>3, <2>4, <2>5 DEF Inserting
  <2> QED BY <1>0, <2>1, <2>3, <2>6, <2>7, <2>8, <2>9 DEF NameInv
<1>4. CASE Find(c)
  <2>1. UNCHANGED <<bound, raced>> /\ answer[c] = 0 /\ op[c].kind = "patch"
    BY <1>4 DEF Find, history, TypeOK
  <2>2. \A d \in Calls \ {c} : pc'[d] = pc[d] /\ answer'[d] = answer[d]
    BY <1>4, Moves DEF Find
  <2>3. CASE op[c].object = "namespace" /\ bound = None
    <3>1. pc'[c] = "done" /\ answer'[c] = 404 /\ ref' = ref
      BY <1>4, <2>3, Moves DEF Find
    <3> QED BY <1>0, <2>1, <2>2, <3>1, NameFrame DEF Created, Inserting, Is
  <2>4. CASE ~(op[c].object = "namespace" /\ bound = None)
    <3>1. /\ pc'[c] = "copy" /\ answer' = answer
          /\ ref'[c] = IF op[c].object = Node THEN Node ELSE bound
          /\ \A d \in Calls \ {c} : ref'[d] = ref[d]
      BY <1>4, <2>4, Moves DEF Find, TypeOK
    <3>2. op[c].object # Node => bound \in Calls /\ Created(bound)
      BY <2>1, <2>4, OpType DEF NameInv, Updates
    <3>3. CreatedStays'
      BY <1>0, <2>1, <3>1 DEF NameInv, CreatedStays, Is
    <3>4. \A d \in Calls : Created(d)' <=> Created(d)
      BY <1>0, <3>1 DEF Created, Is
    <3>5. ASSUME NEW d \in Calls, pc'[d] \in {"copy", "store"} \/ Is(d, "patch", 200)'
          PROVE  IF op[d].object = Node THEN ref'[d] = Node
                 ELSE ref'[d] \in Calls /\ Created(ref'[d]) /\ (bound = ref'[d] \/ raced[ref'[d]])
      <4>1. CASE d = c
        BY <4>1, <3>1, <3>2
      <4>2. CASE d # c
        <5>1. pc[d] \in {"copy", "store"} \/ Is(d, "patch", 200)
          BY <1>0, <2>2, <3>5, <4>2 DEF Is
        <5> QED BY <4>2, <5>1, <3>1 DEF NameInv
      <4> QED BY <4>1, <4>2
    <3>6. \A d \in Calls : Inserting(d)' => Inserting(d)
      BY <2>2, <3>1 DEF Inserting
    <3> QED BY <1>0, <2>1, <3>3, <3>4, <3>5, <3>6 DEF NameInv
  <2> QED BY <2>3, <2>4
<1> QED BY <1>1, <1>2, <1>3, <1>4 DEF Step

-----------------------------------------------------------------------------
(* The maps.                                                               *)

\* A call that is not touched keeps its part, if its map does.
LEMMA MapFrame ==
  ASSUME NEW d \in Calls, MapInv(d), KindInv(d), op' = op,
         pc'[d] = pc[d], answer'[d] = answer[d], at'[d] = at[d], ref'[d] = ref[d],
         copy'[d] = copy[d], behind'[d] = behind[d], lost'[d] = lost[d],
         Patching(d) => map'[ref[d]] = map[ref[d]]
  PROVE  MapInv(d)'
<1>1. Patching(d)' <=> Patching(d)
  BY DEF Patching
<1>2. StoredInv(d)'
  <2> SUFFICES ASSUME Patching(d), NEW f \in Fields, Position(f) < at[d],
                      NEW k \in DOMAIN op[d][f] \ lost[d][f]
               PROVE  map'[ref[d]][f][k] = op[d][f][k]
    BY <1>1 DEF StoredInv, Position
  <2> QED BY DEF MapInv, StoredInv
<1>3. CopyInv(d)'
  <2>1. CASE pc[d] = "store"
    <3>1. map'[ref[d]] = map[ref[d]]
      BY <2>1 DEF KindInv, Patching
    <3>2. FieldAt(d)' = FieldAt(d)
      BY DEF FieldAt
    <3> QED BY <2>1, <3>1, <3>2 DEF MapInv, CopyInv, MergePatch
  <2>2. CASE pc[d] # "store"
    BY <2>2 DEF CopyInv
  <2> QED BY <2>1, <2>2
<1>4. Is(d, "patch", 200)' => at'[d] > 2
  BY DEF MapInv, Is
<1> QED BY <1>2, <1>3, <1>4 DEF MapInv

LEMMA MapStep ==
  ASSUME TypeOK, NameInv, \A d \in Calls : KindInv(d), \A d \in Calls : MapInv(d),
         NEW c \in Calls, Step(c)
  PROVE  \A d \in Calls : MapInv(d)'
<1>0. op' = op
  BY DEF Step, Begin, Scan, Pop, Check, Insert, Find, Copy, Store, cluster, locals, history
<1>1. \A d \in Calls \ {c} : pc'[d] = pc[d] /\ answer'[d] = answer[d] /\ at'[d] = at[d]
  BY Moves DEF Step, Begin, Scan, Pop, Check, Insert, Find, Copy, Store, locals
<1>2. CASE Begin(c) \/ Scan(c) \/ Pop(c) \/ Check(c)
  <2>1. UNCHANGED <<map, ref, copy, behind, lost>> /\ op[c].kind # "patch" /\ pc'[c] # "store"
    BY <1>2, Moves DEF Begin, Scan, Pop, Check, cluster, locals, history, KindInv
  <2>2. MapInv(c)'
    BY <1>0, <2>1 DEF MapInv, StoredInv, CopyInv, Patching, Is
  <2>3. ASSUME NEW d \in Calls \ {c} PROVE MapInv(d)'
    BY <1>0, <1>1, <2>1, MapFrame
  <2> QED BY <2>2, <2>3
<1>3. CASE Insert(c)
  <2>1. /\ UNCHANGED <<ref, copy, behind, lost>> /\ op[c].kind # "patch" /\ pc'[c] # "store"
        /\ pc[c] # "done" /\ answer[c] = 0
    BY <1>3, Moves DEF Insert, locals, KindInv, TypeOK
  <2>2. MapInv(c)'
    BY <1>0, <2>1 DEF MapInv, StoredInv, CopyInv, Patching, Is
  <2>3. ASSUME NEW d \in Calls \ {c} PROVE MapInv(d)'
    <3>1. ASSUME Patching(d) PROVE map'[ref[d]] = map[ref[d]]
      <4>1. ref[d] = Node \/ (ref[d] \in Calls /\ Created(ref[d]))
        BY <3>1 DEF NameInv, Patching, Is
      <4>2. ref[d] \in (Calls \cup {Node}) \ {c}
        BY <4>1, <2>1, NodeAssumption DEF Created, Is
      <4> QED BY <4>2, <1>3 DEF Insert, TypeOK
    <3> QED BY <1>0, <1>1, <2>1, <3>1, MapFrame
  <2> QED BY <2>2, <2>3
<1>4. CASE Find(c)
  <2>1. /\ UNCHANGED <<map, copy, behind, lost>> /\ at'[c] = 1 /\ pc'[c] # "store"
        /\ \A d \in Calls \ {c} : ref'[d] = ref[d]
    BY <1>4, Moves DEF Find, history, KindInv, TypeOK
  <2>2. MapInv(c)'
    <3>1. answer[c] = 0 /\ (answer' = answer \/ answer'[c] = 404)
      BY <1>4, Moves DEF Find, TypeOK
    <3>2. ~Is(c, "patch", 200)'
      BY <3>1 DEF Is
    <3> QED BY <2>1, <3>2 DEF MapInv, StoredInv, CopyInv, Position
  <2>3. ASSUME NEW d \in Calls \ {c} PROVE MapInv(d)'
    BY <1>0, <1>1, <2>1, MapFrame
  <2> QED BY <2>2, <2>3
<1>5. CASE Copy(c)
  <2>1. /\ UNCHANGED <<map, ref, lost>> /\ op[c].kind = "patch" /\ pc[c] = "copy" /\ Patching(c)
        /\ answer[c] = 0
        /\ \A d \in Calls \ {c} : copy'[d] = copy[d] /\ behind'[d] = behind[d]
    BY <1>5 DEF Copy, KindInv, Patching, TypeOK, cluster
  <2>2. ASSUME NEW d \in Calls \ {c} PROVE MapInv(d)'
    BY <1>0, <1>1, <2>1, <2>2, MapFrame
  <2>3. MapInv(c)'
    <3>1. CASE at[c] > 2 /\ Return(c, 200) /\ UNCHANGED <<at, copy, behind>>
      <4>1. pc'[c] = "done"
        BY <3>1, Moves
      <4> QED BY <1>0, <2>1, <3>1, <4>1 DEF MapInv, StoredInv, CopyInv
    <3>2. CASE at[c] <= 2 /\ Skipped(c) /\ Advance(c) /\ UNCHANGED <<pc, answer, copy, behind>>
      <4>1. at'[c] = at[c] + 1 /\ at[c] \in {1, 2} /\ DOMAIN op[c][FieldAt(c)] = {}
        BY <3>2, Moves DEF TypeOK, Skipped
      <4>2. ASSUME NEW f \in Fields, Position(f) < at'[c], NEW k \in DOMAIN op[c][f] \ lost[c][f]
            PROVE  map[ref[c]][f][k] = op[c][f][k]
        <5>1. f # FieldAt(c)
          BY <4>1, <4>2
        <5>2. Position(f) < at[c]
          BY <4>1, <4>2, <5>1 DEF Position, FieldAt, Fields
        <5> QED BY <2>1, <4>2, <5>2 DEF MapInv, StoredInv
      <4>3. ~Is(c, "patch", 200)' /\ pc'[c] = "copy"
        BY <2>1, <3>2 DEF Is
      <4> QED BY <1>0, <2>1, <4>2, <4>3 DEF MapInv, StoredInv, CopyInv, Position
    <3>3. CASE /\ at[c] <= 2 /\ UNCHANGED at /\ Goto(c, "store")
               /\ copy' = [copy EXCEPT ![c] = MergePatch(map[ref[c]][FieldAt(c)], op[c][FieldAt(c)])]
               /\ behind' = [behind EXCEPT ![c] = FALSE]
      <4>1. copy'[c] = MergePatch(map[ref[c]][FieldAt(c)], op[c][FieldAt(c)]) /\ FieldAt(c)' = FieldAt(c)
        BY <3>3 DEF TypeOK, FieldAt
      <4>2. DOMAIN op[c][FieldAt(c)] \subseteq Key
        BY <2>1, FieldType, EntriesType, PatchType
      <4>3. \A k \in DOMAIN op[c][FieldAt(c)] : copy'[c][k] = op[c][FieldAt(c)][k]
        BY <4>1, <4>2 DEF MergePatch
      <4>4. CopyInv(c)'
        BY <1>0, <2>1, <3>3, <4>1, <4>3 DEF CopyInv, MergePatch
      <4>5. answer' = answer
        BY <3>3 DEF Goto
      <4> QED BY <1>0, <2>1, <3>3, <4>4, <4>5 DEF MapInv, StoredInv, Position, Is
    <3> QED BY <1>5, <3>1, <3>2, <3>3 DEF Copy
  <2> QED BY <2>2, <2>3
<1>6. CASE Store(c)
  <2> DEFINE f == FieldAt(c)
             o == ref[c]
  <2>1. /\ f \in Fields /\ o \in Calls \cup {Node} /\ op[c].kind = "patch" /\ at[c] \in {1, 2}
        /\ pc[c] = "store" /\ pc'[c] = "copy" /\ at'[c] = at[c] + 1
        /\ Patching(c) /\ answer'[c] = 0
    BY <1>6, Moves, FieldType DEF Store, NameInv, KindInv, MapInv, CopyInv, Patching, TypeOK
  <2>2. /\ UNCHANGED <<ref, copy>>
        /\ map'[o][f] = copy[c]
        /\ \A x \in (Calls \cup {Node}) \ {o} : map'[x] = map[x]
        /\ \A g \in Fields \ {f} : map'[o][g] = map[o][g]
    BY <1>6, <2>1 DEF Store, TypeOK
  <2>3. /\ lost'[c][f] = {}
        /\ \A g \in Fields \ {f} : lost'[c][g] = lost[c][g]
    BY <1>6, <2>1 DEF Store, TypeOK
  <2>4. MapInv(c)'
    <3>1. ASSUME NEW g \in Fields, Position(g) < at'[c], NEW k \in DOMAIN op[c][g] \ lost'[c][g]
          PROVE  map'[o][g][k] = op[c][g][k]
      <4>1. CASE g = f
        BY <2>1, <2>2, <3>1, <4>1 DEF MapInv, CopyInv
      <4>2. CASE g # f
        <5>1. Position(g) < at[c]
          BY <2>1, <3>1, <4>2 DEF Position, FieldAt, Fields
        <5> QED BY <2>1, <2>2, <2>3, <3>1, <4>2, <5>1 DEF MapInv, StoredInv
      <4> QED BY <4>1, <4>2
    <3> QED BY <1>0, <2>1, <2>2, <3>1 DEF MapInv, StoredInv, CopyInv, Is, Position
  <2>5. ASSUME NEW d \in Calls \ {c} PROVE MapInv(d)'
    <3>1. CASE ref[d] # o
      <4>1. lost'[d] = lost[d] /\ behind'[d] = behind[d]
        BY <1>6, <3>1 DEF Store, TypeOK
      <4>2. Patching(d) => map'[ref[d]] = map[ref[d]]
        BY <2>2, <3>1 DEF NameInv, Patching, Is
      <4> QED BY <1>0, <1>1, <2>2, <4>1, <4>2, MapFrame
    <3>2. CASE ref[d] = o
      <4>1. /\ \A g \in Fields \ {f} : lost'[d][g] = lost[d][g]
            /\ lost'[d][f] = lost[d][f] \cup Touched(c)
        BY <1>6, <2>1, <3>2 DEF Store, TypeOK
      <4>2. ASSUME Patching(d), NEW g \in Fields, Position(g) < at[d],
                   NEW k \in DOMAIN op[d][g] \ lost'[d][g]
            PROVE  map'[o][g][k] = op[d][g][k]
        <5>1. k \notin lost[d][g] /\ map[o][g][k] = op[d][g][k]
          BY <3>2, <4>1, <4>2 DEF MapInv, StoredInv
        <5>2. CASE g = f
          <6>1. k \in Key /\ k \notin Touched(c)
            BY <4>1, <4>2, <5>2, EntriesType, PatchType DEF Patching
          <6>2. ~behind[c] /\ k \notin DOMAIN op[c][f]
            BY <6>1 DEF Touched
          <6>3. copy[c][k] = map[o][f][k]
            BY <2>1, <6>1, <6>2 DEF MapInv, CopyInv, MergePatch
          <6> QED BY <2>2, <5>1, <5>2, <6>3
        <5>3. CASE g # f
          BY <2>2, <5>1, <5>3
        <5> QED BY <5>2, <5>3
      <4>3. StoredInv(d)'
        <5>1. Patching(d)' <=> Patching(d)
          BY <1>0, <1>1 DEF Patching
        <5> QED BY <1>0, <1>1, <2>2, <3>2, <4>2, <5>1 DEF StoredInv, Position
      <4>4. CopyInv(d)'
        <5>1. CASE pc[d] = "store"
          <6>1. FieldAt(d)' = FieldAt(d) /\ FieldAt(d) \in Fields
            BY <1>1, FieldType DEF FieldAt
          <6>2. CASE FieldAt(d) = f
            <7>1. behind'[d]
              BY <1>6, <3>2, <5>1, <6>2 DEF Store, TypeOK
            <7> QED BY <1>0, <1>1, <2>2, <5>1, <6>1, <7>1 DEF MapInv, CopyInv
          <6>3. CASE FieldAt(d) # f
            <7>1. map'[o][FieldAt(d)] = map[o][FieldAt(d)]
              BY <2>2, <6>1, <6>3
            <7>2. behind'[d] = behind[d]
              BY <1>6, <6>3 DEF Store, TypeOK
            <7> QED BY <1>0, <1>1, <2>2, <3>2, <5>1, <6>1, <7>1, <7>2 DEF MapInv, CopyInv, MergePatch
          <6> QED BY <6>2, <6>3
        <5>2. CASE pc[d] # "store"
          BY <1>1, <5>2 DEF CopyInv
        <5> QED BY <5>1, <5>2
      <4>5. Is(d, "patch", 200)' => at'[d] > 2
        BY <1>0, <1>1 DEF MapInv, Is
      <4> QED BY <4>3, <4>4, <4>5 DEF MapInv
    <3> QED BY <3>1, <3>2
  <2> QED BY <2>4, <2>5
<1> QED BY <1>2, <1>3, <1>4, <1>5, <1>6 DEF Step

-----------------------------------------------------------------------------
(* The pods.                                                               *)

LEMMA RemoveAtTakesOne ==
  ASSUME NEW S, NEW s \in Seq(S), NEW i \in 1..Len(s),
         \A j, k \in 1..Len(s) : s[j] = s[k] => j = k
  PROVE  LET r == RemoveAt(s, i)
         IN  /\ \A p : p \in ToSet(r) <=> p \in ToSet(s) /\ p # s[i]
             /\ \A j, k \in 1..Len(r) : r[j] = r[k] => j = k
<1>1. PICK r \in Seq(S) : /\ r = RemoveAt(s, i) /\ Len(r) = Len(s) - 1
                          /\ \A j \in 1..Len(s) - 1 : r[j] = IF j < i THEN s[j] ELSE s[j + 1]
  <2>1. /\ RemoveAt(s, i) \in Seq(S) /\ Len(RemoveAt(s, i)) = Len(s) - 1
        /\ \A j \in 1..Len(s) - 1 : RemoveAt(s, i)[j] = IF j < i THEN s[j] ELSE s[j + 1]
    BY RemoveAtShifts
  <2> DEFINE r == RemoveAt(s, i)
  <2> HIDE DEF r
  <2>2. /\ r \in Seq(S) /\ r = RemoveAt(s, i) /\ Len(r) = Len(s) - 1
        /\ \A j \in 1..Len(s) - 1 : r[j] = IF j < i THEN s[j] ELSE s[j + 1]
    BY <2>1 DEF r
  <2> QED BY <2>2
<1>2. \A j, k \in 1..Len(r) : r[j] = r[k] => j = k
  <2> SUFFICES ASSUME NEW j \in 1..Len(r), NEW k \in 1..Len(r), r[j] = r[k] PROVE j = k
    OBVIOUS
  <2> DEFINE Old(x) == IF x < i THEN x ELSE x + 1
  <2>1. \A x \in 1..Len(r) : Old(x) \in 1..Len(s) /\ r[x] = s[Old(x)]
    BY <1>1
  <2>2. Old(j) = Old(k)
    BY <2>1
  <2> QED BY <2>2, <1>1
<1>3. ASSUME NEW p, p \in ToSet(r) PROVE p \in ToSet(s) /\ p # s[i]
  <2>1. PICK j \in 1..Len(r) : r[j] = p
    BY <1>3, ToSetIsRange
  <2>2. PICK x \in 1..Len(s) : x # i /\ s[x] = p
    BY <1>1, <2>1
  <2> QED BY <2>2, ToSetIsRange
<1>4. ASSUME NEW p, p \in ToSet(s), p # s[i] PROVE p \in ToSet(r)
  <2>1. PICK x \in 1..Len(s) : s[x] = p
    BY <1>4, ToSetIsRange
  <2>2. PICK j \in 1..Len(r) : r[j] = p
    <3>1. CASE x < i
      BY <3>1, <2>1, <1>1
    <3>2. CASE ~(x < i)
      <4>1. x - 1 \in 1..Len(s) - 1 /\ ~(x - 1 < i) /\ (x - 1) + 1 = x
        BY <3>2, <2>1, <1>4
      <4> QED BY <4>1, <2>1, <1>1
    <3> QED BY <3>1, <3>2
  <2> QED BY <2>2, ToSetIsRange
<1> QED BY <1>1, <1>2, <1>3, <1>4, Zenon

\* Steps that concern no pod.
LEMMA PodsFrame ==
  ASSUME TypeOK, PodsInv, UNCHANGED <<pods, op, found, before>>, NEW c \in Calls,
         op[c].kind \notin {"remove", "list"}, pc'[c] \notin {"start", "scan", "pop"},
         \A d \in Calls \ {c} : /\ pc'[d] = pc[d] /\ answer'[d] = answer[d] /\ at'[d] = at[d]
                                /\ pc[d] = "insert" \/ raced'[d] = raced[d],
         \A d \in Calls : KindInv(d)
  PROVE  PodsInv'
<1>1. \A d \in Calls, http \in {200, 404, 500} :
        /\ Is(d, "remove", http)' <=> Is(d, "remove", http)
        /\ Is(d, "list", http)' <=> Is(d, "list", http)
  BY DEF Is
<1>2. \A d \in Calls : op[d].kind \in {"remove", "list"} => raced'[d] = raced[d]
  BY DEF KindInv
<1>3. EveryPodAccounted'
  BY <1>1 DEF PodsInv, EveryPodAccounted
<1>4. UnracedIsExact'
  BY <1>1, <1>2 DEF PodsInv, UnracedIsExact, Is
<1>5. ASSUME NEW d \in Calls PROVE ScanInv(d)'
  <2>1. CASE d = c
    BY <2>1 DEF ScanInv
  <2>2. CASE d # c
    BY <2>2 DEF PodsInv, ScanInv
  <2> QED BY <2>1, <2>2
<1>6. NoRepetition'
  BY DEF PodsInv, NoRepetition
<1> QED BY <1>3, <1>4, <1>5, <1>6 DEF PodsInv

LEMMA PodsStep ==
  ASSUME TypeOK, PodsInv, NameInv, \A d \in Calls : KindInv(d), NEW c \in Calls, Step(c)
  PROVE  PodsInv'
<1>0. op' = op
  BY DEF Step, Begin, Scan, Pop, Check, Insert, Find, Copy, Store, cluster, locals, history
<1>1. \A d \in Calls \ {c} : pc'[d] = pc[d] /\ answer'[d] = answer[d] /\ at'[d] = at[d]
  BY Moves DEF Step, Begin, Scan, Pop, Check, Insert, Find, Copy, Store, locals
<1>p. pods \in Seq(Pod) /\ \A p : p \in ToSet(pods) <=> \E j \in 1..Len(pods) : pods[j] = p
  BY ToSetIsRange DEF TypeOK
<1>2. CASE Check(c) \/ Insert(c) \/ Find(c) \/ Copy(c) \/ Store(c)
  <2>1. /\ UNCHANGED <<pods, found, before>> /\ op[c].kind \notin {"remove", "list"}
        /\ pc'[c] \notin {"start", "scan", "pop"}
    BY <1>2, Moves DEF Check, Insert, Find, Copy, Store, cluster, locals, history, KindInv
  <2>2. \A d \in Calls \ {c} : pc[d] = "insert" \/ raced'[d] = raced[d]
    <3>1. CASE Insert(c)
      <4>1. raced' = [d \in Calls |-> raced[d] \/ (pc[d] = "insert" /\ \E e \in Calls \ {d} : pc[e] = "insert")]
        BY <3>1 DEF Insert
      <4> QED BY <4>1 DEF TypeOK
    <3>2. CASE ~Insert(c)
      BY <1>2, <3>2 DEF Check, Find, Copy, Store, history
    <3> QED BY <3>1, <3>2
  <2> QED BY <1>0, <1>1, <2>1, <2>2, PodsFrame
<1>3. CASE Begin(c)
  <2>1. /\ UNCHANGED <<pods, found, raced, at>> /\ answer' = answer /\ answer[c] = 0
        /\ pc[c] = "start" /\ pc'[c] = "scan" /\ op[c].kind \in {"remove", "list"}
        /\ before'[c] = ToSet(pods) /\ at[c] = 1
        /\ \A d \in Calls \ {c} : before'[d] = before[d]
    BY <1>3, Moves DEF Begin, cluster, locals, KindInv, TypeOK
  <2>2. ScanInv(c)'
    BY <1>0, <2>1 DEF PodsInv, ScanInv
  <2>3. \A d \in Calls \ {c} : ScanInv(d)'
    BY <1>0, <1>1, <2>1 DEF PodsInv, ScanInv
  <2>4. EveryPodAccounted'
    BY <1>0, <2>1 DEF PodsInv, EveryPodAccounted, Is
  <2>5. UnracedIsExact'
    BY <1>0, <1>1, <2>1, <2>2, <2>3 DEF PodsInv, UnracedIsExact, ScanInv, Is
  <2> QED BY <2>1, <2>2, <2>3, <2>4, <2>5 DEF PodsInv, NoRepetition
<1>4. CASE Scan(c)
  <2>1. /\ UNCHANGED <<pods, raced, before>> /\ answer[c] = 0 /\ pc[c] = "scan"
        /\ op[c].kind \in {"remove", "list"} /\ at[c] \in Nat \ {0}
        /\ \A d \in Calls \ {c} : found'[d] = found[d]
    BY <1>4 DEF Scan, cluster, history, KindInv, TypeOK
  <2>2. \A d \in Calls \ {c} : ScanInv(d)'
    BY <1>0, <1>1, <2>1 DEF PodsInv, ScanInv
  <2>3. NoRepetition'
    BY <2>1 DEF PodsInv, NoRepetition
  <2>4. ASSUME ~Is(c, "remove", 200)' PROVE EveryPodAccounted'
    <3>1. \A d \in Calls : /\ Is(d, "remove", 200)' <=> Is(d, "remove", 200)
                           /\ Is(d, "remove", 200) => found'[d] = found[d]
      BY <1>0, <1>1, <2>1, <2>4 DEF Is
    <3> QED BY <2>1, <3>1 DEF PodsInv, EveryPodAccounted
  <2>5. CASE /\ at[c] > Len(pods) /\ UNCHANGED <<at, found>>
             /\ Return(c, IF op[c].kind = "list" THEN 200 ELSE 404)
    <3>1. pc'[c] = "done" /\ answer'[c] = IF op[c].kind = "list" THEN 200 ELSE 404
      BY <2>5, Moves
    <3>2. ~raced[c] => \A p \in before[c] : \E j \in 1..Len(pods) : j < at[c] /\ pods[j] = p
      BY <1>p, <2>1, <2>5 DEF PodsInv, ScanInv
    <3>3. Is(c, "remove", 404)' /\ ~raced[c] => op[c].pod \notin before[c]
      BY <1>0, <2>1, <3>2 DEF PodsInv, ScanInv, Is
    <3>4. Is(c, "list", 200)' /\ ~raced[c] => found[c] = before[c] \cap op[c].selected
      <4> SUFFICES ASSUME op[c].kind = "list", ~raced[c]
                   PROVE  found[c] = before[c] \cap op[c].selected
        BY <1>0 DEF Is
      <4>1. found[c] \subseteq before[c] \cap op[c].selected
        BY DEF PodsInv, ScanInv
      <4>2. ASSUME NEW p \in before[c] \cap op[c].selected PROVE p \in found[c]
        BY <2>1, <3>2 DEF PodsInv, ScanInv
      <4> QED BY <4>1, <4>2
    <3>5. UnracedIsExact'
      BY <1>0, <1>1, <2>1, <2>5, <3>1, <3>3, <3>4 DEF PodsInv, UnracedIsExact, Is
    <3>6. ScanInv(c)'
      BY <1>0, <2>1, <2>5, <3>1 DEF PodsInv, ScanInv
    <3> QED BY <1>0, <2>2, <2>3, <2>4, <3>1, <3>5, <3>6 DEF PodsInv, Is
  <2>6. CASE Found(c) /\ Goto(c, "pop") /\ UNCHANGED <<at, found>>
    <3>1. pc'[c] = "pop" /\ answer' = answer
      BY <2>6, Moves
    <3>2. ScanInv(c)'
      BY <1>0, <2>1, <2>6, <3>1 DEF PodsInv, ScanInv, Found
    <3>3. UnracedIsExact'
      BY <1>0, <2>1, <2>6, <3>1 DEF PodsInv, UnracedIsExact, Is
    <3> QED BY <1>0, <2>1, <2>2, <2>3, <2>4, <3>1, <3>2, <3>3 DEF PodsInv, Is
  <2>7. CASE /\ at[c] <= Len(pods) /\ ~Found(c) /\ Advance(c) /\ UNCHANGED <<pc, answer>>
             /\ found' = [found EXCEPT ![c] =
                  IF op[c].kind = "list" THEN @ \cup ({pods[at[c]]} \cap op[c].selected) ELSE @]
    <3>1. /\ at'[c] = at[c] + 1 /\ at[c] \in 1..Len(pods)
          /\ found'[c] = IF op[c].kind = "list" THEN found[c] \cup ({pods[at[c]]} \cap op[c].selected)
                         ELSE found[c]
      BY <2>1, <2>7, Moves DEF TypeOK
    <3>2. pods[at[c]] \in before[c]
      BY <1>p, <2>1, <3>1 DEF PodsInv, ScanInv
    <3>3. op[c].kind = "list" => found'[c] \subseteq before[c] \cap op[c].selected
      BY <3>1, <3>2 DEF PodsInv, ScanInv
    <3>4. ASSUME ~raced[c], NEW j \in 1..Len(pods), j < at'[c]
          PROVE  IF op[c].kind = "remove" THEN pods[j] # op[c].pod
                 ELSE pods[j] \in op[c].selected => pods[j] \in found'[c]
      <4>1. CASE j < at[c]
        BY <2>1, <3>1, <3>4, <4>1 DEF PodsInv, ScanInv
      <4>2. CASE j = at[c]
        BY <2>1, <2>7, <3>1, <4>2 DEF Found
      <4> QED BY <3>1, <3>4, <4>1, <4>2
    <3>5. ScanInv(c)'
      BY <1>0, <2>1, <2>7, <3>3, <3>4 DEF PodsInv, ScanInv
    <3>6. UnracedIsExact'
      BY <1>0, <2>1, <2>7, <3>3 DEF PodsInv, UnracedIsExact, Is
    <3> QED BY <1>0, <2>1, <2>2, <2>3, <2>4, <2>7, <3>5, <3>6 DEF PodsInv, Is
  <2> QED BY <1>4, <2>5, <2>6, <2>7 DEF Scan
<1>5. CASE Pop(c)
  <2>1. /\ before' = before /\ at' = at /\ answer[c] = 0 /\ pc[c] = "pop" /\ pc'[c] = "done"
        /\ op[c].kind = "remove" /\ at[c] \in Nat \ {0}
        /\ \A d \in Calls \ {c} : found'[d] = found[d]
    BY <1>5, Moves DEF Pop, KindInv, TypeOK
  <2>2. CASE at[c] > Len(pods)
    <3>1. UNCHANGED <<pods, found, raced>> /\ answer'[c] = 500
      BY <1>5, <2>1, <2>2, Moves DEF Pop
    <3>2. raced[c]
      BY <2>1, <2>2 DEF PodsInv, ScanInv
    <3>3. \A d \in Calls : Is(d, "remove", 200)' <=> Is(d, "remove", 200)
      BY <1>0, <1>1, <2>1, <3>1 DEF Is
    <3>4. EveryPodAccounted'
      BY <3>1, <3>3 DEF PodsInv, EveryPodAccounted
    <3>5. UnracedIsExact'
      BY <1>0, <1>1, <2>1, <3>1, <3>2 DEF PodsInv, UnracedIsExact, Is
    <3>6. \A d \in Calls : ScanInv(d)'
      BY <1>0, <1>1, <2>1, <3>1 DEF PodsInv, ScanInv
    <3> QED BY <3>1, <3>4, <3>5, <3>6 DEF PodsInv, NoRepetition
  <2>3. CASE at[c] <= Len(pods)
    <3> DEFINE x == pods[at[c]]
    <3>1. /\ at[c] \in 1..Len(pods) /\ pods' = RemoveAt(pods, at[c]) /\ answer'[c] = 200
          /\ found'[c] = {x} /\ x \in ToSet(pods) /\ x \in Pod
      BY <1>5, <1>p, <2>1, <2>3, Moves DEF Pop, TypeOK
    <3>2. /\ \A d \in Calls : raced[d] => raced'[d]
          /\ \A d \in Calls \ {c} : pc[d] \in {"scan", "pop"} => raced'[d]
          /\ \A d \in Calls : d = c \/ pc[d] \notin {"scan", "pop"} => raced'[d] = raced[d]
      <4>1. raced' = [d \in Calls |-> raced[d] \/ (d # c /\ pc[d] \in {"scan", "pop"})]
        BY <1>5, <2>3 DEF Pop
      <4>2. \A d \in Calls : raced'[d] = (raced[d] \/ (d # c /\ pc[d] \in {"scan", "pop"}))
        BY <4>1
      <4>3. \A d \in Calls : raced[d] \in BOOLEAN
        BY DEF TypeOK
      <4>4. \A d \in Calls : d = c \/ pc[d] \notin {"scan", "pop"} => raced'[d] = raced[d]
        BY <4>2, <4>3
      <4> QED BY <4>2, <4>4
    <3>3. \A p : p \in ToSet(pods') <=> p \in ToSet(pods) /\ p # x
      BY <1>p, <3>1, RemoveAtTakesOne DEF PodsInv, NoRepetition
    <3>4. NoRepetition'
      BY <1>p, <3>1, RemoveAtTakesOne DEF PodsInv, NoRepetition
    <3>5. /\ Is(c, "remove", 200)' /\ ~Is(c, "remove", 200)
          /\ \A d \in Calls \ {c} : Is(d, "remove", 200)' <=> Is(d, "remove", 200)
      BY <1>0, <1>1, <2>1, <3>1 DEF Is
    <3>6. EveryPodAccounted'
      <4>1. \A d \in Calls \ {c} : Is(d, "remove", 200) => x \notin found[d]
        BY <3>1 DEF PodsInv, EveryPodAccounted
      <4>2. ASSUME NEW p \in Pod
            PROVE  p \in ToSet(pods') <=>
                     p \in ToSet(DefaultPods) /\ \A d \in Calls : Is(d, "remove", 200)' => p \notin found'[d]
        BY <2>1, <3>1, <3>3, <3>5 DEF PodsInv, EveryPodAccounted
      <4>3. ASSUME NEW d \in Calls, NEW e \in Calls, d # e, Is(d, "remove", 200)', Is(e, "remove", 200)'
            PROVE  found'[d] \cap found'[e] = {}
        BY <2>1, <3>1, <3>5, <4>1, <4>3 DEF PodsInv, EveryPodAccounted
      <4>4. ASSUME NEW d \in Calls, Is(d, "remove", 200)' PROVE found'[d] # {}
        <5>1. CASE d = c
          <6>1. x \in found'[c]
            BY <3>1
          <6> QED BY <5>1, <6>1
        <5>2. CASE d # c
          BY <2>1, <3>5, <4>4, <5>2 DEF PodsInv, EveryPodAccounted
        <5> QED BY <5>1, <5>2
      <4> QED BY <4>2, <4>3, <4>4 DEF EveryPodAccounted
    <3>7. UnracedIsExact'
      <4>1. ~raced'[c] => found'[c] = {op[c].pod}
        BY <2>1, <3>1, <3>2 DEF PodsInv, ScanInv
      <4>2. ASSUME NEW d \in Calls \ {c}
            PROVE  /\ found'[d] = found[d] /\ op'[d] = op[d] /\ before'[d] = before[d]
                   /\ answer'[d] = answer[d] /\ (answer[d] # 0 => raced'[d] = raced[d])
                   /\ (raced[d] => raced'[d])
        <5>1. answer[d] # 0 => pc[d] = "done"
          BY DEF TypeOK
        <5> QED BY <1>0, <1>1, <2>1, <3>2, <5>1
      <4>3. UnracedIsExact
        BY DEF PodsInv
      <4>4. ASSUME NEW d \in Calls
            PROVE  /\ Is(d, "remove", 200)' /\ ~raced'[d] => found'[d] = {op'[d].pod}
                   /\ Is(d, "remove", 404)' /\ ~raced'[d] => op'[d].pod \notin before'[d]
                   /\ Is(d, "remove", 500)' => raced'[d]
                   /\ op'[d].kind = "list" => found'[d] \subseteq before'[d] \cap op'[d].selected
                   /\ Is(d, "list", 200)' /\ ~raced'[d] =>
                        found'[d] = before'[d] \cap op'[d].selected
        <5>1. CASE d = c
          <6>1. answer'[d] = 200 /\ op'[d].kind = "remove"
            BY <1>0, <2>1, <3>1, <5>1
          <6>2. ~raced'[d] => found'[d] = {op'[d].pod}
            BY <1>0, <4>1, <5>1, Zenon
          <6> QED BY <6>1, <6>2 DEF Is
        <5>2. CASE d # c
          BY <4>2, <4>3, <5>2 DEF UnracedIsExact, Is
        <5> QED BY <5>1, <5>2
      <4> QED BY <4>4 DEF UnracedIsExact
    <3>8. ScanInv(c)'
      BY <1>0, <2>1 DEF ScanInv
    <3>9. ASSUME NEW d \in Calls \ {c} PROVE ScanInv(d)'
      <4>1. ToSet(pods') \subseteq ToSet(pods)
        BY <3>3
      <4>2. CASE pc[d] \in {"scan", "pop"}
        BY <1>0, <1>1, <2>1, <3>2, <4>1, <4>2 DEF PodsInv, ScanInv
      <4>3. CASE pc[d] \notin {"scan", "pop"}
        BY <1>0, <1>1, <2>1, <3>2, <4>3 DEF PodsInv, ScanInv
      <4> QED BY <4>2, <4>3
    <3> QED BY <3>4, <3>6, <3>7, <3>8, <3>9 DEF PodsInv
  <2> QED BY <2>1, <2>2, <2>3, <1>p
<1> QED BY <1>2, <1>3, <1>4, <1>5 DEF Step

-----------------------------------------------------------------------------
(* The theorems.                                                           *)

LEMMA InitInv == Init => IInv
<1> SUFFICES ASSUME Init PROVE IInv
  OBVIOUS
<1>1. TypeOK
  BY TypeInit
<1>2. \A c \in Calls : /\ pc[c] = "start" /\ at[c] = 1 /\ found[c] = {} /\ answer[c] = 0
                       /\ raced[c] = FALSE
  BY DEF Init
<1>3. \A c \in Calls : \A kind, http : http # 0 => ~Is(c, kind, http)
  BY <1>2 DEF Is
<1>4. \A c \in Calls : KindInv(c)
  BY <1>2 DEF KindInv
<1>5. PodsInv
  <2>1. NoRepetition
    BY PodsAssumption DEF Init, NoRepetition
  <2>2. EveryPodAccounted
    BY <1>3 DEF Init, EveryPodAccounted
  <2>3. UnracedIsExact
    BY <1>2, <1>3 DEF UnracedIsExact
  <2>4. \A c \in Calls : ScanInv(c)
    BY <1>2 DEF ScanInv
  <2> QED BY <2>1, <2>2, <2>3, <2>4 DEF PodsInv
<1>6. NameInv
  BY <1>2, <1>3 DEF Init, NameInv, CreatedStays, Created, Inserting
<1>7. \A c \in Calls : MapInv(c)
  BY <1>2, <1>3 DEF MapInv, StoredInv, CopyInv, Patching
<1> QED BY <1>1, <1>4, <1>5, <1>6, <1>7 DEF IInv

\* The invariant that says what each thread still knows of the shared state, as
\* long as no other has come between, is preserved by every step.
THEOREM Inductive == IInv /\ [Next]_vars => IInv'
<1> SUFFICES ASSUME IInv, [Next]_vars PROVE IInv'
  OBVIOUS
<1>1. CASE UNCHANGED vars
  <2>1. TypeOK' /\ \A c \in Calls : KindInv(c)'
    BY <1>1 DEF vars, IInv, TypeOK, KindInv
  <2>2. PodsInv'
    BY <1>1
    DEF vars, IInv, PodsInv, NoRepetition, EveryPodAccounted, UnracedIsExact, ScanInv, Is
  <2>3. NameInv'
    BY <1>1 DEF vars, IInv, NameInv, CreatedStays, Created, Inserting, Is
  <2>4. \A c \in Calls : MapInv(c)'
    BY <1>1 DEF vars, IInv, MapInv, StoredInv, CopyInv, Patching, FieldAt, Is
  <2> QED BY <2>1, <2>2, <2>3, <2>4 DEF IInv
<1>2. ASSUME NEW c \in Calls, Step(c) PROVE IInv'
  BY <1>2, TypeStep, KindStep, PodsStep, NameStep, MapStep DEF IInv
<1> QED BY <1>1, <1>2 DEF Next

LEMMA Invariant == Spec => []IInv
  BY InitInv, Inductive, PTL DEF Spec

\* The cluster and the calls keep their types; a call is done when it has answered.
THEOREM TypeCorrect == Spec => []TypeOK
<1>1. IInv => TypeOK
  BY DEF IInv
<1> QED BY <1>1, Invariant, PTL

\* However the threads' indices have moved, each accepted eviction or deletion
\* took one pod, no two the same, and no pod is gone otherwise.
THEOREM PodsAccounted == Spec => []EveryPodAccounted
<1>1. IInv => EveryPodAccounted
  BY DEF IInv, PodsInv
<1> QED BY <1>1, Invariant, PTL

\* A removal or listing that no other removal interrupted has the right pods.
THEOREM ExactUnlessRaced == Spec => []UnracedIsExact
<1>1. IInv => UnracedIsExact
  BY DEF IInv, PodsInv
<1> QED BY <1>1, Invariant, PTL

\* A created namespace is replaced only when two creates passed the check together.
THEOREM CreationStays == Spec => []CreatedStays
<1>1. IInv => CreatedStays
  BY DEF IInv, NameInv
<1> QED BY <1>1, Invariant, PTL

\* A patch's entries are lost only to a call that names them or copied too early.
THEOREM NoPatchLost == Spec => []PatchesKept
<1>1. IInv => PatchesKept
  <2> SUFFICES ASSUME IInv, NEW c \in Calls, Is(c, "patch", 200), NEW f \in Fields,
                      NEW k \in DOMAIN op[c][f] \ lost[c][f]
               PROVE  map[ref[c]][f][k] = op[c][f][k]
    BY DEF PatchesKept
  <2>1. at[c] > 2 /\ StoredInv(c) /\ Patching(c) /\ at[c] \in Nat
    BY DEF IInv, MapInv, Patching, Is, TypeOK
  <2>2. Position(f) < at[c]
    BY <2>1 DEF Position
  <2> QED BY <2>1, <2>2 DEF StoredInv
<1> QED BY <1>1, Invariant, PTL
=============================================================================
