---------------------------- MODULE DryRunCluster ----------------------------
(***************************************************************************)
(* The cluster that stands in for Kubernetes with DRY_RUN_MODE:            *)
(* DryRunCoreV1Api (app/services/dry_run_kube_client.py) over one          *)
(* _ClusterState that all its clients share without a lock.                *)
(*                                                                         *)
(* call_kube runs every call in a worker thread, so that any number of     *)
(* them are under way.  A step is what one thread does to the shared state *)
(* before the interpreter may switch to another: one turn of a loop, one   *)
(* built-in operation on a list or dict, one assignment to an attribute.   *)
(*                                                                         *)
(* There is one node with metadata, and one name that a namespace may get; *)
(* labels and annotations are maps, with None for no entry.  Calls that    *)
(* only take one look (a node, a namespace, all of either) are left out,   *)
(* and so is reset_dry_run_clusters, which only tests call.                *)
(***************************************************************************)
EXTENDS Naturals, SequencesExt

CONSTANTS
  Calls,        \* calls of the stand-in's methods
  Pod,
  DefaultPods,  \* _default_pods(): a sequence without repetition
  Key,          \* label and annotation keys
  Value,
  None,         \* no entry; in a patch, a null; no namespace; no spec
  Ops           \* what calls ask for: see Removals, ... below

Node == "node"
Fields == {"labels", "annotations"}
Map == [Key -> Value \cup {None}]
NoEntries == [k \in Key |-> None]
Patches == UNION {[D -> Value \cup {None}] : D \in SUBSET Key}

\* Evictions and deletions, listings with a selector, creations, patches.
Removals == [kind : {"remove"}, pod : Pod]
Listings == [kind : {"list"}, selected : SUBSET Pod]
Creations == [kind : {"create"}, labels : Patches, annotations : Patches]
Updates == [kind : {"patch"}, object : {Node, "namespace"}, unschedulable : BOOLEAN \cup {None},
            labels : Patches, annotations : Patches]

ASSUME PodsAssumption ==
  /\ DefaultPods \in Seq(Pod)
  /\ \A i, j \in 1..Len(DefaultPods) : DefaultPods[i] = DefaultPods[j] => i = j
ASSUME OpsAssumption == \A o \in Ops : o \in Removals \/ o \in Listings \/ o \in Creations \/ o \in Updates
ASSUME NoneAssumption == None \notin Value \cup Calls \cup BOOLEAN
ASSUME NodeAssumption == Node \notin Calls

VARIABLES
  \* _ClusterState
  pods,           \* the list
  unschedulable,  \* the node's spec
  bound,          \* the V1Namespace in the dict, named by the call that made it
  map,            \* map[o][f]: labels and annotations of the object o
  \* the threads
  op,             \* op[c]: what call c is
  pc,             \* pc[c]: its next step
  at,             \* at[c]: the index of a loop over pods or fields
  found,          \* found[c]: the pods it lists, or the one it removed
  ref,            \* ref[c]: the object it patches
  copy,           \* copy[c]: the merged map it is about to store
  answer,         \* answer[c]: an HTTP status, 0 for none yet
  \* history
  before,         \* before[c]: the pods there were when c began
  raced,          \* raced[c]: others removed pods during the scan of c, or
                  \* made the namespace while c did
  behind,         \* behind[c]: the map has changed since c copied it
  lost            \* lost[c][f]: keys that others may have changed since c stored f

cluster == <<pods, unschedulable, bound, map>>
locals == <<at, found, ref, copy>>
history == <<before, raced, behind, lost>>
vars == <<pods, unschedulable, bound, map, op, pc, at, found, ref, copy, answer,
          before, raced, behind, lost>>

Init ==
  /\ pods = DefaultPods
  /\ unschedulable = FALSE
  /\ bound = None
  /\ map = [o \in Calls \cup {Node} |-> [f \in Fields |-> NoEntries]]
  /\ op \in [Calls -> Ops]
  /\ pc = [c \in Calls |-> "start"]
  /\ at = [c \in Calls |-> 1]
  /\ found = [c \in Calls |-> {}]
  /\ ref = [c \in Calls |-> None]
  /\ copy = [c \in Calls |-> NoEntries]
  /\ answer = [c \in Calls |-> 0]
  /\ before = [c \in Calls |-> {}]
  /\ raced = [c \in Calls |-> FALSE]
  /\ behind = [c \in Calls |-> FALSE]
  /\ lost = [c \in Calls |-> [f \in Fields |-> {}]]

-----------------------------------------------------------------------------
Goto(c, l) == pc' = [pc EXCEPT ![c] = l] /\ UNCHANGED answer

Return(c, http) ==
  /\ pc' = [pc EXCEPT ![c] = "done"]
  /\ answer' = [answer EXCEPT ![c] = http]

Advance(c) == at' = [at EXCEPT ![c] = @ + 1]

-----------------------------------------------------------------------------
(* Pods: _remove_pod, and the comprehension of a listing.                  *)

Begin(c) ==
  /\ pc[c] = "start" /\ op[c].kind \in {"remove", "list"}
  /\ before' = [before EXCEPT ![c] = ToSet(pods)]
  /\ Goto(c, "scan")
  /\ UNCHANGED <<cluster, op, locals, raced, behind, lost>>

\* A turn of the loop at the index that the list has now.
Found_AnyPod(c) == at[c] <= Len(pods) /\ op[c].kind = "remove"

Found(c) == at[c] <= Len(pods) /\ op[c].kind = "remove" /\ pods[at[c]] = op[c].pod

Scan(c) ==
  /\ pc[c] = "scan"
  /\ \/ /\ at[c] > Len(pods)
        /\ Return(c, IF op[c].kind = "list" THEN 200 ELSE 404)
        /\ UNCHANGED <<at, found>>
     \/ /\ Found(c)
        /\ Goto(c, "pop")
        /\ UNCHANGED <<at, found>>
     \/ /\ at[c] <= Len(pods) /\ ~Found(c)
        /\ Advance(c)
        /\ found' = [found EXCEPT ![c] =
             IF op[c].kind = "list" THEN @ \cup ({pods[at[c]]} \cap op[c].selected) ELSE @]
        /\ UNCHANGED <<pc, answer>>
  /\ UNCHANGED <<cluster, op, ref, copy, history>>

\* By a copy of the list without the pod.
Pop_Rebuild(c) ==
  /\ pc[c] = "pop"
  /\ pods' = SelectSeq(pods, LAMBDA p : p # op[c].pod)
  /\ found' = [found EXCEPT ![c] = {op[c].pod}]
  /\ raced' = [d \in Calls |-> raced[d] \/ (d # c /\ pc[d] \in {"scan", "pop"})]
  /\ Return(c, 200)
  /\ UNCHANGED <<unschedulable, bound, map, op, at, ref, copy, before, behind, lost>>

\* list.pop(index), of whatever is at the index by now; an index past the end
\* raises IndexError, which nothing above translates.
Pop(c) ==
  /\ pc[c] = "pop"
  /\ IF at[c] <= Len(pods)
     THEN /\ pods' = RemoveAt(pods, at[c])
          /\ found' = [found EXCEPT ![c] = {pods[at[c]]}]
          /\ raced' = [d \in Calls |-> raced[d] \/ (d # c /\ pc[d] \in {"scan", "pop"})]
          /\ Return(c, 200)
     ELSE Return(c, 500) /\ UNCHANGED <<pods, found, raced>>
  /\ UNCHANGED <<unschedulable, bound, map, op, at, ref, copy, before, behind, lost>>

-----------------------------------------------------------------------------
(* Namespaces: create_namespace, a check and then an insertion.            *)

Check_Overwrites(c) ==
  /\ pc[c] = "start" /\ op[c].kind = "create"
  /\ Goto(c, "insert")
  /\ UNCHANGED <<cluster, op, locals, history>>

Check(c) ==
  /\ pc[c] = "start" /\ op[c].kind = "create"
  /\ IF bound # None THEN Return(c, 409) ELSE Goto(c, "insert")
  /\ UNCHANGED <<cluster, op, locals, history>>

MergePatch_SetOnly(entries, patch) ==
  [k \in Key |-> IF k \in DOMAIN patch /\ patch[k] # None THEN patch[k] ELSE entries[k]]

MergePatch(entries, patch) ==
  [k \in Key |-> IF k \in DOMAIN patch THEN patch[k] ELSE entries[k]]

Insert(c) ==
  /\ pc[c] = "insert"
  /\ bound' = c
  /\ map' = [map EXCEPT ![c] = [f \in Fields |-> MergePatch(NoEntries, op[c][f])]]
  /\ raced' = [d \in Calls |->
       raced[d] \/ (pc[d] = "insert" /\ \E e \in Calls \ {d} : pc[e] = "insert")]
  /\ Return(c, 201)
  /\ UNCHANGED <<pods, unschedulable, op, locals, before, behind, lost>>

-----------------------------------------------------------------------------
(* patch_node and patch_namespace: each field is copied, merged and stored *)
(* back.  A node's field without a patch is skipped, a namespace's is not. *)

FieldAt(c) == IF at[c] = 1 THEN "labels" ELSE "annotations"
Skipped(c) == op[c].object = Node /\ DOMAIN op[c][FieldAt(c)] = {}

\* The object, and of a node the spec, an assignment of its own.
Find(c) ==
  /\ pc[c] = "start" /\ op[c].kind = "patch"
  /\ IF op[c].object = "namespace" /\ bound = None
     THEN Return(c, 404) /\ UNCHANGED <<unschedulable, ref>>
     ELSE /\ Goto(c, "copy")
          /\ ref' = [ref EXCEPT ![c] = IF op[c].object = Node THEN Node ELSE bound]
          /\ unschedulable' = IF op[c].object = Node /\ op[c].unschedulable # None
                              THEN op[c].unschedulable ELSE unschedulable
  /\ UNCHANGED <<pods, bound, map, op, at, found, copy, history>>

Copy(c) ==
  /\ pc[c] = "copy"
  /\ \/ at[c] > 2 /\ Return(c, 200) /\ UNCHANGED <<at, copy, behind>>
     \/ at[c] <= 2 /\ Skipped(c) /\ Advance(c) /\ UNCHANGED <<pc, answer, copy, behind>>
     \/ /\ at[c] <= 2 /\ ~Skipped(c)
        /\ copy' = [copy EXCEPT ![c] = MergePatch(map[ref[c]][FieldAt(c)], op[c][FieldAt(c)])]
        /\ behind' = [behind EXCEPT ![c] = FALSE]
        /\ Goto(c, "store")
        /\ UNCHANGED at
  /\ UNCHANGED <<cluster, op, found, ref, before, raced, lost>>

\* What a store may change: the keys it names, or all if it copied too early.
Touched(c) == IF behind[c] THEN Key ELSE DOMAIN op[c][FieldAt(c)]

Store(c) ==
  LET f == FieldAt(c)
      Same(d) == d # c /\ ref[d] = ref[c]
  IN  /\ pc[c] = "store"
      /\ map' = [map EXCEPT ![ref[c]][f] = copy[c]]
      /\ behind' = [d \in Calls |->
           behind[d] \/ (Same(d) /\ pc[d] = "store" /\ FieldAt(d) = f)]
      /\ lost' = [d \in Calls |->
           IF d = c THEN [lost[d] EXCEPT ![f] = {}]
           ELSE IF Same(d) THEN [lost[d] EXCEPT ![f] = @ \cup Touched(c)] ELSE lost[d]]
      /\ Advance(c)
      /\ Goto(c, "copy")
      /\ UNCHANGED <<pods, unschedulable, bound, op, found, ref, copy, before, raced>>

-----------------------------------------------------------------------------
Step(c) ==
  Begin(c) \/ Scan(c) \/ Pop(c) \/ Check(c) \/ Insert(c) \/ Find(c) \/ Copy(c) \/ Store(c)

Next == \E c \in Calls : Step(c)

Spec == Init /\ [][Next]_vars

-----------------------------------------------------------------------------
(* Properties.  What can be relied on, and what only without a race.       *)

TypeOK ==
  /\ pods \in Seq(Pod)
  /\ unschedulable \in BOOLEAN
  /\ bound \in Calls \cup {None}
  /\ map \in [Calls \cup {Node} -> [Fields -> Map]]
  /\ op \in [Calls -> Ops]
  /\ pc \in [Calls -> {"start", "scan", "pop", "insert", "copy", "store", "done"}]
  /\ at \in [Calls -> Nat \ {0}]
  /\ found \in [Calls -> SUBSET Pod]
  /\ ref \in [Calls -> Calls \cup {Node, None}]
  /\ copy \in [Calls -> Map]
  /\ answer \in [Calls -> {0, 200, 201, 404, 409, 500}]
  /\ \A c \in Calls : pc[c] = "done" <=> answer[c] # 0
  /\ before \in [Calls -> SUBSET Pod]
  /\ raced \in [Calls -> BOOLEAN]
  /\ behind \in [Calls -> BOOLEAN]
  /\ lost \in [Calls -> [Fields -> SUBSET Key]]

Is(c, kind, http) == op[c].kind = kind /\ answer[c] = http

\* Each eviction or deletion that was accepted took one pod, no two took the
\* same, and no pod went otherwise, whatever the threads did to each other's
\* indices.
EveryPodAccounted ==
  /\ \A p \in Pod : p \in ToSet(pods) <=>
       p \in ToSet(DefaultPods) /\ \A c \in Calls : Is(c, "remove", 200) => p \notin found[c]
  /\ \A c, d \in Calls : c # d /\ Is(c, "remove", 200) /\ Is(d, "remove", 200) =>
       found[c] \cap found[d] = {}
  /\ \A c \in Calls : Is(c, "remove", 200) => found[c] # {}

\* A removal that no other interrupted took its own pod, or there was none;
\* a listing that no removal interrupted has what there was.  An interrupted
\* listing may miss a pod, but has none that was not there when it began.
UnracedIsExact ==
  \A c \in Calls :
    /\ Is(c, "remove", 200) /\ ~raced[c] => found[c] = {op[c].pod}
    /\ Is(c, "remove", 404) /\ ~raced[c] => op[c].pod \notin before[c]
    /\ Is(c, "remove", 500) => raced[c]
    /\ op[c].kind = "list" => found[c] \subseteq before[c] \cap op[c].selected
    /\ Is(c, "list", 200) /\ ~raced[c] => found[c] = before[c] \cap op[c].selected

\* The namespace that a create made is the one under its name, and what was
\* patched is patched there, unless another create was between its check and
\* its insertion at the same time.
CreatedStays ==
  \A c \in Calls :
    /\ Is(c, "create", 201) /\ ~raced[c] => bound = c
    /\ Is(c, "patch", 200) /\ op[c].object = "namespace" => bound = ref[c] \/ raced[ref[c]]

\* An entry stays as the patch left it until someone names it, or stores back
\* a map that he copied before it was there.
PatchesKept ==
  \A c \in Calls : Is(c, "patch", 200) =>
    \A f \in Fields : \A k \in DOMAIN op[c][f] \ lost[c][f] : map[ref[c]][f][k] = op[c][f][k]
=============================================================================
