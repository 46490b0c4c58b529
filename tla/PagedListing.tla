---------------------------- MODULE PagedListing ----------------------------
(***************************************************************************)
(* Requests that read a cluster: call_kube (app/services/kube_client.py)   *)
(* on the threads of the event loop's executor, with the CA file that      *)
(* clients share, and the reads it runs there: the listings of namespaces  *)
(* and ConfigMaps, page by page (namespace_service.py,                     *)
(* configmap_service.py), those of nodes and pods, in one piece, and the   *)
(* read of one object.                                                     *)
(*                                                                         *)
(* The API server serves all pages of a listing from the state that the    *)
(* first was served from, which the continue token names; a token may      *)
(* expire.  How much of the rest a page holds is its own choice: `limit'   *)
(* only bounds it, and a page may be empty.  Items are numbered in its     *)
(* order.  Labels, phases and what else filters look at are a state; the   *)
(* order of the items in an answer is that of the pages and is left out.   *)
(***************************************************************************)
EXTENDS Naturals, Sequences, FiniteSets, KubeErrors

CONSTANTS
  Listings,     \* requests that read
  Others,       \* requests that hold a thread for long: drains
  NumItems,     \* names of objects
  States, Absent, None,
  Queries,      \* Queries[r]: what listing r may ask for
  Workers,      \* threads of the executor
  ErrorStatus,  \* HTTP error statuses the API server may answer
  MaxCleanings  \* bound: files the temp directory's cleaner removes

Requests == Listings \cup Others
Items == 1 .. NumItems
Store == [Items -> States \cup {Absent}]

\* A status nobody knows and a malformed selector are faults of namespace
\* listings; the other listings have neither parameter.
Verb == {"namespaces", "configmaps", "nodes", "pods", "get"}
Query == [verb : Verb, names : SUBSET Items, statuses : SUBSET States,
          selector : SUBSET States, fault : {"none", "status", "selector"}]

ASSUME RequestsAssumption == Listings \cap Others = {} /\ "none" \notin Requests
ASSUME ItemsAssumption == NumItems \in Nat \ {0}
ASSUME StatesAssumption == Absent \notin States /\ None \notin Store
ASSUME QueriesAssumption ==
  \A r \in Listings : \A q \in Queries[r] :
    q \in Query /\ (q.verb # "namespaces" => q.fault = "none" /\ q.selector = States)
ASSUME WorkersAssumption == Workers \in Nat \ {0} /\ MaxCleanings \in Nat
ASSUME StatusAssumption == ErrorStatus \subseteq 0..599

VARIABLES
  store,            \* the cluster's objects
  queue,            \* calls that wait for a thread
  pc,               \* pc[r]: where the call of request r is
  query,            \* query[r]: what listing r asks for
  snapshot,         \* snapshot[r]: the store its pages come from, or None
  token,            \* token[r]: the last item of the page before, or 0
  listed,           \* listed[r][i]: how often item i is in its result
  answer,           \* answer[r]: the response to listing r
  \* CA files
  lock,             \* who holds _CA_FILES_LOCK
  registered,       \* the file in _CA_FILES, or 0
  files,            \* the files in the temp directory
  whole,            \* the files that were written to the end
  path,             \* path[r]: the file r's client was given, or 0
  leftovers,        \* files whose writing failed
  created, cleaned  \* how many were created, and cleaned up

reads == <<store, query, snapshot, token, listed, answer>>
ca == <<lock, registered, files, whole, path, leftovers, created, cleaned>>
vars == <<store, queue, pc, query, snapshot, token, listed, answer, lock, registered, files,
          whole, path, leftovers, created, cleaned>>

NoOne == "none"
NotFound == "NOT_FOUND"
Failures == {"CLUSTER_NOT_FOUND", "VALIDATION_ERROR", "KUBE_API_ERROR", "INTERNAL_SERVER_ERROR"}

Promise == INSTANCE AtomicListing WITH picked <- snapshot

Init ==
  /\ Promise!Init
  /\ query \in [Listings -> UNION {Queries[r] : r \in Listings}]
  /\ \A r \in Listings : query[r] \in Queries[r]
  /\ queue = <<>>
  /\ pc = [r \in Requests |-> "new"]
  /\ token = [r \in Listings |-> 0]
  /\ listed = [r \in Listings |-> [i \in Items |-> 0]]
  /\ lock = NoOne /\ registered = 0 /\ files = {} /\ whole = {} /\ leftovers = {}
  /\ path = [r \in Requests |-> 0]
  /\ created = 0 /\ cleaned = 0

Goto(r, l) == pc' = [pc EXCEPT ![r] = l]

Respond(r, a) ==
  /\ Goto(r, "done")
  /\ answer' = IF r \in Listings THEN [answer EXCEPT ![r] = a] ELSE answer

Raise(r, code) == Respond(r, Promise!Failure(code))

-----------------------------------------------------------------------------
(* asyncio.to_thread: a call waits for one of the executor's threads.      *)

Running == {r \in Requests : pc[r] \in {"resolve", "ca", "write", "op"}}

Arrive(r) ==
  /\ pc[r] = "new"
  /\ queue' = Append(queue, r)
  /\ Goto(r, "queued")
  /\ UNCHANGED <<reads, ca>>

Start ==
  /\ queue # <<>> /\ Cardinality(Running) < Workers
  /\ Goto(Head(queue), "resolve")
  /\ queue' = Tail(queue)
  /\ UNCHANGED <<reads, ca>>

-----------------------------------------------------------------------------
(* The cluster's credentials, and a client from them.                      *)

\* A kubeconfig brings its own CA; a token may come with one.
Resolve(r) ==
  /\ pc[r] = "resolve"
  /\ \/ \E exc \in ResolveErrors : Raise(r, exc.code)
     \/ \E l \in {"ca", "op"} : Goto(r, l) /\ UNCHANGED answer
  /\ UNCHANGED <<store, queue, query, snapshot, token, listed, ca>>

\* The file of this CA is there, or it is created under the lock ...
Reusable == registered \in files

GetFile_Unlocked(r) ==
  \/ /\ Reusable
     /\ path' = [path EXCEPT ![r] = registered]
     /\ Goto(r, "op")
     /\ UNCHANGED <<lock, files, created>>
  \/ /\ ~Reusable
     /\ created' = created + 1
     /\ files' = files \cup {created'}
     /\ path' = [path EXCEPT ![r] = created']
     /\ Goto(r, "write")
     /\ UNCHANGED lock

GetFile(r) ==
  /\ lock = NoOne
  /\ \/ /\ Reusable
        /\ path' = [path EXCEPT ![r] = registered]
        /\ Goto(r, "op")
        /\ UNCHANGED <<lock, files, created>>
     \/ /\ ~Reusable
        /\ created' = created + 1
        /\ files' = files \cup {created'}
        /\ path' = [path EXCEPT ![r] = created']
        /\ lock' = r
        /\ Goto(r, "write")

FindFile(r) ==
  /\ pc[r] = "ca"
  /\ GetFile(r)
  /\ UNCHANGED <<queue, reads, registered, whole, leftovers, cleaned>>

\* ... which is kept until the file is written, closed and registered.  A file
\* that cannot even be created is like one that cannot be written.
WriteFile(r) ==
  /\ pc[r] = "write"
  /\ lock' = NoOne
  /\ \/ /\ whole' = whole \cup {path[r]}
        /\ registered' = path[r]
        /\ Goto(r, "op")
        /\ UNCHANGED <<answer, leftovers>>
     \/ /\ leftovers' = leftovers \cup {path[r]}
        /\ Raise(r, "INTERNAL_SERVER_ERROR")
        /\ UNCHANGED <<whole, registered>>
  /\ UNCHANGED <<store, queue, query, snapshot, token, listed, path, files, created, cleaned>>

-----------------------------------------------------------------------------
(* The operation.  The thread is free again when it ends, and the client   *)
(* released, whether it returned or raised.                                *)

Pinned(r) == IF snapshot[r] = None THEN store ELSE snapshot[r]

Paged(q) == q.verb \in {"namespaces", "configmaps"}

\* The API server: what it selects, up to the item that a token names, and
\* whether it says that there is more.
Selected(q, s) == {i \in Items : s[i] \in q.selector}

MayEnd(r, to, more) ==
  /\ more => Paged(query[r]) /\ to < NumItems
  /\ (\E i \in Selected(query[r], Pinned(r)) : i > to) => more

Page(r, to) == {i \in Selected(query[r], Pinned(r)) : token[r] < i /\ i <= to}

Keeps(q, i, state) == i \in q.names /\ state \in q.statuses

Collect(r, page) ==
  [i \in Items |-> IF i \in page /\ Keeps(query[r], i, Pinned(r)[i]) THEN listed[r][i] + 1
                   ELSE listed[r][i]]

\* The listing goes on as long as there is a token.
GoesOn_UntilEmpty(page, more) == more /\ page # {}

GoesOn(page, more) == more

\* A read of one object learns that there is none from a 404.
Found(r, result) ==
  IF query[r].verb = "get" /\ \A i \in Items : result[i] = 0 THEN Promise!Failure(NotFound)
  ELSE Promise!Answer("OK", result)

PageAnswered(r) ==
  /\ query[r].fault = "none"
  /\ \E to \in token[r] + 1 .. NumItems, more \in BOOLEAN :
       LET page == Page(r, to)
           result == Collect(r, page)
       IN  /\ MayEnd(r, to, more)
           /\ listed' = [listed EXCEPT ![r] = result]
           /\ snapshot' = [snapshot EXCEPT ![r] = Pinned(r)]
           /\ \/ /\ GoesOn(page, more)
                 /\ token' = [token EXCEPT ![r] = to]
                 /\ UNCHANGED <<pc, answer>>
              \/ /\ ~GoesOn(page, more)
                 /\ Respond(r, Found(r, result))
                 /\ UNCHANGED token

\* A 400 can only be about the selector, and there is one for namespaces.
PageError(q, e) ==
  IF q.verb = "namespaces" /\ e = ApiError(400) THEN "VALIDATION_ERROR" ELSE Translate(e).code

\* An expired token is a 410, one of the failures that end the listing.
PageFailed_StartsOver(r, e) ==
  IF e = ApiError(410)
  THEN /\ token' = [token EXCEPT ![r] = 0]
       /\ snapshot' = [snapshot EXCEPT ![r] = None]
       /\ listed' = [listed EXCEPT ![r] = [i \in Items |-> 0]]
       /\ UNCHANGED <<pc, answer>>
  ELSE Raise(r, PageError(query[r], e)) /\ UNCHANGED <<listed, snapshot, token>>

PageFailed(r, e) ==
  Raise(r, PageError(query[r], e)) /\ UNCHANGED <<listed, snapshot, token>>

Fetch(r) ==
  /\ r \in Listings /\ pc[r] = "op"
  /\ \/ query[r].fault = "status" /\ Raise(r, "VALIDATION_ERROR")
          /\ UNCHANGED <<listed, snapshot, token>>
     \/ PageAnswered(r)
     \/ /\ query[r].fault # "status"
        /\ \E e \in SdkErrors(ErrorStatus \ {404}) : PageFailed(r, e)
  /\ UNCHANGED <<store, queue, query, ca>>

\* Another operation ends: a drain has a budget for its wait.
Work(r) ==
  /\ r \in Others /\ pc[r] = "op"
  /\ Goto(r, "done")
  /\ UNCHANGED <<queue, reads, ca>>

ThreadStep(r) == Resolve(r) \/ FindFile(r) \/ WriteFile(r) \/ Fetch(r) \/ Work(r)

-----------------------------------------------------------------------------
(* Others: in the cluster, and in the temp directory.                      *)

Change ==
  /\ \E i \in Items, state \in States \cup {Absent} :
       store[i] # state /\ store' = [store EXCEPT ![i] = state]
  /\ UNCHANGED <<queue, pc, query, snapshot, token, listed, answer, ca>>

Clean ==
  /\ cleaned < MaxCleanings
  /\ \E f \in files : files' = files \ {f}
  /\ cleaned' = cleaned + 1
  /\ UNCHANGED <<queue, pc, reads, lock, registered, whole, path, leftovers, created>>

Next ==
  \/ Change \/ Clean \/ Start
  \/ \E r \in Requests : Arrive(r) \/ ThreadStep(r)

Spec == Init /\ [][Next]_vars

\* Threads run, calls of Kubernetes and of the filesystem return or raise, and
\* an idle thread takes the first call that waits.
FairSpec == Spec /\ WF_vars(Start) /\ \A r \in Requests : WF_vars(ThreadStep(r))

-----------------------------------------------------------------------------
(* Properties.                                                             *)

TypeOK ==
  /\ store \in Store
  /\ queue \in Seq(Requests)
  /\ pc \in [Requests -> {"new", "queued", "resolve", "ca", "write", "op", "done"}]
  /\ query \in [Listings -> Query]
  /\ snapshot \in [Listings -> Store \cup {None}]
  /\ token \in [Listings -> 0 .. NumItems]
  /\ listed \in [Listings -> [Items -> Nat]]
  /\ answer \in [Listings -> [code : {"PENDING", "OK", NotFound} \cup Failures,
                              items : [Items -> Nat]]]
  /\ lock \in Requests \cup {NoOne}
  /\ created \in Nat /\ registered \in 0 .. created /\ path \in [Requests -> 0 .. created]
  /\ files \subseteq 1 .. created
  /\ whole \subseteq 1 .. created /\ leftovers \subseteq 1 .. created
  /\ cleaned \in Nat

\* A listing, however many pages it takes while objects come and go between
\* them, and whatever fails, promises what AtomicListing says.
Atomic == Promise!Spec

\* Every listing answers, though drains hold threads for their whole wait and
\* there are fewer threads than calls.
EveryListingAnswers == \A r \in Listings : pc[r] = "queued" ~> pc[r] = "done"

\* A client never reads a CA file that is not written to the end, and the temp
\* directory holds one file of a CA, apart from those that could not be
\* written: it grows neither with requests nor with what the cleaner removes.
CAFilesHold ==
  /\ \A r \in Requests : pc[r] = "op" /\ path[r] # 0 => path[r] \in whole
  /\ \A f, g \in files \ leftovers : f = g
=============================================================================
