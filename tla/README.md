# Cluster-Service, modelled in TLA+

This directory holds a TLA+ development of Cluster-Service (`src/app`): modules that
model its services, TLC configurations that check them on small instances, and TLAPS
proofs of the properties that matter most, for every value of the constants.
`PROJECT.json` lists the components, the runs, the source lines each definition
translates, the hazards the properties are for, the disagreements between code and
documentation that were met, and the theorems.

## 1. The system

Cluster-Service is a FastAPI service over Kubernetes clusters and over two HTTP
services, deploy-service and command-service. It has one event loop; a Kubernetes call
is synchronous SDK code that `call_kube` runs in a worker thread, and a call to
deploy-service is an `await` on an httpx client. It persists nothing: its state is in
the clusters, in the users file, in deploy-service, and in a few in-memory caches.

| component | code | state | operations | what makes it correct |
|---|---|---|---|---|
| Node drain | `services/node_service.py` `drain` | the request's locals; node and pods in the cluster | cordon, list and classify, evict or delete each pod, wait | the answer is true of the pods; nothing is removed against the options; the wait keeps to its budget |
| Cordon, uncordon | `node_service.py`, `node_batch_service.py`, `api/v1/nodes.py` | the results of a batch; `spec.unschedulable` of the nodes | one or many, the readiness gate | one true result per node; a refused node is untouched; a per-node failure stays the node's |
| Kubernetes errors | `services/kube_errors.py`, `core/exceptions.py` | none | translate | statuses HTTP knows; which failures concern a cluster |
| Access policy | `domain/access_policy.py`, `domain/users_document.py`, `services/policy_service.py` | none | validate, evaluate, enforce, judge a batch | the table of the README, whatever the order of rules; all of a batch by one version |
| Users file | `repositories/json_users_file.py` | the cached document, its stamp, a lock | load | never a version that is not the file's, never a broken one; recovers |
| Token manager | `core/token_manager.py`, `api/v1/deploy.py`, `clients/*_service_client.py` | the manager of the process; of each manager the token, its deadline, an asyncio lock | get the manager, get a token, refresh, request with one retry | nothing done twice, no expired token sent, no call left waiting |
| Labels, annotations, taints | `node_service.py`, `services/kube_patch.py` | the node's metadata and taint list | merge patches; read, change and write back | no update is lost, or it is said which may be; the answer is what is on the node |
| Namespaces | `services/namespace_service.py` | the cluster's namespaces | create, patch | what a 409 says; provenance cannot be forged |
| Reads: listings of namespaces, ConfigMaps, nodes and pods, and of one object | `namespace_service.py`, `configmap_service.py`, `node_service.py` | what a listing has collected, its `continue` token | list page by page, list in one piece, get | one listing is one state of the cluster, however many pages it took, or an error |
| Dry-run cluster | `services/dry_run_kube_client.py` | in-memory clusters, shared by all clients | the Kubernetes calls, simulated | exact without a race; with one, it is said what still holds: there is no lock, and each call has a thread |
| Commands | `api/v1/command.py`, `services/command_service.py`, `clients/dry_run_command_service_client.py` | the executions: status and log | execute, result, kill, trace | a command ends once, its log only grows and is closed with it; the stand-in keeps what deploy-service promises |
| Pipelines | `api/v1/deploy.py`, `clients/dry_run_deploy_service_client.py` | the pipelines and their order | trigger, poll, cancel, retry, check | triggering makes no duplicate |
| Log viewer | `core/log_viewer_template.py` | the page: cursor, rows, timer, failures in a row | open, poll, show, give up | the page shows the log, each line once, and stops |
| Kubernetes clients | `services/kube_client.py` | CA files on disk and their registry, the default executor's threads and queue | resolve, build, call | no client reads half a CA file; files do not pile up; every call gets a thread |
| Request ids | `core/logging.py` | one attribute of the process | set, read | a log line has the id of its request |
| Authentication, inventory, repositories, start-up | `core/`, `services/`, `repositories/` | none to speak of | one call, or a pure function | |

The parts meet at four places. A write route asks the **policy** first, which loads the
**users file**; both are steps of the request they judge. It then resolves the cluster
and enters **NodeService**, whose Kubernetes errors all go through the **translation**;
that is where a batch learns whether a failure is a node's or everybody's. Several
requests for one node meet only **in the cluster**: nothing in this service serialises
them. And all proxied calls share one **token**, but for the first ones, which may each create
a manager of it.

What is hard here is therefore not in any one function: the cluster moves between any
two calls of a drain; two drains take turns on the same pods; a batch dies in the
middle; an answer is lost after the write was applied; an editor replaces the users file
between the `stat` and the `read` of it; a retry's login overtakes another call's; objects
come and go between two pages of a listing; drains hold the threads that a listing waits
for; a page polls a command through lost answers and a restart. The
places where this bites are `hazards` in `PROJECT.json`, each with the properties
that would catch it going wrong, or the reason why none does yet.

## 2. Modules

```
KubeErrors <---- NodeDrain <---- MCNodeDrain
     ^              ^----------- NodeDrainProofs
     +---------- NodeBatch <---- MCNodeBatch
     ^              ^----------- NodeBatchProofs
     +------- NodeMetadata <---- MCNodeMetadata
     ^              ^----------- NodeMetadataProofs
     +--------- Namespaces <---- MCNamespaces
                    ^----------- NamespacesProofs
AccessPolicy <-- PolicyService <-- MCPolicyService
                    ^----------- PolicyServiceProofs
                TokenManager <-- MCTokenManager
                    ^----------- DeployServiceProofs
               DryRunCluster <-- MCDryRunCluster
                    ^----------- DryRunClusterProofs
KubeErrors, AtomicListing
     ^------- PagedListing <---- MCPagedListing
                    ^----------- PagedListingProofs
CommandRuns, DryRunCommands, DryRunPipelines, LogViewer
     ^------- ServiceProxy <---- MCServiceProxy
                    ^----------- DeployServiceProofs
```

`DeployServiceProofs` holds the theorems of the two modules between the clients of the API
and deploy-service. It extends both, which is why the next-state relation, the specification
and the type invariant of TokenManager have the token in their names.

`AtomicListing` and `CommandRuns` are abstract specifications, which `PagedListing` and
`ServiceProxy` are shown to implement.

**KubeErrors** has what a Kubernetes call can raise (`ApiException` with a status, or a
urllib3 error), `Translate` and `TranslateOn`, the `clusterLevel` flag, and
`IsClusterLevel`. Two facts about the API server are stated there and used everywhere: a
write that failed with a 5xx or without an answer may have been applied; one that was
refused with a 4xx was not.

**NodeDrain** is the route and `NodeService.drain`. A step is one Kubernetes call and the
code up to the next one: `Admit` (policy, `dry_run`, cluster resolution), `Cordon`,
`List` (one listing and the classification of its pods, where a blocked drain is
refused), `Evict` (one pod of the loop, with each outcome the code tells apart: accepted,
already gone, a disruption budget's 429, any other error), `StartWait`, `Poll`, `Sleep`.
Any number of drains run at once. The environment creates pods under free names, on this
node or another, completes them, deletes them, ends their grace period, and cordons or
uncordons the node. Pods are names, as they are to the code; the cluster also gives each
incarnation a `uid`, which only the history variables and the properties look at. The
order of the eviction loop is the API server's listing order, so any.

**NodeBatch** is one request of any of the four cordon and uncordon routes. `Admit` is
the policy (a single node for the one, a set of refused names for the other) and the
resolution of the cluster; `Read` is `_read_node` or `_node_statuses`; `Loop` is one name
of `_batch_set_unschedulable`, split into `Repeated`, `Deny`, `GateOut` and `Patch`;
`Finish` answers. A single request is a body of one name whose first outcome is its
answer. Nodes register, deregister and change health between steps, and other clients
cordon them; `patched` and `disturbed` remember who changed a node last.

**NodeMetadata** is any number of requests of the three routes that edit a node's labels,
annotations or taints. Each of these is a map with `None` for no entry; the (key, effect)
pair that identifies a taint is its key. `Admit` is the policy, the resolution of the
cluster, and the early answer to a body with nothing in it; `Read` is the first read of
`taint_node`; `Patch` sends the merge patch of `key_merge_patch` or the recomputed list of
taints; `Reread` is the read that is answered. Everyone else edits entries one by one, and
the node may go and come back with entries of its own. `behind` says whether the taints a
request read have changed since, `disturbed` which keys others have edited since its patch.

**Namespaces** is any number of requests that create one namespace or edit its labels or
annotations. `Admit` is all that is refused before Kubernetes is asked: by the request
models (keys of Kubernetes, a reserved name, a patch of nothing), the policy, the
resolution of the cluster, and the service (its own prefix, a reserved namespace). `Write`
is the create or the merge patch, with the provenance that `Provenance` stamps on it;
`Explain` is the read that `_already_exists` makes after a 409, to say whether the
namespace is terminating. Others create it, delete it, see it vanish and edit entries of
their own. `creator` and `writer` remember whose write is the first and the last of this
incarnation, `seen` the phases during each request, `applied` whether its write took effect.

**AccessPolicy** has the rules (a glob is the set of actions it hits, a regex the set of
values it matches or one that does not compile), their validation (`Resolves`,
`Accepts`), the two-layer evaluation as the code does it (`EvaluateLayer`, `Evaluate`)
and, separately, what the service's README and ADR 0003 promise, on sets of rules
(`Permits`). **PolicyService** runs requests against a file under edit: `Stat`, `Acquire`
(a hit judges at once, a miss goes on with the lock) and `Parse` are the three points of
`JsonUsersFile.load` where the file or the cache is looked at. A `Parse` that finds the
file changed since its `Stat` keeps the newer document under the older stamp, as the code
does. An `Edit` writes in place or renames another inode over the file.

**TokenManager** is `get_token`, `refresh` and `_request_with_retry` at the grain of
`await`: `Start`, `Acquire`, `Received`, `FetchFailed`, `Request`, `RequestFailed`. Before,
a call gets its manager in a thread, by the three steps of `get_deploy_token_manager` between
which another thread can run: `Look`, `Create`, `Return`. Token, deadline and lock are those of
a manager, named by the call that created it; calls that looked too early each have their own. A
login takes place in two steps: deploy-service issues a token (`Issue`), and the answer
arrives later, from which `expire_at` is computed. deploy-service also revokes tokens
and its clock ticks.

**DryRunCluster** is the in-memory cluster of the dry-run mode, which `call_kube` has any
number of worker threads read and change without a lock. A step is what a thread does to
it before the interpreter may switch to another: one turn of the loop over the pods
(`Scan`), one built-in operation on the list or the dict (`Pop`, `Check`, `Insert`), one
assignment to an attribute (`Find` of a node's flag, `Store`), with the copy before it
(`Copy`). `Pop` takes whatever is at the index by then. `raced` remembers the calls that
another removal or creation came between, `behind` those whose copy is of an older map,
`lost` the entries that somebody may have changed since. A race may do what a cluster never does:
an eviction removes another pod or ends in a 500, a listing misses a pod, a patch undoes
another, a creation replaces a namespace. No text promises otherwise, so the properties say
exactly when, and what holds regardless.

**AtomicListing** is what a read of a cluster promises: what was wanted at one moment
during the request (`picked`), each item once, or an error. **PagedListing** is how
`call_kube` and the services do it. A call waits for one of the executor's threads
(`Arrive`, `Start`), resolves the cluster, and finds or writes the CA file that all clients
of a CA share (`Resolve`, `FindFile`, `WriteFile`, the last two with `_CA_FILES_LOCK` between
them); then comes the operation, a page at a time (`Fetch`). What a page does is in
`PageAnswered` (`Collect` what the service keeps of it, go on if there is a token) and
`PageFailed` (any error, an expired token's 410 among them, ends the listing with nothing).
Objects change between any two steps, the temp directory's cleaner removes files, and other
calls (drains) hold threads for long. The refinement maps `picked` to the state that the
continue token names.

**ServiceProxy** is the event loop with what has no Kubernetes in it: a request passes the
middleware that stores its id (`Begin`), other requests may pass it in between, and then
its handler runs in one step (`Serve`, `ServeTrace`), since the stand-ins do not `await`. It
composes **DryRunCommands** and **DryRunPipelines**, the operations of the two in-memory
stand-ins, and **LogViewer**, the script of the page that shows a log: `Open`, `Fire` of its
timer, and `Refresh` with the answer, where it shows, gives up, or sets its timer again. An
answer can be lost before or after the call was served (`Receive`), a login can expire, and
a `Restart` forgets what the stand-ins kept. **CommandRuns** is what deploy-service promises
of a command. In dry-run the commands are those of the stand-in, and `KeepsItsPromises` says
that they implement it; otherwise they are those of `CommandRuns` itself (`Upstream`), which
is what the page then has to cope with.

### Assumptions, and where the models are wider than the code

- `DistinctStamps` (PolicyService): no two versions of the users file share inode,
  modification time and size. An in-place edit that keeps the size within one tick of the
  filesystem's clock, or an inode reused within one, is not noticed by the loader; with
  `FALSE` TLC finds `JudgedByOneCurrentVersion` violated. The model gives all versions one
  size, so this is the only thing that tells them apart.
- The loader's interleavings follow its own `threading.Lock`. As wired today the policy
  loads the file on the event loop, so two requests' loads do not overlap; the model
  also covers a caller in a thread.
- The asyncio lock serves its waiters in order; the model leaves the order open.
- `MaxDelay <= Buffer` (TokenManager): a login's answer takes at most the client's
  10-second timeout and the buffer is 30 seconds. `Lifetimes` are longer than `MaxDelay`
  (a token that expires before its answer arrives is useless to any client), and the two
  services' clocks agree. A configured `DEPLOY_SERVICE_TOKEN` is token 0; since
  `_expire_at` starts at 0 it is never sent (`config.py:54` calls it an "Optional
  initial/cached token").
- A node, pod or namespace is a model value; labels, messages, timestamps in answers and
  the log are left out, since no property is about them.
- The API server applies a merge patch of a map key by key, and a patch of `spec.taints`
  as a whole: the merge patch that the Kubernetes client's bodies stand for.
- A request for labels or annotations of a node with nothing to change is answered 200
  with `{}` and no look at the node, as `test_node_service.py:815` has it; `AnswerHolds`
  speaks only of requests that change something.
- In the stamps of a namespace a request stands for its account and for its id, and the
  times are left out. Nobody but the service writes under its prefix, as ADR 0002 has it:
  someone with other access to the cluster can. A patch with one key both set and removed
  is refused with the malformed ones, and so is not represented.
- A taint is a key, an effect and a value; the `timeAdded` that a rewritten taint loses is
  left out. An error that follows an applied taint patch (its last read fails) is answered
  as an error, and no property forbids it.
- A blocked drain leaves its node cordoned, as the docstring of `DrainBlockedException` and
  `test_drain_e2e.py:81` have it. The message of that exception (`exceptions.py:454-455`)
  says "the node is unchanged"; no property takes it at its word.
- In the dry-run cluster there is one node with metadata and one name for a namespace:
  calls for others do not meet. A node's taints are assigned whole, as its flag is, and
  left out. Reads that take one look cannot be interleaved. A listing without a selector
  copies the list at once and is one of these. The two listings that filter differ in what
  they select, any set of pods.
- All pages of a listing come from the state of the first, as the API server's continue
  tokens promise; how much a page holds, and that it may be empty though more follows, is
  open. Objects are numbered in the server's order, and the order in an answer is left out.
  Listings of nodes and of pods have one page. A request past its thread cannot be
  cancelled, as in the code, and the release of its client has no state here.
- A client has one request at a time and is not a page (`SendersAssumption`); a request id is
  its sender. The variables of an order are a sequence (`OrdersAssumption`), as the request
  model has a list of them.
- There is one CA in PagedListing: files of different CAs never meet but for the lock.
- In dry-run a command id is a fresh uuid: a forgotten execution's id is not given again, so
  what it was stays as history, which a page that shows it can be compared with.
- deploy-service answers a poll of the log with a status and the lines of one moment. What
  it can do beside that is an error, and a log that is too large.
- The page's banner over a large log and the length of its pauses are left out. The pipelines
  of deploy-service are external and nothing here depends on them.
- Four texts say more than the code does, without a run of their own, since each is met by a
  wider property. A drain evicts by name, so a namesake that was created on another node after
  the listing is evicted there, though the route is about this node: `StraysAreNamesakes` says
  that this is the only way a pod elsewhere is touched. A rule whose `match` has a key that
  some of its actions lack parses and never matches them (`access_policy.py:124`), though
  the service's README (`README.md:257`) says that a key an action never carries is refused.
  The comment at `deploy.py:37` has one token manager for the service, but two first requests
  that both find none create one each, in their threads, and the earlier keeps its own. And
  `refresh` claims to check the lock itself "just in case" (`token_manager.py:49-50`), but
  does not, and a retry calls it without looking at what another call has just fetched, so that
  logins follow one another or overlap; `AtMostOnce` and `SentUnexpired` hold all the same.
- Comments in `kubernetes_models.py:84-88` still speak of a 504 after the drain's
  deadline; the code answers 200 with `still_terminating`, and so does the model.

## 3. Runs

| run | instance | properties | what it shows |
|---|---|---|---|
| `drain_one` | one drain, all eight options, three pods (one owned, one bare with an emptyDir, one DaemonSet) of one incarnation, budget 3 s | `TypeOK` `AcceptedIsGoing` `DrainRespectsOptions` `EmptiedStaysEmpty` `WaitBudget` | what a drain may remove, what its answer means, how long it waits |
| `drain_two` | two drains, one pod of two incarnations, fair | `NodeEmptied` `EveryDrainAnswers` `LeftoversGo` `StraysAreNamesakes` | the answers of both stay true and both are answered, though the pod comes back under its name, here or on another node; only such a namesake is touched elsewhere |
| `batch_one` | two nodes; bodies empty, of one name, and of three with a repetition; statuses 0, 403, 404, 409, 500 | `OneResultPerNode` `DeniedNeverSent` `ResultsHold` `ReadinessGate` `FailureLayers` `EveryRequestAnswers` | what each result says of its node, and whose failure is whose |
| `batch_error` | statuses 403 and 500 | `ErrorMeansUntouched` | **violated**: a cluster-level failure in the middle of a batch answers with an error after nodes were changed |
| `metadata_two` | two requests, of labels or taints; two keys, one value; a body with nothing, one that removes, one that sets a key beside another that it sets and removes | `UpdatesKept` `AnswerHolds` `OthersKept` | which updates stay, whose entries survive, what an answer says |
| `namespaces_two` | two requests, one of them without an id; legal bodies and one for each refusal; a reserved namespace or a free name; statuses 0, 403, 500 | `ProvenanceHolds` `ConflictTrue` `ClientErrorMeansUntouched` `OnlyItsOwn` | whose stamps a namespace carries, what a 409 and any other answer says of it, what a request leaves alone |
| `policy_edits` | an operator's batch and an administrator's; four texts (two layers of deny and allow, the deny moved, a repeated rule id) and absence; two inodes, two ticks | `JudgedByOneCurrentVersion` `RefusalNamesItsRule` `InvalidMeansBroken` | which version judges a request, and what a refusal means |
| `token_two` | two calls, with one manager or with two, expiring and revoked tokens, lost logins and requests, fair | `AtMostOnce` `SentUnexpired` `EveryCallReturns` | what is sent, what is repeated, and that both calls return |
| `dryrun_threads` | three calls: removals, a listing, creations, patches of the node or the namespace; three pods, two keys; symmetric | `EveryPodAccounted` `UnracedIsExact` `CreatedStays` `PatchesKept` | what the answers of threads without a lock can be relied on for |
| `paging` | one listing of each kind (everything, filtered, selected, one object, both faults), two drains, two worker threads; two objects of two states; statuses 0, 400, 410, 500; one file cleaned up; fair | `CAFilesHold` `Atomic` `EveryListingAnswers` | a listing in pages is a listing of one moment or an error, every call is answered though drains hold all threads, and CA files are whole and do not pile up |
| `services` | one client, one page, one command, two pipelines of three orders (one the other with its variables in another order), two failures in a row, one restart, with and without dry-run, fair | `TypeOK` `ShowsTheLog` `DuplicateOnlyByRetry` `KeepsItsPromises` `ViewerStops` | the stand-in behaves as what it stands in for, a page shows the log and stops, duplicates only come of a retry |
| `log_ids` | two clients | `LogLineOwn` | **violated**: a request that starts before another's handler has run puts its id on the other's log lines |

The violations are disagreements between the code and a text of the repository, quoted
under `findings`. The passing runs fire every action and every disjunct of the
next-state relations; every property of theirs has a mutant of the code
(`mutants`, defined beside the operator it mutates as `<Operator>_<What>`) that breaks it.

Bounds. Two drains, or two calls, already show every interference there is between them:
drains meet only through the state of a pod and of the node, calls only through the
token, the lock and the race for the manager, and a third would see one of the two as its
environment. Two
incarnations of a name are what a stale listing needs; two positions around a repetition
are what a batch needs. `Budget` 3 with polls of up to a second and pauses of two has the
deadline fall before, in and after a poll. Two ticks and two inodes let an editor go
back to a stamp he had in one of its parts. For metadata, one value and its absence
show every difference between two maps, and annotations go through the same code as labels,
so that a run has labels and taints; the two requests are symmetric. For a namespace, one
free key and one of Kubernetes's are enough beside the stamps, since no two keys of a kind are
told apart; of the two requests either may come first, create it, or find it going. In the dry-run
cluster three calls let a third see what two have done to each other, or two creations race
and a patch find the loser's namespace; three pods let a pop at a stale index take another pod
or none. Two objects in up to two pages, and empty pages, have an object change or go before, in
and after the page it belongs to. Listings share nothing but threads and the CA file, so a
second listing adds what a drain adds, and two drains fill both threads. One command and one
page: commands do not meet, and pages only read. Two pipelines are the least that can be
duplicates; `MaxFailures` 2, where the page has 5, has a success between two failures or none.
`MaxLines` bounds what deploy-service writes. `MaxCall`, `MaxUid`, `MaxClock`, `MaxCleanings`,
`MaxPipelines`, `MaxRestarts` are bounds of the model alone. The theorems below do without all of them, except where they say
otherwise.

Fairness. `EveryDrainAnswers` and `EveryRequestAnswers` need weak fairness of the
request's own steps: its thread runs, and a Kubernetes call returns or raises. `LeftoversGo`
also needs the kubelet to finish terminations. `EveryCallReturns` needs weak fairness of
each call: its thread runs, an httpx request ends by its answer or its timeout, and a free asyncio lock
wakes a waiter. `EveryListingAnswers` needs that an idle thread takes the first call of the
queue, that a call of Kubernetes or of the filesystem returns or raises, and that a drain ends,
as its budget makes it; it does not assume that a request is ever given a thread first.
`ViewerStops` needs the page's timer to fire, a request that was sent to be served, and its
answer to arrive or the connection to break; commands need not end, and `ViewerStops` says
nothing of a page whose command goes on in deploy-service. Nothing else is fair: pods may never terminate, files may stay broken,
and deploy-service may refuse every token.

Deadlock is checked for drains, batches, metadata, namespaces, listings and services, whose
environments never stop. In the policy
and token runs the requests end and the bounds stop the environment; in the dry-run cluster
the calls end and there is no environment.

## 4. Proofs

| theorem | statement | for every |
|---|---|---|
| `NodeDrainProofs!TypeCorrect`, `Inductive` | `TypeOK`, and the inductive invariant | pods, owners, volumes, options, budget, number of drains |
| `NodeDrainProofs!DrainedIsGone` | `NodeEmptied` | the same |
| `NodeDrainProofs!NoPodPassedOver` | `AcceptedIsGoing` | the same |
| `NodeDrainProofs!OptionsRespected` | `DrainRespectsOptions` | the same |
| `NodeDrainProofs!EmptyUntilUncordoned` | `EmptiedStaysEmpty` | the same |
| `NodeDrainProofs!BudgetHeld` | `WaitBudget` | the same |
| `NodeDrainProofs!OnlyNamesakesStray` | `StraysAreNamesakes` | the same |
| `NodeBatchProofs!TypeCorrect`, `Inductive`, `OneResultEach`, `PolicyHolds`, `GateHolds` | `TypeOK`, the inductive invariant, `OneResultPerNode`, `DeniedNeverSent`, `ReadinessGate` | nodes, bodies of any length and repetition, statuses |
| `NodeBatchProofs!HoldInductive`, `ResultsTrue`, `LayersKept` | a second invariant, `ResultsHold`, `FailureLayers` | nodes, bodies of any length and repetition, statuses |
| `NodeMetadataProofs!TypeCorrect`, `Inductive`, `NoUpdateLost`, `AnswersTrue`, `ForeignEntriesKept` | `TypeOK`, the inductive invariant, `UpdatesKept`, `AnswerHolds`, `OthersKept` | keys, values, bodies, number of requests |
| `NamespacesProofs!TypeCorrect`, `Inductive`, `ProvenanceGenuine`, `ConflictExplained`, `StatusTellsEffect`, `NothingElseChanges` | `TypeOK`, the inductive invariant, `ProvenanceHolds`, `ConflictTrue`, `ClientErrorMeansUntouched`, `OnlyItsOwn` | keys, values, bodies, statuses, requests |
| `PolicyServiceProofs!EvaluateMeets`, `UserRulesOnlyTighten` | the code's evaluation is the promised one; a user's rules only take away | rules, actions, parameters |
| `PolicyServiceProofs!TypeCorrect`, `Inductive`, `OneCurrentVersion`, `RefusalNamed`, `OnlyABrokenFile` | `TypeOK`, the inductive invariant, `JudgedByOneCurrentVersion`, `RefusalNamesItsRule`, `InvalidMeansBroken` | documents, edits, requests; `DistinctStamps` for the last four |
| `DeployServiceProofs!TokensTypeCorrect`, `TokensInductive`, `RetryIsSafe`, `BufferSuffices` | `TokensTypeOK`, the inductive invariant, `AtMostOnce`, `SentUnexpired` | calls, lifetimes, any buffer of at least the answer's delay |
| `DeployServiceProofs!RequestsTypeCorrect`, `PagesShowTheLog`, `TriggerMakesNoDuplicate` | `TypeOK`, `ShowsTheLog`, `DuplicateOnlyByRetry` | callers, pages, executions, orders, restarts, failures a page endures |
| `DeployServiceProofs!StandInKeepsItsPromises` | `KeepsItsPromises`: ServiceProxy implements CommandRuns | the same |
| `DryRunClusterProofs!TypeCorrect`, `Inductive`, `PodsAccounted`, `ExactUnlessRaced`, `CreationStays`, `NoPatchLost` | `TypeOK`, the inductive invariant, `EveryPodAccounted`, `UnracedIsExact`, `CreatedStays`, `PatchesKept` | pods, keys, values, kinds of calls, number of threads |
| `PagedListingProofs!TypeCorrect`, `Inductive`, `CAFilesSound` | `TypeOK`, the inductive invariant, `CAFilesHold` | objects, states, queries, requests, threads |
| `PagedListingProofs!Refinement` | `Atomic`: PagedListing implements AtomicListing | the same |

The arguments:

- *Drains.* No property of an answer is inductive, since it compares the pods now with a
  listing made earlier. The strengthening says, for each drain at each of its calls, what
  has become of every pod it listed: listed means the `uid` then current, so the pod now
  named so has that `uid` or a later one; what is targeted was live and permitted; what
  left `todo` is gone or has a deletion timestamp, which no step of anyone takes back. A
  pod that came after the listing can only have come to an uncordoned node, which is why
  the cordon has to be first, and why `uncordoned` appears in `EmptiedStaysEmpty`. The
  steps of others are summed up once (`PodsStep`, `FlagStep`) and every drain's part of the
  invariant is shown to survive that summary, so that two drains need no case of their
  own. `elapsed` is bounded by the last poll that was below the budget.
- *Batches.* `results` lists, in order, the first occurrences of the names before position
  `at`; a name not yet seen has no result and no patch. So whatever becomes of a node at its
  turn is new: with its one result goes its one patch, or none, and a node that was patched is
  as asked until somebody else changes it. A failure is cluster-level or has a status that is
  not, and only the first leaves the loop.
- *Metadata.* For each request: the taints it read are the node's unless it is behind, and
  while its patch is applied every entry it named and nobody disturbed is as it wanted. A
  write by anyone marks exactly the keys it may change: its own, or, when it writes taints
  over a change it has not read, all of them. That second case is the lost update; the
  theorems say it is the only way to lose one.
- *Namespaces.* A free name has no entries and no history; whoever created or wrote the
  namespace has had its write; a request past admission named neither a stamp nor a key of
  Kubernetes, so that what it merges over the stamps is the service's alone. The phase now
  is among those a request has seen, and after a conflict a name now free was terminating
  before. An applied call that fails is answered with a 5xx.
- *Policy.* A request has read a stamp; whatever text the file had under it is among the
  texts seen by the request. The cache's text is valid and was in the file under the
  cached stamp or after it, so a hit serves a text the file had since the request began.
  Distinct stamps are needed exactly there. That a refusal names its rule needs more of the
  document than its rules as a set: the first rule that denies exists, since positions are
  natural numbers, and an accepted document has one place for each rule id.
- *Token.* Of each manager, the deadline is at most the expiry of the token: `Buffer`
  covers the delay between issue and arrival. A call past `Return` has a manager, and of the
  others' managers its steps change nothing, so that their number does not matter. For `AtMostOnce`: a call is retried only
  after an answer 401, and whoever answers 401 has done nothing.
- *Commands and their pages.* The refinement first (`StepRuns`): starting is `Start`, and a
  look at a running command, a kill or a poll is `End` with the line it writes, or nothing. A
  killable command is logged, which is what lets `Stop` append without asking. From there on
  the pages rest on the promises alone (`RunsGrow`: a log only grows, and not once its command
  has ended), so that the stand-in and deploy-service need no cases of their own. What is shown
  is not inductive; the strengthening says that the cursor and the next number stand at the
  end of it (`CursorInv`), that a slice under way begins at the cursor, and that one which says
  that the command ended reaches the end of the log, whatever was written between its
  being served and its arrival (`SliceInv`), and that a page waits for an answer exactly while
  its timer has fired (`TimerInv`), so that a cursor never moves under a slice.
- *Pipelines.* An identical pipeline that is older and runs has been retried (`RetriedInv`),
  whether or not the newer one still runs; without that, the newer one could be retried and run
  beside it. That `Trigger` compares bags of the variables with the action among them, and
  `Identical` bags of the variables beside the action, comes to the same by `SameBagAfter`.
- *Dry-run cluster.* Three parts that do not look at each other's data. Pods: the list has no
  repetition and only shrinks; as long as no removal comes between, a scan has judged
  everything before its index, and what it is about to pop is there. The name: whoever has
  passed the check and finds the name taken has been overtaken, and so have all whose creation
  was accepted. Maps: what a patch is about to store is the map as it is now with the patch in
  it, or it is behind; what it has stored is there but for the keys in `lost`.
- *Listings.* Refinement: a listing that has a token has collected exactly the wanted items of
  the pinned state up to it, each once, whatever has become of them since. A page extends that
  to its end; the last one leaves nothing of the selection beyond it, so that what was
  collected is what AtomicListing answers. The first page maps to `Pick`, the last to
  `Succeed`, a failure to `Fail`, and everything about threads and files to a stutter. CA
  files: whoever is writing holds the lock, and the file it writes is the only one that is
  neither whole nor left over; a registered file is whole, and when it is missing none is left.

Proved from: the named assumptions on constants, each evaluated by TLC in the runs.
Only model-checked: liveness under fairness and everything with `ENABLED` (out of the
prover's reach: `EveryDrainAnswers`, `LeftoversGo`, `EveryRequestAnswers`, `EveryCallReturns`,
`EveryListingAnswers`, `ViewerStops`), and the violations. Every safety property of a passing
run has its theorem. `WaitBudget` and `TypeOK` of NodeDrain use `PollSeconds = 2`
and keep `MaxCall` and `MaxUid` as parameters.

## 5. Not modelled, and the plan

Not modelled: the inventory, authentication and JWTs, settings and start-up, the cluster
repositories (pure functions of one call, or read once); the proxies' own translation of
requests and answers, beside what `ServiceProxy` has of it; and the check of the users file that is
run from the command line.

What is left, in this order:

1. **More refinements**: a drain as one atomic decision with later disappearances, and
   NodeDrain shown to implement it; a batch as a set of independent single requests;
   NodeMetadata of labels as atomic updates of single entries.
