------------------------- MODULE PagedListingProofs -------------------------
(***************************************************************************)
(* PagedListing implements AtomicListing, and its CA files are sound, for  *)
(* any number of listings, drains, threads and objects.                    *)
(***************************************************************************)
EXTENDS PagedListing, TLAPS

-----------------------------------------------------------------------------
(* The inductive invariant.                                                *)

\* A call waits once, and only while it has no thread.
QueueInv ==
  /\ \A i \in 1 .. Len(queue) : pc[queue[i]] = "queued"
  /\ \A i, j \in 1 .. Len(queue) : queue[i] = queue[j] => i = j

\* What is wanted of the store that the pages come from, up to the token.
Covered(r) == {i \in Promise!Wanted(query[r], Pinned(r)) : i <= token[r]}

Before == {"new", "queued", "resolve", "ca", "write"}

ListingInv(r) ==
  /\ pc[r] # "done" <=> answer[r] = Promise!Pending
  /\ pc[r] \in Before => snapshot[r] = None
  /\ pc[r] \in Before \cup {"op"} /\ snapshot[r] = None => token[r] = 0
  /\ pc[r] \in Before \cup {"op"} => listed[r] = Promise!Once(Covered(r))

\* The lock is held from the creation of a file to its registration; a file
\* that is there is registered, being written or left over.
CAInv ==
  /\ registered # 0 => registered \in whole
  /\ \A r \in Requests : pc[r] = "write" <=> lock = r
  /\ \A r \in Requests : pc[r] = "op" /\ path[r] # 0 => path[r] \in whole
  /\ \A r \in Requests : pc[r] \in {"new", "queued", "resolve", "ca"} => path[r] = 0
  /\ lock # NoOne => path[lock] # 0 /\ ~Reusable
  /\ files \ leftovers \subseteq
       {registered} \cup (IF lock = NoOne THEN {} ELSE {path[lock]})

IInv == TypeOK /\ QueueInv /\ CAInv /\ \A r \in Listings : ListingInv(r)

-----------------------------------------------------------------------------
(* Types.                                                                  *)

Code == {"PENDING", "OK", NotFound} \cup Failures

LEMMA OnceType ==
  ASSUME NEW wanted PROVE Promise!Once(wanted) \in [Items -> Nat]
  BY DEF Promise!Once

LEMMA FailureType ==
  ASSUME NEW code \in Failures \cup {NotFound}
  PROVE  Promise!Failure(code) \in [code : Code, items : [Items -> Nat]]
  BY OnceType DEF Promise!Failure, Promise!Answer, Promise!Nothing, Code

LEMMA PendingType == Promise!Pending \in [code : Code, items : [Items -> Nat]]
  BY OnceType DEF Promise!Pending, Promise!Answer, Promise!Nothing, Code

LEMMA PinnedType ==
  ASSUME TypeOK, NEW r \in Listings PROVE Pinned(r) \in Store
  BY DEF TypeOK, Pinned

LEMMA CollectType ==
  ASSUME TypeOK, NEW r \in Listings, NEW page PROVE Collect(r, page) \in [Items -> Nat]
  BY DEF TypeOK, Collect

LEMMA ErrorCodes ==
  /\ \A exc \in ResolveErrors : exc.code \in Failures
  /\ \A e \in SdkErrors(ErrorStatus) : Translate(e).code \in Failures
  /\ \A q : \A e \in SdkErrors(ErrorStatus) : PageError(q, e) \in Failures
  BY StatusAssumption
  DEF ResolveErrors, AppException, KubeApiException, Failures, SdkErrors, ApiError, NetworkError,
      Translate, ConnectionError, PageError, NoStatus

LEMMA RaiseType ==
  ASSUME TypeOK, NEW r \in Requests, NEW code \in Failures, Raise(r, code)
  PROVE  /\ pc' \in [Requests -> {"new", "queued", "resolve", "ca", "write", "op", "done"}]
         /\ answer' \in [Listings -> [code : Code, items : [Items -> Nat]]]
  BY FailureType DEF TypeOK, Raise, Respond, Goto, Code

LEMMA FoundType ==
  ASSUME NEW r \in Listings, NEW result \in [Items -> Nat]
  PROVE  Found(r, result) \in [code : Code, items : [Items -> Nat]]
  BY FailureType DEF Found, Promise!Answer, Code
-----------------------------------------------------------------------------
(* One lemma per action: the types.                                        *)

LEMMA TypeArrive ==
  ASSUME TypeOK, NEW r \in Requests, Arrive(r) PROVE TypeOK'
  BY DEF TypeOK, Arrive, Goto, reads, ca

LEMMA TypeStart ==
  ASSUME TypeOK, Start PROVE TypeOK'
<1>1. Head(queue) \in Requests /\ Tail(queue) \in Seq(Requests)
  BY DEF Start, TypeOK
<1> QED BY <1>1 DEF TypeOK, Start, Goto, reads, ca

LEMMA TypeResolve ==
  ASSUME TypeOK, NEW r \in Requests, Resolve(r) PROVE TypeOK'
<1>1. CASE \E exc \in ResolveErrors : Raise(r, exc.code)
  BY <1>1, ErrorCodes, RaiseType DEF TypeOK, Resolve, ca, Code
<1>2. CASE \E l \in {"ca", "op"} : Goto(r, l) /\ UNCHANGED answer
  BY <1>2 DEF TypeOK, Resolve, Goto, ca
<1> QED BY <1>1, <1>2 DEF Resolve

LEMMA TypeFindFile ==
  ASSUME TypeOK, NEW r \in Requests, FindFile(r) PROVE TypeOK'
<1>1. /\ created \in Nat /\ registered \in 0 .. created /\ path \in [Requests -> 0 .. created]
      /\ files \subseteq 1 .. created /\ whole \subseteq 1 .. created
      /\ leftovers \subseteq 1 .. created
  BY DEF TypeOK
<1>2. CASE Reusable
  <2>1. path' \in [Requests -> 0 .. created] /\ UNCHANGED <<created, files>>
    BY <1>1, <1>2 DEF FindFile, GetFile
  <2>2. lock' \in Requests \cup {NoOne}
          /\ pc' \in [Requests -> {"new", "queued", "resolve", "ca", "write", "op", "done"}]
    BY <1>2 DEF TypeOK, FindFile, GetFile, Goto
  <2> QED BY <2>1, <2>2 DEF TypeOK, FindFile, reads
<1>3. CASE ~Reusable
  <2>1. created' = created + 1 /\ files' = files \cup {created'}
          /\ path' = [path EXCEPT ![r] = created']
    BY <1>3 DEF FindFile, GetFile
  <2>2. \A f \in 0 .. created : f \in 0 .. created'
    BY <1>1, <2>1
  <2>3. created' \in Nat /\ path' \in [Requests -> 0 .. created']
    BY <1>1, <2>1, <2>2
  <2>4. /\ files' \subseteq 1 .. created' /\ whole \subseteq 1 .. created'
        /\ leftovers \subseteq 1 .. created' /\ registered \in 0 .. created'
    BY <1>1, <2>1
  <2>5. lock' \in Requests \cup {NoOne}
          /\ pc' \in [Requests -> {"new", "queued", "resolve", "ca", "write", "op", "done"}]
    BY <1>3 DEF TypeOK, FindFile, GetFile, Goto
  <2> QED BY <2>3, <2>4, <2>5 DEF TypeOK, FindFile, reads
<1> QED BY <1>2, <1>3

LEMMA TypeWriteFile ==
  ASSUME TypeOK, CAInv, NEW r \in Requests, WriteFile(r) PROVE TypeOK'
<1>1. path[r] \in 1 .. created
  BY RequestsAssumption DEF TypeOK, CAInv, WriteFile, NoOne
<1>2. CASE Goto(r, "op") /\ whole' = whole \cup {path[r]} /\ registered' = path[r]
             /\ UNCHANGED <<answer, leftovers>>
  BY <1>1, <1>2 DEF TypeOK, WriteFile, Goto
<1>3. CASE Raise(r, "INTERNAL_SERVER_ERROR") /\ leftovers' = leftovers \cup {path[r]}
             /\ UNCHANGED <<whole, registered>>
  <2>1. "INTERNAL_SERVER_ERROR" \in Failures
    BY DEF Failures
  <2> QED BY <1>1, <1>3, <2>1, RaiseType DEF TypeOK, WriteFile, Code
<1> QED BY <1>2, <1>3 DEF WriteFile

LEMMA TypePage ==
  ASSUME TypeOK, NEW r \in Listings, pc[r] = "op", PageAnswered(r),
         UNCHANGED <<store, queue, query, ca>>
  PROVE  TypeOK'
<1> PICK to \in token[r] + 1 .. NumItems, more \in BOOLEAN :
      LET page == Page(r, to)
          result == Collect(r, page)
      IN  /\ MayEnd(r, to, more)
          /\ listed' = [listed EXCEPT ![r] = result]
          /\ snapshot' = [snapshot EXCEPT ![r] = Pinned(r)]
          /\ \/ /\ GoesOn(page, more)
                /\ token' = [token EXCEPT ![r] = to]
                /\ UNCHANGED <<pc, answer>>
             \/ /\ ~GoesOn(page, more)
                /\ Respond(r, Found(r, result))
                /\ UNCHANGED token
  BY DEF PageAnswered
<1> DEFINE result == Collect(r, Page(r, to))
<1>1. result \in [Items -> Nat] /\ Pinned(r) \in Store
  BY CollectType, PinnedType
<1>5. UNCHANGED <<pc, answer>> \/ Respond(r, Found(r, result))
  OBVIOUS
<1>2. to \in 0 .. NumItems
  BY ItemsAssumption DEF TypeOK
<1>3. Found(r, result) \in [code : Code, items : [Items -> Nat]]
  BY <1>1, FoundType
<1> HIDE DEF result
<1>4. pc' \in [Requests -> {"new", "queued", "resolve", "ca", "write", "op", "done"}]
        /\ answer' \in [Listings -> [code : Code, items : [Items -> Nat]]]
  <2>1. /\ pc \in [Requests -> {"new", "queued", "resolve", "ca", "write", "op", "done"}]
        /\ answer \in [Listings -> [code : Code, items : [Items -> Nat]]]
    BY DEF TypeOK, Code
  <2>2. CASE UNCHANGED <<pc, answer>>
    BY <2>1, <2>2
  <2>3. CASE Respond(r, Found(r, result))
    <3>1. pc' = [pc EXCEPT ![r] = "done"] /\ answer' = [answer EXCEPT ![r] = Found(r, result)]
      BY <2>3 DEF Respond, Goto
    <3> QED BY <1>3, <2>1, <3>1
  <2> QED BY <1>5, <2>2, <2>3
<1> QED BY <1>1, <1>2, <1>4 DEF TypeOK, ca, Code, result

LEMMA TypeFetch ==
  ASSUME TypeOK, NEW r \in Requests, Fetch(r) PROVE TypeOK'
<1>1. CASE \E code \in Failures : Raise(r, code) /\ UNCHANGED <<listed, snapshot, token>>
  BY <1>1, RaiseType DEF TypeOK, Fetch, ca, Code
<1>2. CASE PageAnswered(r)
  BY <1>2, TypePage DEF Fetch
<1>3. "VALIDATION_ERROR" \in Failures
        /\ \A e \in SdkErrors(ErrorStatus \ {404}) : PageError(query[r], e) \in Failures
  BY ErrorCodes DEF Failures, SdkErrors
<1> QED BY <1>1, <1>2, <1>3 DEF Fetch, PageFailed

LEMMA TypeOthers ==
  ASSUME TypeOK, Change \/ Clean \/ \E r \in Requests : Work(r) PROVE TypeOK'
<1>1. CASE Change
  BY <1>1 DEF TypeOK, Change, Store, ca
<1>2. CASE Clean
  BY <1>2 DEF TypeOK, Clean, reads
<1>3. CASE \E r \in Requests : Work(r)
  BY <1>3 DEF TypeOK, Work, Goto, reads, ca
<1> QED BY <1>1, <1>2, <1>3

LEMMA TypeStep ==
  ASSUME TypeOK, CAInv, [Next]_vars PROVE TypeOK'
<1>1. CASE UNCHANGED vars
  BY <1>1 DEF TypeOK, vars
<1> QED
  BY <1>1, TypeArrive, TypeStart, TypeResolve, TypeFindFile, TypeWriteFile, TypeFetch, TypeOthers
  DEF Next, ThreadStep
-----------------------------------------------------------------------------
(* The CA files.                                                           *)

LEMMA CAFind ==
  ASSUME TypeOK, CAInv, NEW r \in Requests, FindFile(r) PROVE CAInv'
<1> USE RequestsAssumption DEF NoOne
<1>1. CASE Reusable
  <2>1. registered \in files /\ registered # 0 /\ registered \in whole
    BY <1>1 DEF Reusable, TypeOK, CAInv
  <2> QED BY <1>1, <2>1 DEF TypeOK, CAInv, FindFile, GetFile, Goto, Reusable
<1>2. CASE ~Reusable
  <2>1. created + 1 \notin leftovers /\ created + 1 \notin whole /\ created + 1 # registered
          /\ created + 1 # 0
    BY DEF TypeOK
  <2>2. lock' = r /\ lock = "none" /\ path'[r] = created + 1 /\ files' = files \cup {created + 1}
          /\ path' = [path EXCEPT ![r] = created + 1] /\ pc' = [pc EXCEPT ![r] = "write"]
          /\ UNCHANGED <<registered, whole, leftovers>> /\ pc[r] = "ca"
    BY <1>2 DEF FindFile, GetFile, Goto, TypeOK
  <2>3. ~Reusable'
    BY <1>2, <2>1, <2>2 DEF Reusable
  <2> QED BY <2>1, <2>2, <2>3 DEF CAInv, TypeOK
<1> QED BY <1>1, <1>2

LEMMA CAWrite ==
  ASSUME TypeOK, CAInv, NEW r \in Requests, WriteFile(r) PROVE CAInv'
<1> USE RequestsAssumption DEF NoOne
<1>1. lock = r /\ path[r] # 0 /\ ~Reusable /\ lock' = "none" /\ UNCHANGED <<path, files>>
  BY DEF CAInv, WriteFile
<1>2. \A s \in Requests : pc[s] = "write" => s = r
  BY <1>1 DEF CAInv
<1>3. CASE Goto(r, "op") /\ whole' = whole \cup {path[r]} /\ registered' = path[r]
             /\ UNCHANGED <<answer, leftovers>>
  BY <1>1, <1>2, <1>3 DEF TypeOK, CAInv, Goto, Reusable
<1>4. CASE Raise(r, "INTERNAL_SERVER_ERROR") /\ leftovers' = leftovers \cup {path[r]}
             /\ UNCHANGED <<whole, registered>>
  BY <1>1, <1>2, <1>4 DEF TypeOK, CAInv, Raise, Respond, Goto, Reusable
<1> QED BY <1>3, <1>4 DEF WriteFile

\* Any other step of a request moves neither into nor out of the lock, and
\* keeps its file.
LEMMA CAOther ==
  ASSUME TypeOK, CAInv, NEW r \in Requests, NEW l, UNCHANGED ca,
         pc[r] # "write", pc' = [pc EXCEPT ![r] = l], l # "write",
         l \in {"new", "queued", "resolve", "ca"} => path[r] = 0,
         l = "op" => path[r] = 0 \/ path[r] \in whole
  PROVE  CAInv'
  BY DEF TypeOK, CAInv, ca, Reusable

LEMMA CAUnmoved ==
  ASSUME TypeOK, CAInv, UNCHANGED ca, UNCHANGED pc PROVE CAInv'
  BY DEF CAInv, ca, Reusable

LEMMA CAClean ==
  ASSUME TypeOK, CAInv, Clean PROVE CAInv'
  BY DEF TypeOK, CAInv, Clean, Reusable

LEMMA CAFetch ==
  ASSUME TypeOK, CAInv, NEW r \in Requests, Fetch(r) PROVE CAInv'
<1>1. UNCHANGED ca /\ pc[r] = "op"
  BY DEF Fetch
<1>2. UNCHANGED pc \/ pc' = [pc EXCEPT ![r] = "done"]
  BY DEF Fetch, PageAnswered, PageFailed, Raise, Respond, Goto
<1> QED BY <1>1, <1>2, CAOther, CAUnmoved

LEMMA CAStep ==
  ASSUME TypeOK, CAInv, QueueInv, [Next]_vars PROVE CAInv'
<1>1. CASE UNCHANGED vars
  BY <1>1, CAUnmoved DEF vars, ca
<1>2. CASE Change
  BY <1>2, CAUnmoved DEF Change
<1>3. CASE Start
  <2>1. Head(queue) \in Requests /\ pc[Head(queue)] = "queued"
    BY <1>3 DEF Start, TypeOK, QueueInv
  <2> QED BY <1>3, <2>1, CAOther DEF Start, Goto, CAInv
<1>4. ASSUME NEW r \in Requests, Arrive(r) PROVE CAInv'
  BY <1>4, CAOther DEF Arrive, Goto, CAInv
<1>5. ASSUME NEW r \in Requests, Resolve(r) PROVE CAInv'
  BY <1>5, CAOther DEF Resolve, Raise, Respond, Goto, CAInv
<1>6. ASSUME NEW r \in Requests, Work(r) PROVE CAInv'
  BY <1>6, CAOther DEF Work, Goto
<1> QED
  BY <1>1, <1>2, <1>3, <1>4, <1>5, <1>6, CAFind, CAWrite, CAFetch, CAClean DEF Next, ThreadStep

LEMMA QueueStep ==
  ASSUME TypeOK, QueueInv, [Next]_vars PROVE QueueInv'
<1>1. CASE Start
  <2>1. \A i \in 1 .. Len(queue') : i + 1 \in 1 .. Len(queue) /\ queue'[i] = queue[i + 1]
    BY <1>1 DEF Start, TypeOK
  <2>2. Head(queue) = queue[1] /\ 1 \in 1 .. Len(queue)
    BY <1>1 DEF Start, TypeOK
  <2>3. \A i \in 1 .. Len(queue') : queue'[i] # Head(queue)
    BY <2>1, <2>2 DEF QueueInv
  <2> QED BY <1>1, <2>1, <2>3 DEF Start, QueueInv, TypeOK, Goto
<1>2. ASSUME NEW r \in Requests, Arrive(r) PROVE QueueInv'
  <2>1. \A i \in 1 .. Len(queue) : queue[i] # r
    BY <1>2 DEF QueueInv, Arrive
  <2>2. queue \in Seq(Requests) /\ queue' = Append(queue, r) /\ pc' = [pc EXCEPT ![r] = "queued"]
          /\ pc \in [Requests -> {"new", "queued", "resolve", "ca", "write", "op", "done"}]
    BY <1>2 DEF Arrive, Goto, TypeOK
  <2>3. Len(queue') = Len(queue) + 1 /\ queue'[Len(queue) + 1] = r
          /\ \A i \in 1 .. Len(queue) : queue'[i] = queue[i] /\ queue[i] \in Requests
    BY <2>2
  <2>4. \A i \in 1 .. Len(queue') : i \in 1 .. Len(queue) \/ i = Len(queue) + 1
    BY <2>2, <2>3
  <2>5. \A i \in 1 .. Len(queue') : pc'[queue'[i]] = "queued"
    BY <2>1, <2>2, <2>3, <2>4 DEF QueueInv
  <2>6. \A i, j \in 1 .. Len(queue') : queue'[i] = queue'[j] => i = j
    BY <2>1, <2>3, <2>4 DEF QueueInv
  <2> QED BY <2>5, <2>6 DEF QueueInv
<1>3. ASSUME NEW r \in Requests, ThreadStep(r) PROVE QueueInv'
  <2>1. UNCHANGED queue /\ pc[r] # "queued"
    BY <1>3 DEF ThreadStep, Resolve, FindFile, WriteFile, Fetch, Work, reads
  <2>2. \E l : pc' = [pc EXCEPT ![r] = l] \/ UNCHANGED pc
    BY <1>3 DEF ThreadStep, Resolve, FindFile, GetFile, WriteFile, Fetch, PageAnswered, PageFailed,
                Work, Raise, Respond, Goto
  <2> QED BY <2>1, <2>2 DEF QueueInv, TypeOK
<1>4. CASE UNCHANGED vars \/ Change \/ Clean
  BY <1>4 DEF QueueInv, vars, Change, Clean
<1> QED BY <1>1, <1>2, <1>3, <1>4 DEF Next
-----------------------------------------------------------------------------
(* The pages of a listing.                                                 *)

LEMMA NothingBefore ==
  ASSUME NEW q \in Query, NEW s PROVE {i \in Promise!Wanted(q, s) : i <= 0} = {}
  BY ItemsAssumption DEF Promise!Wanted, Query, Items

\* A step that leaves the reads of a listing alone, and moves its call only on
\* the way to the operation, or not at all.
LEMMA ListingKept ==
  ASSUME TypeOK, TypeOK', NEW r \in Listings, ListingInv(r),
         pc'[r] = pc[r] \/ (pc[r] \in Before /\ pc'[r] \in Before \cup {"op"}),
         UNCHANGED <<query, snapshot, token, listed, answer>>
  PROVE  ListingInv(r)'
<1>1. pc[r] \in Before \cup {"op", "done"} /\ query[r] \in Query
  BY DEF TypeOK, Before, Requests
<1>2. CASE snapshot[r] = None /\ pc[r] # "done"
  <2>1. token[r] = 0
    BY <1>1, <1>2 DEF ListingInv
  <2>2. Covered(r) = {} /\ Covered(r)' = {}
    BY <1>1, <2>1, NothingBefore DEF Covered
  <2> QED BY <1>1, <1>2, <2>1, <2>2 DEF ListingInv, Before
<1>3. CASE snapshot[r] # None
  BY <1>3 DEF ListingInv, Before, Covered, Pinned
<1>4. CASE pc[r] = "done"
  BY <1>4 DEF ListingInv, Before
<1> QED BY <1>2, <1>3, <1>4

\* An answer leaves nothing else to be said of a listing.
LEMMA Answered ==
  ASSUME TypeOK, NEW r \in Listings, NEW a, Respond(r, a), a.code # "PENDING"
  PROVE  ListingInv(r)'
<1>1. pc'[r] = "done" /\ answer'[r] = a
  BY DEF TypeOK, Respond, Goto, Requests
<1> QED BY <1>1 DEF ListingInv, Before, Promise!Pending, Promise!Answer

LEMMA Unaffected ==
  ASSUME TypeOK, TypeOK', NEW r \in Listings, ListingInv(r), NEW s \in Requests, s # r, NEW l,
         pc' = [pc EXCEPT ![s] = l] \/ UNCHANGED pc, query'[r] = query[r],
         snapshot'[r] = snapshot[r], store' = store,
         token'[r] = token[r], listed'[r] = listed[r], answer'[r] = answer[r]
  PROVE  ListingInv(r)'
<1>1. pc'[r] = pc[r]
  BY DEF TypeOK, Requests
<1> QED BY <1>1 DEF ListingInv, Covered, Pinned

\* What a page adds.
LEMMA PageCovers ==
  ASSUME TypeOK, NEW r \in Listings, ListingInv(r), pc[r] = "op",
         NEW to \in token[r] + 1 .. NumItems
  PROVE  Collect(r, Page(r, to))
           = Promise!Once({i \in Promise!Wanted(query[r], Pinned(r)) : i <= to})
<1>1. token[r] \in Nat /\ to \in Nat /\ token[r] < to /\ \A i \in Items : i \in Nat
  BY ItemsAssumption DEF TypeOK, Items
<1>2. listed[r] = [i \in Items |-> IF i \in Covered(r) THEN 1 ELSE 0]
  BY DEF ListingInv, Before, Promise!Once
<1>3. \A i \in Items :
        Collect(r, Page(r, to))[i]
          = IF i \in Promise!Wanted(query[r], Pinned(r)) /\ i <= to THEN 1 ELSE 0
  <2> TAKE i \in Items
  <2>1. CASE i <= token[r]
    <3>1. i \notin Page(r, to) /\ i <= to
      BY <1>1, <2>1 DEF Page
    <3> QED BY <1>2, <2>1, <3>1 DEF Collect, Covered
  <2>2. CASE ~(i <= token[r])
    <3>1. listed[r][i] = 0
      BY <1>2, <2>2 DEF Covered
    <3>2. i \in Page(r, to) /\ Keeps(query[r], i, Pinned(r)[i])
            <=> i \in Promise!Wanted(query[r], Pinned(r)) /\ i <= to
      BY <1>1, <2>2 DEF Page, Selected, Keeps, Promise!Wanted
    <3> QED BY <3>1, <3>2 DEF Collect
  <2> QED BY <1>1, <2>1, <2>2
<1> QED BY <1>3 DEF Collect, Promise!Once

\* After the last page nothing is left.
LEMMA LastPage ==
  ASSUME TypeOK, NEW r \in Listings, NEW to \in token[r] + 1 .. NumItems, MayEnd(r, to, FALSE)
  PROVE  {i \in Promise!Wanted(query[r], Pinned(r)) : i <= to}
           = Promise!Wanted(query[r], Pinned(r))
<1>1. \A i \in Promise!Wanted(query[r], Pinned(r)) : i \in Selected(query[r], Pinned(r)) /\ i \in Nat
  BY ItemsAssumption DEF Promise!Wanted, Selected, TypeOK, Query, Items
<1>2. to \in Nat
  BY ItemsAssumption DEF TypeOK
<1> QED BY <1>1, <1>2 DEF MayEnd

LEMMA FoundIsOutcome ==
  ASSUME TypeOK, NEW r \in Listings, NEW s
  PROVE  Found(r, Promise!Once(Promise!Wanted(query[r], s))) = Promise!Outcome(query[r], s)
<1>1. Promise!Wanted(query[r], s) \subseteq Items
  BY DEF Promise!Wanted, TypeOK, Query
<1>2. (\A i \in Items : Promise!Once(Promise!Wanted(query[r], s))[i] = 0)
        <=> Promise!Wanted(query[r], s) = {}
  BY <1>1 DEF Promise!Once
<1> QED BY <1>2 DEF Found, Promise!Outcome
-----------------------------------------------------------------------------
(* Each step is one of AtomicListing, or changes nothing it speaks of.     *)

Silent == UNCHANGED <<store, query, snapshot, answer>>

LEMMA RaiseFails ==
  ASSUME TypeOK, NEW r \in Requests, NEW code \in Failures, Raise(r, code),
         pc[r] # "done", r \in Listings => ListingInv(r), UNCHANGED <<store, query, snapshot>>
  PROVE  Silent \/ (r \in Listings /\ Promise!Fail(r))
<1>1. CASE r \in Listings
  BY <1>1 DEF Raise, Respond, ListingInv, Promise!Fail
<1>2. CASE r \notin Listings
  BY <1>2 DEF Raise, Respond, Silent
<1> QED BY <1>1, <1>2

LEMMA RaiseKeeps ==
  ASSUME TypeOK, NEW r \in Listings, NEW code \in Failures, Raise(r, code)
  PROVE  ListingInv(r)'
<1>1. Promise!Failure(code).code # "PENDING"
  BY DEF Promise!Failure, Promise!Answer, Failures
<1> QED BY <1>1, Answered DEF Raise

\* The store a listing answers for is the one its first page came from; its
\* answer is what is wanted of that store.
LEMMA PageImplements ==
  ASSUME TypeOK, TypeOK', NEW r \in Listings, ListingInv(r), pc[r] = "op", PageAnswered(r),
         UNCHANGED <<store, query>>
  PROVE  /\ ListingInv(r)'
         /\ Promise!Pick(r) \/ Promise!Succeed(r)
<1> DEFINE covered(to) == {i \in Promise!Wanted(query[r], Pinned(r)) : i <= to}
<1>1. PICK to \in token[r] + 1 .. NumItems, more \in BOOLEAN :
        /\ MayEnd(r, to, more)
        /\ listed' = [listed EXCEPT ![r] = Collect(r, Page(r, to))]
        /\ snapshot' = [snapshot EXCEPT ![r] = Pinned(r)]
        /\ \/ /\ GoesOn(Page(r, to), more)
              /\ token' = [token EXCEPT ![r] = to]
              /\ UNCHANGED <<pc, answer>>
           \/ /\ ~GoesOn(Page(r, to), more)
              /\ Respond(r, Found(r, Collect(r, Page(r, to))))
              /\ UNCHANGED token
  BY DEF PageAnswered
<1>2. /\ answer[r] = Promise!Pending
      /\ Pinned(r) = Promise!View(r) /\ snapshot'[r] = Pinned(r) /\ Pinned(r) # None
      /\ Collect(r, Page(r, to)) = Promise!Once(covered(to))
  BY <1>1, PageCovers, PinnedType, StatesAssumption
  DEF ListingInv, Pinned, Promise!View, TypeOK
<1>3. CASE GoesOn(Page(r, to), more)
  <2>1. token'[r] = to /\ listed'[r] = Promise!Once(covered(to)) /\ pc'[r] = "op"
          /\ answer'[r] = Promise!Pending
    BY <1>1, <1>2, <1>3 DEF TypeOK
  <2>2. Covered(r)' = covered(to)
    BY <1>2, <2>1 DEF Covered, Pinned
  <2>3. ListingInv(r)'
    BY <1>2, <2>1, <2>2 DEF ListingInv, Before
  <2>4. Promise!Pick(r)
    BY <1>1, <1>2, <1>3 DEF Promise!Pick
  <2> QED BY <2>3, <2>4
<1>4. CASE ~GoesOn(Page(r, to), more)
  <2>1. more = FALSE
    BY <1>4 DEF GoesOn
  <2>2. Found(r, Collect(r, Page(r, to))) = Promise!Outcome(query[r], Pinned(r))
    BY <1>1, <1>2, <2>1, LastPage, FoundIsOutcome
  <2>3. Promise!Outcome(query[r], Pinned(r)).code # "PENDING"
    BY DEF Promise!Outcome, Promise!Failure, Promise!Answer, NotFound
  <2>4. Respond(r, Promise!Outcome(query[r], Pinned(r)))
    BY <1>1, <1>4, <2>2
  <2>5. ListingInv(r)'
    BY <2>3, <2>4, Answered
  <2>6. Promise!Succeed(r)
    BY <1>1, <1>2, <2>4 DEF PageAnswered, Respond, Promise!Succeed
  <2> QED BY <2>5, <2>6
<1> QED BY <1>3, <1>4

LEMMA FetchImplements ==
  ASSUME TypeOK, TypeOK', NEW r \in Listings, ListingInv(r), Fetch(r)
  PROVE  /\ ListingInv(r)'
         /\ Silent \/ Promise!Pick(r) \/ Promise!Succeed(r) \/ Promise!Fail(r)
<1>1. "VALIDATION_ERROR" \in Failures
        /\ \A e \in SdkErrors(ErrorStatus \ {404}) : PageError(query[r], e) \in Failures
  BY ErrorCodes DEF Failures, SdkErrors
<1>2. CASE PageAnswered(r)
  BY <1>2, PageImplements DEF Fetch
<1>3. CASE \E code \in Failures : Raise(r, code) /\ UNCHANGED <<listed, snapshot, token>>
  <2> PICK code \in Failures : Raise(r, code) /\ UNCHANGED <<listed, snapshot, token>>
    BY <1>3
  <2>1. ListingInv(r)'
    BY RaiseKeeps
  <2>2. Silent \/ Promise!Fail(r)
    BY RaiseFails DEF Fetch, Requests
  <2> QED BY <2>1, <2>2
<1> QED BY <1>1, <1>2, <1>3 DEF Fetch, PageFailed

LEMMA ListingStep ==
  ASSUME TypeOK, TypeOK', QueueInv, CAInv, NEW r \in Listings, ListingInv(r), [Next]_vars
  PROVE  ListingInv(r)'
<1> USE DEF Requests
<1>1. CASE UNCHANGED vars
  BY <1>1, ListingKept DEF vars
<1>2. CASE Change
  <2>1. CASE snapshot[r] # None \/ pc[r] = "done"
    BY <1>2, <2>1 DEF Change, ListingInv, Covered, Pinned, Before
  <2>2. CASE snapshot[r] = None /\ pc[r] # "done"
    <3>1. token[r] = 0 /\ query[r] \in Query
      BY <2>2 DEF ListingInv, TypeOK, Before
    <3>2. Covered(r) = {} /\ Covered(r)' = {}
      BY <1>2, <3>1, NothingBefore DEF Covered, Change
    <3> QED BY <1>2, <2>2, <3>1, <3>2 DEF Change, ListingInv
  <2> QED BY <2>1, <2>2
<1>3. CASE Clean
  BY <1>3, ListingKept DEF Clean, reads
<1>4. CASE Start
  <2>1. Head(queue) \in Requests /\ pc[Head(queue)] = "queued"
    BY <1>4 DEF Start, TypeOK, QueueInv
  <2>2. pc'[r] = pc[r] \/ (pc[r] \in Before /\ pc'[r] \in Before \cup {"op"})
    BY <1>4, <2>1 DEF Start, Goto, TypeOK, Before
  <2> QED BY <1>4, <2>2, ListingKept DEF Start, reads
<1>5. ASSUME NEW s \in Requests, Arrive(s) \/ FindFile(s) \/ Work(s) PROVE ListingInv(r)'
  <2>1. UNCHANGED <<query, snapshot, token, listed, answer>>
    BY <1>5 DEF Arrive, FindFile, Work, reads
  <2>2. pc'[r] = pc[r] \/ (pc[r] \in Before /\ pc'[r] \in Before \cup {"op"})
    BY <1>5, RequestsAssumption DEF Arrive, FindFile, GetFile, Work, Goto, TypeOK, Before
  <2> QED BY <2>1, <2>2, ListingKept
<1>6. ASSUME NEW s \in Requests, Resolve(s) \/ WriteFile(s) \/ Fetch(s), s = r PROVE ListingInv(r)'
  <2>1. CASE Fetch(s)
    BY <1>6, <2>1, FetchImplements
  <2>2. CASE \E code \in Failures : Raise(r, code)
    BY <2>2, RaiseKeeps
  <2>3. CASE Resolve(s) \/ WriteFile(s)
    <3>1. "INTERNAL_SERVER_ERROR" \in Failures
      BY DEF Failures
    <3>2. (\E code \in Failures : Raise(r, code))
            \/ (UNCHANGED answer /\ pc[r] \in Before /\ \E l \in {"ca", "op"} : Goto(r, l))
      BY <1>6, <2>3, <3>1, ErrorCodes DEF Resolve, WriteFile, Before
    <3>3. UNCHANGED <<query, snapshot, token, listed>>
      BY <2>3 DEF Resolve, WriteFile
    <3> QED BY <2>2, <3>2, <3>3, ListingKept DEF Goto, TypeOK, Before
  <2> QED BY <1>6, <2>1, <2>3
<1>7. ASSUME NEW s \in Requests, Resolve(s) \/ WriteFile(s) \/ Fetch(s), s # r PROVE ListingInv(r)'
  <2>1. query'[r] = query[r] /\ store' = store
    BY <1>7 DEF Resolve, WriteFile, Fetch
  <2>2. /\ snapshot'[r] = snapshot[r] /\ token'[r] = token[r]
        /\ listed'[r] = listed[r] /\ answer'[r] = answer[r]
    BY <1>7 DEF Resolve, WriteFile, Fetch, PageAnswered, PageFailed, Raise, Respond, TypeOK
  <2>3. \E l : pc' = [pc EXCEPT ![s] = l] \/ UNCHANGED pc
    BY <1>7 DEF Resolve, WriteFile, Fetch, PageAnswered, PageFailed, Raise, Respond, Goto
  <2> QED BY <1>7, <2>1, <2>2, <2>3, Unaffected
<1> QED BY <1>1, <1>2, <1>3, <1>4, <1>5, <1>6, <1>7 DEF Next, ThreadStep
-----------------------------------------------------------------------------
(* The theorems.                                                           *)

LEMMA InitOK == Init => IInv
<1> SUFFICES ASSUME Init PROVE IInv
  OBVIOUS
<1>1. TypeOK
  <2>1. query \in [Listings -> Query]
    BY QueriesAssumption DEF Init
  <2>2. \A r \in Listings : listed[r] \in [Items -> Nat]
    BY DEF Init
  <2>3. answer \in [Listings -> [code : Code, items : [Items -> Nat]]]
    BY PendingType DEF Init, Promise!Init
  <2>4. 0 \in 0 .. NumItems
    BY ItemsAssumption
  <2> QED BY <2>1, <2>2, <2>3, <2>4 DEF Init, Promise!Init, TypeOK, Store, Code
<1>2. QueueInv
  BY DEF Init, QueueInv
<1>3. CAInv
  BY RequestsAssumption DEF Init, CAInv, NoOne, Requests
<1>4. ASSUME NEW r \in Listings PROVE ListingInv(r)
  <2>1. Covered(r) = {}
    BY <1>1, <1>4, NothingBefore DEF Init, Covered, TypeOK
  <2> QED BY <2>1 DEF Init, Promise!Init, ListingInv, Before, Requests, Promise!Once
<1> QED BY <1>1, <1>2, <1>3, <1>4 DEF IInv

LEMMA StepOK == IInv /\ [Next]_vars => IInv'
<1> SUFFICES ASSUME IInv, [Next]_vars PROVE IInv'
  OBVIOUS
<1>1. TypeOK'
  BY TypeStep DEF IInv
<1>2. QueueInv' /\ CAInv'
  BY QueueStep, CAStep DEF IInv
<1>3. ASSUME NEW r \in Listings PROVE ListingInv(r)'
  BY <1>1, ListingStep DEF IInv
<1> QED BY <1>1, <1>2, <1>3 DEF IInv

\* The invariant that relates a listing's pages to the state they come from,
\* the queue to the calls that wait, and the lock to the CA files, holds.
THEOREM Inductive == Spec => []IInv
<1>1. Init => IInv
  BY InitOK
<1>2. IInv /\ [Next]_vars => IInv'
  BY StepOK
<1> QED BY <1>1, <1>2, PTL DEF Spec

\* Every variable keeps its type, for any listings, drains and threads.
THEOREM TypeCorrect == Spec => []TypeOK
<1>1. IInv => TypeOK
  BY DEF IInv
<1> QED BY <1>1, Inductive, PTL

\* A client is never given a CA file that is not written to the end, and there
\* is one file of a CA at most, for any number of threads.
THEOREM CAFilesSound == Spec => []CAFilesHold
<1>1. IInv => CAFilesHold
  <2> SUFFICES ASSUME IInv PROVE CAFilesHold
    OBVIOUS
  <2>1. \A f, g \in files \ leftovers : f = g
    BY DEF IInv, CAInv, Reusable
  <2> QED BY <2>1 DEF IInv, CAInv, CAFilesHold
<1> QED BY <1>1, Inductive, PTL

\* The first page decides what a listing answers for, the last one answers, a
\* failure of any of them fails it; nothing else is seen of it.
LEMMA StepImplements ==
  IInv /\ IInv' /\ [Next]_vars => [Promise!Next]_<<store, query, snapshot, answer>>
<1> SUFFICES ASSUME IInv, IInv', [Next]_vars
             PROVE  Silent \/ Promise!Next
  BY DEF Silent
<1>1. CASE UNCHANGED vars \/ Clean \/ Start
  BY <1>1 DEF vars, Clean, Start, reads, Silent
<1>2. CASE Change
  BY <1>2 DEF Change, Promise!Next, Promise!Change, IInv, TypeOK, Store
<1>3. ASSUME NEW r \in Requests, Arrive(r) \/ FindFile(r) \/ Work(r) PROVE Silent
  BY <1>3 DEF Arrive, FindFile, Work, reads, Silent
<1>4. ASSUME NEW r \in Requests, Resolve(r) \/ WriteFile(r) PROVE Silent \/ Promise!Next
  <2>1. "INTERNAL_SERVER_ERROR" \in Failures
    BY DEF Failures
  <2>2. (\E code \in Failures : Raise(r, code)) \/ UNCHANGED answer
    BY <1>4, <2>1, ErrorCodes DEF Resolve, WriteFile
  <2>3. UNCHANGED <<store, query, snapshot>> /\ pc[r] # "done"
    BY <1>4 DEF Resolve, WriteFile
  <2>4. Silent \/ (r \in Listings /\ Promise!Fail(r))
    BY <2>2, <2>3, RaiseFails DEF IInv, Silent
  <2> QED BY <2>4 DEF Promise!Next
<1>5. ASSUME NEW r \in Requests, Fetch(r) PROVE Silent \/ Promise!Next
  BY <1>5, FetchImplements DEF IInv, Promise!Next, Fetch
<1> QED BY <1>1, <1>2, <1>3, <1>4, <1>5 DEF Next, ThreadStep

\* A listing of any number of pages, of objects that come and go, implements
\* the listing of one moment: PagedListing refines AtomicListing.
THEOREM Refinement == Spec => Atomic
<1>1. Init => Promise!Init
  BY DEF Init
<1>2. IInv /\ IInv' /\ [Next]_vars => [Promise!Next]_<<store, query, snapshot, answer>>
  BY StepImplements
<1> QED BY <1>1, <1>2, Inductive, PTL DEF Spec, Atomic, Promise!Spec
=============================================================================
