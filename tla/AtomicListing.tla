---------------------------- MODULE AtomicListing ----------------------------
(***************************************************************************)
(* What a listing of cluster objects promises, whatever calls it takes:    *)
(* the objects that were wanted at one moment during the request, each     *)
(* once, or an error.  A read of one object is a listing of its name that  *)
(* answers 404 when it finds nothing.                                      *)
(***************************************************************************)
EXTENDS Naturals

CONSTANTS
  Listings,   \* requests
  Items,      \* objects, by name
  States,     \* what an object can be: its phase and whatever else is asked for
  Absent,     \* there is no object of this name
  None,
  NotFound,   \* the answer to a read that finds nothing
  Failures    \* the other errors a request can end with

VARIABLES
  store,      \* store[i]: the state of object i now
  query,      \* query[r]: what request r asks for
  picked,     \* picked[r]: the store at the moment r answers for, or None
  answer      \* answer[r]

Once(wanted) == [i \in Items |-> IF i \in wanted THEN 1 ELSE 0]
Nothing == Once({})

Answer(code, items) == [code |-> code, items |-> items]
Pending == Answer("PENDING", Nothing)
Failure(code) == Answer(code, Nothing)

\* The names and the states a query wants; the states are narrowed twice, by
\* what Kubernetes selects and by what the service keeps of it.
Wanted(q, s) == {i \in q.names : s[i] \in q.selector /\ s[i] \in q.statuses}

Outcome(q, s) ==
  IF q.verb = "get" /\ Wanted(q, s) = {} THEN Failure(NotFound)
  ELSE Answer("OK", Once(Wanted(q, s)))

Init ==
  /\ store \in [Items -> States \cup {Absent}]
  /\ picked = [r \in Listings |-> None]
  /\ answer = [r \in Listings |-> Pending]

Change == store' \in [Items -> States \cup {Absent}] /\ UNCHANGED <<query, picked, answer>>

View(r) == IF picked[r] = None THEN store ELSE picked[r]

Pick(r) ==
  /\ answer[r] = Pending
  /\ picked' = [picked EXCEPT ![r] = View(r)]
  /\ UNCHANGED <<store, query, answer>>

Succeed(r) ==
  /\ answer[r] = Pending
  /\ query[r].fault = "none"
  /\ picked' = [picked EXCEPT ![r] = View(r)]
  /\ answer' = [answer EXCEPT ![r] = Outcome(query[r], View(r))]
  /\ UNCHANGED <<store, query>>

Fail(r) ==
  /\ answer[r] = Pending
  /\ \E code \in Failures : answer' = [answer EXCEPT ![r] = Failure(code)]
  /\ UNCHANGED <<store, query, picked>>

Next == Change \/ \E r \in Listings : Pick(r) \/ Succeed(r) \/ Fail(r)

Spec == Init /\ [][Next]_<<store, query, picked, answer>>
=============================================================================
