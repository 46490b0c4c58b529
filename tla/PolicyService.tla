---------------------------- MODULE PolicyService ----------------------------
(***************************************************************************)
(* Policed writes while the users file is edited: PolicyService.enforce    *)
(* and denied_nodes (app/services/policy_service.py), each on a document   *)
(* that JsonUsersFile.load (app/repositories/json_users_file.py) serves    *)
(* from its cache or parses again.                                         *)
(*                                                                         *)
(* A text is what the file holds; Document gives the texts that decode.    *)
(* The stamp of a version is its inode and the clock tick of its last      *)
(* change: contents of one size, so that the size tells nothing apart.     *)
(***************************************************************************)
EXTENDS AccessPolicy

CONSTANTS
  Requests,       \* policed writes
  Texts,          \* what an editor may leave in the file
  Document,       \* Document[t]: the document that the text t decodes to
  Ask,            \* Ask[r]: what r asks: the account, the action, the targets
  Inodes,         \* inodes of the file's directory
  MaxClock,       \* bound: ticks of the filesystem's clock
  DistinctStamps  \* no two versions of the file have the same stamp

ASSUME TextsAssumption == DOMAIN Document \subseteq Texts /\ "absent" \notin Texts
ASSUME DocumentAssumption ==   \* accounts and rules come in lists
  \A text \in DOMAIN Document :
    LET doc == Document[text]
    IN  /\ Len(doc.users) \in Nat /\ DOMAIN doc.users = 1 .. Len(doc.users)
        /\ \A u \in 0 .. Len(doc.users) : DOMAIN RulesOf(doc, u) \subseteq Nat
ASSUME ClockAssumption == MaxClock \in Nat /\ DistinctStamps \in BOOLEAN

VARIABLES
  file,       \* the file: its text and its stamp
  clock,      \* the filesystem's clock
  cache,      \* _doc, as the text it was parsed from, and _stamp
  lock,       \* who holds _lock
  pc,         \* pc[r]: what request r does next
  stamp,      \* stamp[r]: the stamp it read
  decisions,  \* decisions[r]: on each of its targets, once it is judged
  verdict,    \* verdict[r]
  \* history
  used,       \* the stamps that versions of the file had
  seen        \* seen[r]: the texts the file had since r began

vars == <<file, clock, cache, lock, pc, stamp, decisions, verdict, used, seen>>

Absent == "absent"
Stamps == [ino : Inodes, changed : 0 .. MaxClock]
NoStamp == [ino |-> "none", changed |-> 0]
NoOne == "none"

\* The texts that decode to a document without a problem.
Valid == {text \in DOMAIN Document : Accepts(Document[text])}

Init ==
  /\ clock = 0
  /\ \E text \in Texts, ino \in Inodes :
       file = [text |-> text, stamp |-> [ino |-> ino, changed |-> 0]]
  /\ used = {file.stamp}
  /\ cache = [text |-> Absent, stamp |-> NoStamp]
  /\ lock = NoOne
  /\ pc = [r \in Requests |-> "stat"]
  /\ stamp = [r \in Requests |-> NoStamp]
  /\ decisions = [r \in Requests |-> <<>>]
  /\ verdict = [r \in Requests |-> "pending"]
  /\ seen = [r \in Requests |-> {}]

-----------------------------------------------------------------------------
(* JsonUsersFile.load for request r, and what becomes of it.               *)

Goto(r, l) == pc' = [pc EXCEPT ![r] = l] /\ UNCHANGED <<decisions, verdict>>

\* UsersFileInvalidException: every policed write is refused.
Invalid(r) ==
  /\ pc' = [pc EXCEPT ![r] = "done"]
  /\ verdict' = [verdict EXCEPT ![r] = "invalid"]
  /\ UNCHANGED decisions

\* The loaded document judges every target of the request.
Judge(r, text) ==
  /\ pc' = [pc EXCEPT ![r] = "done"]
  /\ verdict' = [verdict EXCEPT ![r] = "judged"]
  /\ decisions' = [decisions EXCEPT ![r] =
       [params \in Ask[r].targets |->
          Evaluate(PoliciesOf(Document[text], Ask[r].account), Ask[r].action, params)]]

Stat(r) ==
  /\ pc[r] = "stat"
  /\ seen' = [seen EXCEPT ![r] = {file.text}]
  /\ \/ file.text = Absent /\ Invalid(r) /\ UNCHANGED stamp
     \/ file.text # Absent /\ Goto(r, "lock") /\ stamp' = [stamp EXCEPT ![r] = file.stamp]
  /\ UNCHANGED <<file, clock, cache, lock, used>>

Hit_AnyStamp(r) == cache.text # Absent

Hit(r) == stamp[r] = cache.stamp /\ cache.text # Absent

\* With the lock: the cached document, or a new look at the file.
Acquire(r) ==
  /\ pc[r] = "lock" /\ lock = NoOne
  /\ \/ Hit(r) /\ Judge(r, cache.text) /\ UNCHANGED lock
     \/ ~Hit(r) /\ Goto(r, "parse") /\ lock' = r
  /\ UNCHANGED <<file, clock, cache, stamp, used, seen>>

Parsed_Unchanged(r) ==
  /\ file.text \in Valid
  /\ cache' = [text |-> file.text, stamp |-> stamp[r]]
  /\ IF file.stamp = stamp[r] THEN Judge(r, file.text) ELSE Invalid(r)
  /\ lock' = NoOne

\* The file may have changed since it was stat'ed; its document is then kept
\* under the older stamp.
Parsed(r) ==
  /\ file.text \in Valid
  /\ cache' = [text |-> file.text, stamp |-> stamp[r]]
  /\ Judge(r, file.text)
  /\ lock' = NoOne

ParseFailed(r) ==
  file.text \notin Valid /\ Invalid(r) /\ lock' = NoOne /\ UNCHANGED cache

Parse(r) ==
  /\ pc[r] = "parse"
  /\ Parsed(r) \/ ParseFailed(r)
  /\ UNCHANGED <<file, clock, stamp, used, seen>>

Load(r) == Stat(r) \/ Acquire(r) \/ Parse(r)

-----------------------------------------------------------------------------
(* The file's editors.                                                     *)

unread == <<cache, lock, pc, stamp, decisions, verdict>>

InFlight(r) == pc[r] \in {"lock", "parse"}

Note(text) ==
  seen' = [r \in Requests |-> IF InFlight(r) THEN seen[r] \cup {text} ELSE seen[r]]

\* In place, or by renaming a new file over it.
Edit(text, ino) ==
  LET new == [ino |-> ino, changed |-> clock]
  IN  /\ DistinctStamps => new \notin used
      /\ file' = [text |-> text, stamp |-> new]
      /\ used' = used \cup {new}
      /\ Note(text)
      /\ UNCHANGED <<clock, unread>>

Remove ==
  /\ file.text # Absent
  /\ file' = [file EXCEPT !.text = Absent]
  /\ Note(Absent)
  /\ UNCHANGED <<clock, used, unread>>

Tick ==
  /\ clock < MaxClock
  /\ clock' = clock + 1
  /\ UNCHANGED <<file, used, seen, unread>>

Editors == (\E text \in Texts, ino \in Inodes : Edit(text, ino)) \/ Remove \/ Tick

Next == Editors \/ \E r \in Requests : Load(r)

Spec == Init /\ [][Next]_vars

-----------------------------------------------------------------------------
(* Properties.                                                             *)

TypeOK ==
  /\ file \in [text : Texts \cup {Absent}, stamp : Stamps]
  /\ clock \in 0 .. MaxClock
  /\ cache \in [text : Valid \cup {Absent}, stamp : Stamps \cup {NoStamp}]
  /\ lock \in Requests \cup {NoOne}
  /\ pc \in [Requests -> {"stat", "lock", "parse", "done"}]
  /\ stamp \in [Requests -> Stamps \cup {NoStamp}]
  /\ verdict \in [Requests -> {"pending", "judged", "invalid"}]
  /\ DOMAIN decisions = Requests
  /\ \A r \in Requests : verdict[r] = "judged" => DOMAIN decisions[r] = Ask[r].targets
  /\ used \in SUBSET Stamps
  /\ seen \in [Requests -> SUBSET (Texts \cup {Absent})]

\* What the document in the text t makes of a request's target.
PermitsBy(t, r, params) ==
  Permits(PoliciesOf(Document[t], Ask[r].account), Ask[r].action, params)

\* "An edit takes effect on the next request", and every node of a batch is
\* judged by the same version: there is one valid version, in the file at some
\* moment of the request, that permits exactly what was allowed.
JudgedByOneCurrentVersion ==
  \A r \in Requests : verdict[r] = "judged" =>
    \E t \in seen[r] \cap Valid :
      \A p \in Ask[r].targets : decisions[r][p].allowed <=> PermitsBy(t, r, p)

\* A refusal names its rule: whoever reads the file finds under that id one
\* rule, in that layer, which denies this request.
RefusalNamesItsRule ==
  \A r \in Requests : verdict[r] = "judged" =>
    \E t \in seen[r] \cap Valid : \A p \in Ask[r].targets :
      LET d == decisions[r][p]
          named == {place \in Places(Document[t]) : RuleAt(Document[t], place).id = d.rule_id}
      IN  d.rule_id # NoRule => \E place \in Places(Document[t]) :
            /\ named = {place}
            /\ d.layer = IF place[1] = 0 THEN "global" ELSE "user"
            /\ LET rule == RuleAt(Document[t], place)
               IN  rule.effect = "deny" /\ AppliesTo(rule, Ask[r].action) /\ Matches(rule, p)

\* Only a broken file refuses everything, and the loader recovers with it: a
\* request during which the file was valid throughout is judged.
InvalidMeansBroken ==
  \A r \in Requests : verdict[r] = "invalid" => ~(seen[r] \subseteq Valid)
=============================================================================
