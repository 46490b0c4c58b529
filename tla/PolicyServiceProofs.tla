------------------------- MODULE PolicyServiceProofs -------------------------
(***************************************************************************)
(* What the access policy decides for any rules, and that a policed write  *)
(* is judged by one version that was in the users file during the request, *)
(* for any documents, editors and number of requests, as long as no two    *)
(* versions of the file have the same stamp.                               *)
(***************************************************************************)
EXTENDS PolicyService, WellFoundedInduction, TLAPS

-----------------------------------------------------------------------------
(* The evaluation.                                                         *)

LEMMA LayerMeets ==
  ASSUME NEW rules, NEW layer, NEW action, NEW params
  PROVE  EvaluateLayer(rules, layer, action, params).allowed
           <=> LayerPermits(RuleSet(rules), action, params)
<1> DEFINE applicable == {i \in DOMAIN rules : AppliesTo(rules[i], action)}
           denies == {i \in applicable : rules[i].effect = "deny" /\ Matches(rules[i], params)}
           allows == {i \in applicable : rules[i].effect = "allow"}
           missed == allows # {} /\ ~\E i \in allows : Matches(rules[i], params)
<1>1. EvaluateLayer(rules, layer, action, params).allowed <=> denies = {} /\ ~missed
  BY DEF EvaluateLayer, Denied, Allowed
<1>2. denies = {} <=>
        ~\E r \in RuleSet(rules) : r.effect = "deny" /\ AppliesTo(r, action) /\ Matches(r, params)
  BY DEF RuleSet
<1>3. allows = {} <=> ~\E r \in RuleSet(rules) : r.effect = "allow" /\ AppliesTo(r, action)
  BY DEF RuleSet
<1>4. (\E i \in allows : Matches(rules[i], params)) <=>
        \E r \in RuleSet(rules) : r.effect = "allow" /\ AppliesTo(r, action) /\ Matches(r, params)
  BY DEF RuleSet
<1> QED BY <1>1, <1>2, <1>3, <1>4 DEF LayerPermits

\* The two layers as evaluate judges them, rule by rule, are the promise that
\* README and ADR 0003 make, whatever the rules and their order.
THEOREM EvaluateMeets ==
  ASSUME NEW policies, NEW action, NEW params
  PROVE  Evaluate(policies, action, params).allowed <=> Permits(policies, action, params)
<1>1. EvaluateLayer(policies.global_rules, "global", action, params).allowed
        <=> LayerPermits(RuleSet(policies.global_rules), action, params)
  BY LayerMeets
<1>2. EvaluateLayer(policies.user_rules, "user", action, params).allowed
        <=> LayerPermits(RuleSet(policies.user_rules), action, params)
  BY LayerMeets
<1> QED BY <1>1, <1>2 DEF Evaluate, Permits

\* A user's rules only tighten: what passes with them passes without any.
THEOREM UserRulesOnlyTighten ==
  ASSUME NEW global, NEW user, NEW action, NEW params,
         Evaluate([global_rules |-> global, user_rules |-> user], action, params).allowed
  PROVE  Evaluate([global_rules |-> global, user_rules |-> <<>>], action, params).allowed
<1>1. LayerPermits(RuleSet(global), action, params)
  BY EvaluateMeets DEF Permits
<1>2. LayerPermits(RuleSet(<<>>), action, params)
  <2>1. RuleSet(<<>>) = {}
    BY DEF RuleSet
  <2> QED BY <2>1 DEF LayerPermits
<1> QED BY <1>1, <1>2, EvaluateMeets DEF Permits

-----------------------------------------------------------------------------
(* The rule that a refusal names.                                          *)

LEMMA FirstIs ==
  ASSUME NEW S \in SUBSET Nat, S # {}
  PROVE  First(S) \in S
<1> DEFINE Less == {ss \in Nat \X Nat : ss[1] < ss[2]}
<1>1. IsWellFoundedOn(Less, Nat)
  BY NatLessThanWellFounded, Zenon DEF OpToRel
<1>2. PICK x \in S : \A y \in S : ~(<<y, x>> \in Less)
  <2> HIDE DEF Less
  <2> QED BY <1>1, WFMin
<1>3. \A y \in S : ~(y < x)
  BY <1>2
<1>4. \A y \in S : x <= y
  BY <1>3
<1> QED BY <1>4 DEF First

Refuses(rule, action, params) ==
  rule.effect = "deny" /\ AppliesTo(rule, action) /\ Matches(rule, params)

LEMMA LayerNames ==
  ASSUME NEW rules, DOMAIN rules \subseteq Nat, NEW layer, NEW action, NEW params,
         EvaluateLayer(rules, layer, action, params).rule_id # NoRule
  PROVE  /\ EvaluateLayer(rules, layer, action, params).layer = layer
         /\ \E i \in DOMAIN rules :
              /\ rules[i].id = EvaluateLayer(rules, layer, action, params).rule_id
              /\ Refuses(rules[i], action, params)
<1> DEFINE applicable == {i \in DOMAIN rules : AppliesTo(rules[i], action)}
           denies == {i \in applicable : rules[i].effect = "deny" /\ Matches(rules[i], params)}
<1>1. EvaluateLayer(rules, layer, action, params) = Denied(layer, rules[First(denies)].id)
      /\ denies # {}
  BY DEF EvaluateLayer, Denied, Allowed
<1>2. First(denies) \in denies
  BY <1>1, FirstIs
<1>3. First(denies) \in DOMAIN rules /\ Refuses(rules[First(denies)], action, params)
  BY <1>2 DEF Refuses
<1>4. Denied(layer, rules[First(denies)].id).layer = layer
      /\ Denied(layer, rules[First(denies)].id).rule_id = rules[First(denies)].id
  BY DEF Denied
<1> QED BY <1>1, <1>3, <1>4

\* By the text t, the decision d on what r asks of p names a rule, if it does, as
\* RefusalNamesItsRule has it.
NamesItsRule(t, r, p, d) ==
  LET named == {place \in Places(Document[t]) : RuleAt(Document[t], place).id = d.rule_id}
  IN  d.rule_id # NoRule => \E place \in Places(Document[t]) :
        /\ named = {place}
        /\ d.layer = IF place[1] = 0 THEN "global" ELSE "user"
        /\ LET rule == RuleAt(Document[t], place)
           IN  rule.effect = "deny" /\ AppliesTo(rule, Ask[r].action) /\ Matches(rule, p)

LEMMA RefusalNames ==
  ASSUME NEW t \in Valid, NEW r, NEW p
  PROVE  NamesItsRule(t, r, p,
           Evaluate(PoliciesOf(Document[t], Ask[r].account), Ask[r].action, p))
<1> DEFINE doc == Document[t]
           policies == PoliciesOf(doc, Ask[r].account)
           d == Evaluate(policies, Ask[r].action, p)
<1> SUFFICES ASSUME d.rule_id # NoRule
             PROVE  \E place \in Places(doc) :
                      /\ RuleAt(doc, place).id = d.rule_id
                      /\ d.layer = IF place[1] = 0 THEN "global" ELSE "user"
                      /\ Refuses(RuleAt(doc, place), Ask[r].action, p)
  <2>1. \A a, b \in Places(doc) : RuleAt(doc, a).id = RuleAt(doc, b).id => a = b
    BY DEF Valid, Accepts
  <2> QED BY <2>1, Zenon DEF NamesItsRule, Refuses
<1>1. /\ Len(doc.users) \in Nat /\ DOMAIN doc.users = 1 .. Len(doc.users)
      /\ \A u \in 0 .. Len(doc.users) : DOMAIN RulesOf(doc, u) \subseteq Nat
  BY DocumentAssumption DEF Valid
<1>2. \A u \in 0 .. Len(doc.users) : \A i \in DOMAIN RulesOf(doc, u) :
        /\ <<u, i>> \in Places(doc) /\ <<u, i>>[1] = u
        /\ RuleAt(doc, <<u, i>>) = RulesOf(doc, u)[i]
  BY DEF Places, RuleAt
<1>3. CASE ~EvaluateLayer(policies.global_rules, "global", Ask[r].action, p).allowed
  <2>1. d = EvaluateLayer(RulesOf(doc, 0), "global", Ask[r].action, p) /\ 0 \in 0 .. Len(doc.users)
    BY <1>1, <1>3 DEF Evaluate, PoliciesOf, RulesOf
  <2>2. PICK i \in DOMAIN RulesOf(doc, 0) :
          RulesOf(doc, 0)[i].id = d.rule_id /\ Refuses(RulesOf(doc, 0)[i], Ask[r].action, p)
    BY <1>1, <2>1, LayerNames
  <2>3. d.layer = "global"
    BY <1>1, <2>1, LayerNames
  <2> HIDE DEF d
  <2>4. /\ <<0, i>> \in Places(doc) /\ <<0, i>>[1] = 0
        /\ RuleAt(doc, <<0, i>>) = RulesOf(doc, 0)[i]
    BY <1>2, <2>1
  <2>5. /\ RuleAt(doc, <<0, i>>).id = d.rule_id
        /\ d.layer = IF <<0, i>>[1] = 0 THEN "global" ELSE "user"
        /\ Refuses(RuleAt(doc, <<0, i>>), Ask[r].action, p)
    BY <2>2, <2>3, <2>4
  <2> QED BY <2>4, <2>5, Zenon
<1>4. CASE EvaluateLayer(policies.global_rules, "global", Ask[r].action, p).allowed
  <2>1. d = EvaluateLayer(policies.user_rules, "user", Ask[r].action, p)
    BY <1>4 DEF Evaluate
  <2>2. CASE ~\E u \in DOMAIN doc.users : doc.users[u].account = Ask[r].account
    <3>1. policies.user_rules = <<>>
      BY <2>2 DEF PoliciesOf
    <3> QED BY <2>1, <3>1, LayerNames
  <2>3. CASE \E u \in DOMAIN doc.users : doc.users[u].account = Ask[r].account
    <3>1. PICK u \in DOMAIN doc.users : policies.user_rules = doc.users[u].policies
      BY <2>3 DEF PoliciesOf
    <3>2. u \in 0 .. Len(doc.users) /\ u # 0 /\ policies.user_rules = RulesOf(doc, u)
      BY <1>1, <3>1 DEF RulesOf
    <3>3. PICK i \in DOMAIN RulesOf(doc, u) :
            RulesOf(doc, u)[i].id = d.rule_id /\ Refuses(RulesOf(doc, u)[i], Ask[r].action, p)
      BY <1>1, <2>1, <3>2, LayerNames
    <3>4. d.layer = "user"
      BY <1>1, <2>1, <3>2, LayerNames
    <3> HIDE DEF d
    <3>5. /\ <<u, i>> \in Places(doc) /\ <<u, i>>[1] = u
          /\ RuleAt(doc, <<u, i>>) = RulesOf(doc, u)[i]
      BY <1>2, <3>2
    <3>6. /\ RuleAt(doc, <<u, i>>).id = d.rule_id
          /\ d.layer = IF <<u, i>>[1] = 0 THEN "global" ELSE "user"
          /\ Refuses(RuleAt(doc, <<u, i>>), Ask[r].action, p)
      BY <3>2, <3>3, <3>4, <3>5
    <3> QED BY <3>5, <3>6, Zenon
  <2> QED BY <2>2, <2>3
<1> QED BY <1>3, <1>4

-----------------------------------------------------------------------------
(* Types.                                                                  *)

LEMMA ValidTexts == Valid \subseteq Texts /\ Absent \notin Valid /\ Absent \notin Texts
BY TextsAssumption DEF Valid, Absent

\* A step of one load, or of an editor, and what it may change.
LEMMA TypeStep ==
  ASSUME TypeOK, [Next]_vars PROVE TypeOK'
<1> USE ValidTexts DEF TypeOK
<1>1. ASSUME NEW r \in Requests, Stat(r) PROVE TypeOK'
  BY <1>1 DEF Stat, Invalid, Goto
<1>2. ASSUME NEW r \in Requests, Acquire(r) PROVE TypeOK'
  BY <1>2 DEF Acquire, Hit, Judge, Goto
<1>3. ASSUME NEW r \in Requests, Parse(r) PROVE TypeOK'
  BY <1>3 DEF Parse, Parsed, ParseFailed, Judge, Invalid
<1>4. ASSUME NEW text \in Texts, NEW ino \in Inodes, Edit(text, ino) PROVE TypeOK'
  BY <1>4 DEF Edit, Note, unread, Stamps
<1>5. CASE Remove
  BY <1>5 DEF Remove, Note, unread
<1>6. CASE Tick
  BY <1>6, ClockAssumption DEF Tick, unread, Stamps
<1>7. CASE UNCHANGED vars
  BY <1>7 DEF vars
<1> QED BY <1>1, <1>2, <1>3, <1>4, <1>5, <1>6, <1>7 DEF Next, Editors, Load

\* The loads, the cache and the file keep their types; what is cached is valid.
THEOREM TypeCorrect == Spec => []TypeOK
<1>1. Init => TypeOK
  BY ClockAssumption DEF Init, TypeOK, Stamps
<1> QED BY <1>1, TypeStep, PTL DEF Spec

-----------------------------------------------------------------------------
(* The inductive invariant.  The stamps of the versions are distinct, so a *)
(* stamp in use tells which version it is of; a request that finds its own *)
(* stamp in the cache finds a text that the file had since it began, read  *)
(* by itself or by another request that began no later than the parse.     *)

StampsInv ==
  /\ file.stamp \in used
  /\ cache.text # Absent => cache.stamp \in used
  /\ \A r \in Requests : InFlight(r) => stamp[r] \in used

CacheInv ==
  cache.text # Absent /\ cache.stamp = file.stamp /\ file.text # Absent =>
    cache.text = file.text

RequestInv(r) ==
  /\ InFlight(r) => verdict[r] = "pending"
  /\ InFlight(r) => file.text \in seen[r]
  /\ InFlight(r) /\ cache.text # Absent /\ stamp[r] = cache.stamp => cache.text \in seen[r]
  /\ pc[r] = "stat" => verdict[r] = "pending"

\* What is promised of a request that was answered.
Judged(r) ==
  verdict[r] = "judged" =>
    \E t \in seen[r] \cap Valid :
      \A p \in Ask[r].targets :
        /\ decisions[r][p].allowed <=> PermitsBy(t, r, p)
        /\ NamesItsRule(t, r, p, decisions[r][p])

Refused(r) == verdict[r] = "invalid" => ~(seen[r] \subseteq Valid)

IInv ==
  /\ TypeOK /\ StampsInv /\ CacheInv
  /\ \A r \in Requests : RequestInv(r) /\ Judged(r) /\ Refused(r)

LEMMA JudgeKeeps ==
  ASSUME TypeOK, NEW r \in Requests, NEW t \in seen[r] \cap Valid, Judge(r, t), UNCHANGED seen
  PROVE  Judged(r)' /\ Refused(r)' /\ verdict'[r] = "judged"
<1>1. verdict'[r] = "judged"
  BY DEF Judge, TypeOK
<1>2. \A p \in Ask[r].targets : decisions'[r][p].allowed <=> PermitsBy(t, r, p)
  BY EvaluateMeets DEF Judge, TypeOK, PermitsBy
<1>3. \A p \in Ask[r].targets : NamesItsRule(t, r, p, decisions'[r][p])
  BY RefusalNames DEF Judge, TypeOK
<1> QED BY <1>1, <1>2, <1>3 DEF Judged, Refused, PermitsBy, NamesItsRule

\* A step that leaves a request where it was.
LEMMA OthersKept ==
  ASSUME NEW r \in Requests, Judged(r), Refused(r),
         UNCHANGED <<verdict[r], decisions[r], seen[r]>>
  PROVE  Judged(r)' /\ Refused(r)'
BY DEF Judged, Refused, PermitsBy, NamesItsRule

LEMMA StatKeeps ==
  ASSUME IInv, NEW q \in Requests, Stat(q) PROVE IInv'
<1>1. TypeOK' /\ StampsInv' /\ CacheInv'
  BY TypeStep DEF IInv, Next, Load, Stat, StampsInv, CacheInv, InFlight, Goto, Invalid, TypeOK
<1>2. ASSUME NEW r \in Requests PROVE RequestInv(r)' /\ Judged(r)' /\ Refused(r)'
  <2>1. CASE r # q
    <3>1. UNCHANGED <<pc[r], verdict[r], decisions[r], seen[r], stamp[r], file, cache>>
      BY <2>1 DEF Stat, Goto, Invalid, IInv, TypeOK
    <3> QED BY <3>1, OthersKept DEF IInv, RequestInv, InFlight
  <2>2. CASE r = q /\ file.text = Absent
    <3>1. pc'[q] = "done" /\ verdict'[q] = "invalid" /\ seen'[q] = {Absent}
      BY <2>2 DEF Stat, Goto, Invalid, IInv, TypeOK
    <3> QED BY <2>2, <3>1, ValidTexts DEF RequestInv, InFlight, Judged, Refused
  <2>3. CASE r = q /\ file.text # Absent
    <3>1. /\ pc'[q] = "lock" /\ verdict'[q] = "pending" /\ seen'[q] = {file.text}
          /\ stamp'[q] = file.stamp /\ UNCHANGED <<file, cache>>
      BY <2>3 DEF Stat, Goto, IInv, RequestInv, TypeOK
    <3> QED BY <2>3, <3>1 DEF IInv, CacheInv, RequestInv, InFlight, Judged, Refused
  <2> QED BY <2>1, <2>2, <2>3
<1> QED BY <1>1, <1>2 DEF IInv

LEMMA AcquireKeeps ==
  ASSUME IInv, NEW q \in Requests, Acquire(q) PROVE IInv'
<1>1. TypeOK' /\ StampsInv' /\ CacheInv'
  BY TypeStep DEF IInv, Next, Load, Acquire, StampsInv, CacheInv, InFlight, Goto, Judge, TypeOK
<1>2. ASSUME NEW r \in Requests PROVE RequestInv(r)' /\ Judged(r)' /\ Refused(r)'
  <2>1. CASE r # q
    <3>1. UNCHANGED <<pc[r], verdict[r], decisions[r], seen, stamp, file, cache>>
      BY <2>1 DEF Acquire, Goto, Judge, IInv, TypeOK
    <3> QED BY <3>1, OthersKept DEF IInv, RequestInv, InFlight
  <2>2. CASE r = q /\ Hit(q) /\ Judge(q, cache.text)
    <3>1. cache.text \in seen[q] \cap Valid
      BY <2>2 DEF Acquire, Hit, IInv, RequestInv, InFlight, TypeOK
    <3>2. pc'[q] = "done"
      BY <2>2 DEF Judge, IInv, TypeOK
    <3> QED BY <2>2, <3>1, <3>2, JudgeKeeps DEF Acquire, IInv, RequestInv, InFlight
  <2>3. CASE r = q /\ Goto(q, "parse")
    <3>1. pc'[q] = "parse" /\ UNCHANGED <<verdict, decisions, seen, stamp, file, cache>>
      BY <2>3 DEF Acquire, Goto, IInv, TypeOK
    <3>2. InFlight(q)
      BY DEF Acquire, InFlight
    <3> QED BY <2>3, <3>1, <3>2, OthersKept DEF IInv, RequestInv, InFlight
  <2> QED BY <2>1, <2>2, <2>3 DEF Acquire
<1> QED BY <1>1, <1>2 DEF IInv

LEMMA ParseKeeps ==
  ASSUME IInv, NEW q \in Requests, Parse(q) PROVE IInv'
<1>0. InFlight(q)
  BY DEF Parse, InFlight
<1>1. TypeOK'
  BY TypeStep DEF IInv, Next, Load
<1>2. StampsInv' /\ CacheInv'
  BY <1>0 DEF IInv, Parse, Parsed, ParseFailed, StampsInv, CacheInv, InFlight, Judge, Invalid, TypeOK
<1>3. ASSUME NEW r \in Requests PROVE RequestInv(r)' /\ Judged(r)' /\ Refused(r)'
  <2>1. CASE r # q
    <3>1. UNCHANGED <<pc[r], verdict[r], decisions[r], seen, stamp, file>>
      BY <2>1 DEF Parse, Parsed, ParseFailed, Invalid, Judge, IInv, TypeOK
    <3>2. UNCHANGED cache \/ cache'.text = file.text
      BY DEF Parse, Parsed, ParseFailed
    <3> QED BY <3>1, <3>2, OthersKept DEF IInv, RequestInv, InFlight
  <2>2. CASE r = q /\ Parsed(q)
    <3>1. file.text \in seen[q] \cap Valid
      BY <1>0, <2>2 DEF Parsed, IInv, RequestInv
    <3>2. pc'[q] = "done"
      BY <2>2 DEF Parsed, Judge, IInv, TypeOK
    <3> QED BY <2>2, <3>1, <3>2, JudgeKeeps DEF Parsed, Parse, IInv, RequestInv, InFlight
  <2>3. CASE r = q /\ ParseFailed(q)
    <3>1. file.text \in seen[q] /\ file.text \notin Valid /\ UNCHANGED seen
      BY <1>0, <2>3 DEF Parse, ParseFailed, IInv, RequestInv
    <3>2. pc'[q] = "done" /\ verdict'[q] = "invalid"
      BY <2>3 DEF ParseFailed, Invalid, IInv, TypeOK
    <3> QED BY <2>3, <3>1, <3>2 DEF RequestInv, InFlight, Judged, Refused
  <2> QED BY <2>1, <2>2, <2>3 DEF Parse
<1> QED BY <1>1, <1>2, <1>3 DEF IInv

\* An editor notes the new text for the requests in flight, and touches no
\* other.
LEMMA NoteKeeps ==
  ASSUME IInv, NEW text, Note(text), file'.text = text, UNCHANGED unread, NEW r \in Requests
  PROVE  RequestInv(r)' /\ Judged(r)' /\ Refused(r)'
<1>1. CASE InFlight(r)
  BY <1>1 DEF Note, unread, InFlight, IInv, RequestInv, Judged, Refused
<1>2. CASE ~InFlight(r)
  <2>1. UNCHANGED <<verdict[r], decisions[r], seen[r]>>
    BY <1>2 DEF Note, unread
  <2> QED BY <1>2, <2>1, OthersKept DEF IInv, RequestInv, InFlight, unread
<1> QED BY <1>1, <1>2

LEMMA EditKeeps ==
  ASSUME DistinctStamps, IInv, NEW text \in Texts, NEW ino \in Inodes, Edit(text, ino)
  PROVE  IInv'
<1>1. TypeOK'
  BY TypeStep DEF IInv, Next, Editors
<1>2. file'.stamp \notin used /\ file'.text = text /\ used' = used \cup {file'.stamp}
  BY DEF Edit
<1>3. StampsInv' /\ CacheInv'
  BY <1>2 DEF Edit, IInv, StampsInv, CacheInv, InFlight, unread
<1> QED BY <1>1, <1>2, <1>3, NoteKeeps DEF IInv, Edit

LEMMA RemoveKeeps ==
  ASSUME IInv, Remove PROVE IInv'
<1>1. TypeOK'
  BY TypeStep DEF IInv, Next, Editors
<1>2. file'.text = Absent /\ file'.stamp = file.stamp
  BY DEF Remove, IInv, TypeOK
<1>3. StampsInv' /\ CacheInv'
  BY <1>2 DEF Remove, IInv, StampsInv, CacheInv, InFlight, unread
<1> QED BY <1>1, <1>2, <1>3, NoteKeeps DEF IInv, Remove

\* The invariant is preserved by every step of every load and editor.
THEOREM Inductive ==
  ASSUME DistinctStamps PROVE IInv /\ [Next]_vars => IInv'
<1> SUFFICES ASSUME IInv, [Next]_vars PROVE IInv'
  OBVIOUS
<1>1. CASE Tick \/ UNCHANGED vars
  <2>1. TypeOK'
    BY <1>1, TypeStep DEF IInv, Next, Editors
  <2>2. UNCHANGED <<file, used, seen, unread>>
    BY <1>1 DEF Tick, vars, unread
  <2>3. \A r \in Requests : RequestInv(r)' /\ Judged(r)' /\ Refused(r)'
    BY <2>2, OthersKept DEF IInv, RequestInv, InFlight, unread
  <2> QED BY <2>1, <2>2, <2>3 DEF IInv, StampsInv, CacheInv, InFlight, unread
<1> QED BY <1>1, StatKeeps, AcquireKeeps, ParseKeeps, EditKeeps, RemoveKeeps
        DEF Next, Editors, Load

LEMMA Invariant ==
  ASSUME DistinctStamps PROVE Spec => []IInv
<1>1. Init => IInv
  <2> SUFFICES ASSUME Init PROVE IInv
    OBVIOUS
  <2>1. TypeOK
    BY ClockAssumption DEF Init, TypeOK, Stamps
  <2> QED BY <2>1 DEF Init, IInv, StampsInv, CacheInv, RequestInv, Judged, Refused, InFlight
<1> QED BY <1>1, Inductive, PTL DEF Spec

\* Every policed write is judged, with all its nodes, by one valid version that
\* the users file had while the request was served.
THEOREM OneCurrentVersion ==
  ASSUME DistinctStamps PROVE Spec => []JudgedByOneCurrentVersion
<1>1. IInv => JudgedByOneCurrentVersion
  BY DEF IInv, Judged, JudgedByOneCurrentVersion
<1> QED BY <1>1, Invariant, PTL

\* A refusal that names a rule names the one rule of that id, in a version that the
\* file had during the request, and that rule denies the request.
THEOREM RefusalNamed ==
  ASSUME DistinctStamps PROVE Spec => []RefusalNamesItsRule
<1>1. IInv => RefusalNamesItsRule
  <2> SUFFICES ASSUME IInv, NEW r \in Requests, verdict[r] = "judged"
               PROVE  \E t \in seen[r] \cap Valid :
                        \A p \in Ask[r].targets : NamesItsRule(t, r, p, decisions[r][p])
    BY Zenon DEF RefusalNamesItsRule, NamesItsRule
  <2> QED BY DEF IInv, Judged
<1> QED BY <1>1, Invariant, PTL

\* Only a file that was broken or missing refuses a write as such.
THEOREM OnlyABrokenFile ==
  ASSUME DistinctStamps PROVE Spec => []InvalidMeansBroken
<1>1. IInv => InvalidMeansBroken
  BY DEF IInv, Refused, InvalidMeansBroken
<1> QED BY <1>1, Invariant, PTL

=============================================================================
