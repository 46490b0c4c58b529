---------------------------- MODULE AccessPolicy ----------------------------
(***************************************************************************)
(* The access policy of app/domain/access_policy.py and the validation of  *)
(* the users file that carries it (app/domain/users_document.py).          *)
(*                                                                         *)
(* A rule is what the file says: action patterns, an effect, a match.  A   *)
(* pattern stands for the set of policed actions its glob hits; a regex    *)
(* for the set of values it fullmatches, and whether it compiles at all.   *)
(* A request's parameters are a function, on just the names it carries.    *)
(***************************************************************************)
EXTENDS Naturals, Sequences

NodeAction == {"node.cordon", "node.uncordon", "node.drain", "node.label", "node.annotate",
               "node.taint"}
NamespaceAction == {"namespace.create", "namespace.label", "namespace.annotate"}
PolicyAction == NodeAction \cup NamespaceAction

\* POLICY_ACTIONS: the parameters each action carries.
Carries(action) ==
  IF action \in NodeAction THEN {"cluster", "node"} ELSE {"cluster", "namespace"}

Regex(values) == [compiles |-> TRUE, values |-> values]
BadRegex == [compiles |-> FALSE, values |-> {}]

-----------------------------------------------------------------------------
(* PolicyRule.                                                             *)

Targets(rule) == UNION rule.actions

\* PolicyRule._resolve, and the lengths its fields require: every pattern hits
\* an action, every match key is a parameter of some targeted action, and
\* every regex compiles.
Resolves(rule) ==
  /\ rule.actions # {} /\ {} \notin rule.actions
  /\ DOMAIN rule.match # {}
  /\ DOMAIN rule.match \subseteq UNION {Carries(a) : a \in Targets(rule)}
  /\ \A key \in DOMAIN rule.match : rule.match[key].compiles

AppliesTo(rule, action) == action \in Targets(rule)

\* The match keys are ANDed; one the request does not carry does not match.
Matches(rule, params) ==
  \A key \in DOMAIN rule.match :
    key \in DOMAIN params /\ params[key] \in rule.match[key].values

-----------------------------------------------------------------------------
(* Judging one request.                                                    *)

NoRule == ""
Denied(layer, id) == [allowed |-> FALSE, layer |-> layer, rule_id |-> id]
Allowed == [allowed |-> TRUE, layer |-> "none", rule_id |-> NoRule]

First(indices) == CHOOSE i \in indices : \A j \in indices : i <= j

\* _evaluate_layer
EvaluateLayer(rules, layer, action, params) ==
  LET applicable == {i \in DOMAIN rules : AppliesTo(rules[i], action)}
      denies == {i \in applicable : rules[i].effect = "deny" /\ Matches(rules[i], params)}
      allows == {i \in applicable : rules[i].effect = "allow"}
  IN  IF denies # {} THEN Denied(layer, rules[First(denies)].id)
      ELSE IF allows # {} /\ ~\E i \in allows : Matches(rules[i], params)
      THEN Denied(layer, NoRule)
      ELSE Allowed

\* The first layer that refuses decides.
Evaluate(policies, action, params) ==
  LET global == EvaluateLayer(policies.global_rules, "global", action, params)
      user == EvaluateLayer(policies.user_rules, "user", action, params)
  IN  IF global.allowed THEN user ELSE global

-----------------------------------------------------------------------------
(* The users file: a global list of rules and one per account.             *)

\* Where a document has a rule: in the global list (0) or a user's.
RulesOf(doc, u) == IF u = 0 THEN doc.policies ELSE doc.users[u].policies
Places(doc) == UNION {{u} \X DOMAIN RulesOf(doc, u) : u \in 0 .. Len(doc.users)}
RuleAt(doc, place) == RulesOf(doc, place[1])[place[2]]

\* parse_users_document: every rule resolves, no account and no rule id twice.
Accepts_DuplicateIds(doc) ==
  /\ \A place \in Places(doc) : Resolves(RuleAt(doc, place))
  /\ \A u, v \in DOMAIN doc.users : doc.users[u].account = doc.users[v].account => u = v

Accepts(doc) ==
  /\ \A place \in Places(doc) : Resolves(RuleAt(doc, place))
  /\ \A u, v \in DOMAIN doc.users : doc.users[u].account = doc.users[v].account => u = v
  /\ \A p, q \in Places(doc) : RuleAt(doc, p).id = RuleAt(doc, q).id => p = q

\* JsonPolicyRepository.get_policies
PoliciesOf(doc, account) ==
  [global_rules |-> doc.policies,
   user_rules |->
     IF \E u \in DOMAIN doc.users : doc.users[u].account = account
     THEN doc.users[CHOOSE u \in DOMAIN doc.users : doc.users[u].account = account].policies
     ELSE <<>>]

-----------------------------------------------------------------------------
(* What the policy promises, by the README's table and ADR 0003.           *)

\* One layer, as a set of rules whose order does not matter.
LayerPermits(rules, action, params) ==
  /\ ~\E r \in rules : r.effect = "deny" /\ AppliesTo(r, action) /\ Matches(r, params)
  /\ (\E r \in rules : r.effect = "allow" /\ AppliesTo(r, action)) =>
       \E r \in rules : r.effect = "allow" /\ AppliesTo(r, action) /\ Matches(r, params)

RuleSet(rules) == {rules[i] : i \in DOMAIN rules}

Permits(policies, action, params) ==
  /\ LayerPermits(RuleSet(policies.global_rules), action, params)
  /\ LayerPermits(RuleSet(policies.user_rules), action, params)

=============================================================================
