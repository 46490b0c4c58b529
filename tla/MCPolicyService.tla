--------------------------- MODULE MCPolicyService ---------------------------
(* Instances of PolicyService for TLC. *)
EXTENDS PolicyService, TLC

CONSTANTS r1, r2

Rule(id, effect, actions, match) ==
  [id |-> id, effect |-> effect, actions |-> actions, match |-> match]

EveryNode == [cluster |-> Regex({"dev", "prod"}), node |-> Regex({"n1", "n2"})]

\* The operator may drain on dev, and never n2.
DevOnly == Rule("dev-only", "allow", {{"node.drain"}}, [cluster |-> Regex({"dev"})])
NotN2(id) == Rule(id, "deny", {{"node.drain"}}, [EveryNode EXCEPT !.node = Regex({"n2"})])
NoProd == Rule("no-prod", "deny", {NodeAction, NamespaceAction}, [cluster |-> Regex({"prod"})])

\* A global deny with a user's allow, the deny moved to the user, and a rule id
\* that the two layers share.
SomeDocuments ==
  "global" :> [policies |-> <<NotN2("not-n2"), NoProd>>,
               users |-> <<[account |-> "operator", policies |-> <<DevOnly>>]>>] @@
  "user" :> [policies |-> <<>>,
             users |-> <<[account |-> "admin", policies |-> <<>>],
                         [account |-> "operator", policies |-> <<DevOnly, NotN2("not-n2")>>]>>] @@
  "clash" :> [policies |-> <<NotN2("rule")>>,
              users |-> <<[account |-> "operator", policies |-> <<Rule("rule", "deny",
                {{"node.drain"}}, [cluster |-> Regex({"dev"})])>>]>>]

SomeTexts == DOMAIN SomeDocuments

On(cluster, nodes) == {[cluster |-> cluster, node |-> n] : n \in nodes}

\* The operator's batch, and the administrator's.
SomeAsk ==
  r1 :> [account |-> "operator", action |-> "node.drain", targets |-> On("dev", {"n1", "n2"})] @@
  r2 :> [account |-> "admin", action |-> "node.drain", targets |-> On("prod", {"n1", "n2"})]
=============================================================================
