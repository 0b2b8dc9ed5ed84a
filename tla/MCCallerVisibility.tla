------------------------- MODULE MCCallerVisibility -------------------------
(* Small instances of CallerVisibility for TLC. *)
EXTENDS CallerVisibility

CONSTANTS r1, r2, r3, s1, s2, t1, orders, refunds, OrdersRead

(* Two requests of one caller, the second of which its resolver tags (a    *)
(* custom resolver may learn the user id later), and one of another caller *)
(* with the same tag.                                                      *)
Scopes == (r1 :> s1) @@ (r2 :> s1) @@ (r3 :> s2)
Tags == (r1 :> {}) @@ (r2 :> {t1}) @@ (r3 :> {t1})

(* r2 searches, the others load a tool.                                    *)
Ranking == (r1 :> <<orders>>) @@ (r2 :> <<orders, refunds>>) @@ (r3 :> <<orders>>)

(* orders has one policy; refunds checks imperatively and must be probed.  *)
Auths ==
  (orders :> [anonymous |-> "no", imperative |-> FALSE, policies |-> {OrdersRead}]) @@
  (refunds :> [anonymous |-> "no", imperative |-> TRUE, policies |-> {}])

(* The evaluator knows the caller and the policy, or that there is no      *)
(* identity.                                                               *)
FactsAnswers ==
  {[identity |-> "present", policyResults |-> (OrdersRead :> "allow")],
   [identity |-> "absent", policyResults |-> <<>>]}
=============================================================================
