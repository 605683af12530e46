---------------------------- MODULE MCAppControl ----------------------------
(* Two flows, two actions, one application; a policy that binds both         *)
(* actions, one that gives their ids to other actions, and an invalid one.  *)
EXTENDS AppControl

Catalog == [chat |-> "ai"]

Strict == [default |-> "block", categories |-> [ai |-> "block"],
           applications |-> [chat |-> "allow"]]
Open   == [default |-> "allow", categories |-> [ai |-> "block"],
           applications |-> [n \in {} |-> n]]
Actions == [strict |-> Strict, open |-> Open]

Bind(i, a, fs) == [id |-> i, action |-> a, match |-> fs]
Both == [actions |-> Actions,
         bindings |-> {Bind(1, "open", {"f1"}), Bind(2, "strict", {"f1", "f2"})}]
One  == [actions |-> Actions, bindings |-> {Bind(1, "strict", {"f1", "f2"})}]
Bad  == [actions |-> Actions, bindings |-> {Bind(1, "missing", {"f1"})}]

MCPolicies == {Both, One, Bad}

\* Behaviours are followed until two kinds of trouble have happened.
OneTrouble == Cardinality(broken) <= 1
=============================================================================
