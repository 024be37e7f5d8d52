--------------------------- MODULE AccessPolicyMC ---------------------------
(* Instances of AccessPolicyController for TLC. *)
EXTENDS AccessPolicyController

\* One policy, p1, for key k1 on bucket b1.
OneKey    == [n \in Names |-> "k1"]
OneBucket == [n \in Names |-> "b1"]
=============================================================================
