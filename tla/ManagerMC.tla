----------------------------- MODULE ManagerMC -----------------------------
(* Instances of Manager for TLC. *)
EXTENDS Manager

\* Every policy is for AccessKey k1 on bucket b1.
OneKey    == [n \in PolicyNames |-> "k1"]
OneBucket == [n \in PolicyNames |-> "b1"]
=============================================================================
