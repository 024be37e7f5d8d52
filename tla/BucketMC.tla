------------------------------ MODULE BucketMC ------------------------------
(* Instances of BucketController for TLC. *)
EXTENDS BucketController

\* A positive quota, and beside it a negative one, which the CRD allows and
\* which means no quota.
NegativeQuota == {-1, 5}
OneQuota == {5}
=============================================================================
