------------------------ MODULE AccessKeyRefinement ------------------------
(***************************************************************************)
(* AccessKeyController implements KeyCustody: an owner is an AccessKey that *)
(* is stored with the finalizer, and it is closing from the moment its      *)
(* deletion is in the cache and the worker is not on its way to create or   *)
(* verify its key.                                                          *)
(***************************************************************************)
EXTENDS AccessKeyController

\* The calls of reconcileAccessKey, up to the status write.
EnsureCalls ==
  {"AddFinalizer", "GetKey", "LookupKey", "CreateKey", "GetSecret",
   "ReadSecret", "WriteSecret", "DeleteOldSecret", "UpdateStatus"}

Owned(n) == stored(n) # NoObject /\ stored(n).finalizer
Owners == {stored(n).uid : n \in {m \in Names : Owned(m)}}

Known(n) ==
  /\ cached(n) # NoObject /\ cached(n).deleting
  /\ job.name = n => job.pc \notin EnsureCalls
Closing == {u \in Owners : \E n \in Names : Known(n) /\ cached(n).uid = u}

Custody == INSTANCE KeyCustody
             WITH UIDs <- 1..MaxUID, owners <- Owners, closing <- Closing

\* Every step of the controller, its users, failures and restarts is a step of
\* KeyCustody or leaves it alone: one key per AccessKey, none without a
\* finalizer that waits for it, none deleted while its AccessKey stays, none
\* created once its deletion is known.
CustodyKept == Custody!Spec

\* Lost answers, conflicts that Reconcile swallows and restarts only delay the
\* key of an AccessKey that stays, and the end of one that is deleted.
CustodyPromise == Custody!Promise
=============================================================================
