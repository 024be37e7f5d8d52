------------------------------ MODULE KubeAPI ------------------------------
(***************************************************************************)
(* What one controller of the manager sees of Kubernetes and of            *)
(* controller-runtime: the API server's store for the resource it          *)
(* reconciles, the informer cache that r.client.Get reads, the work queue   *)
(* and its single worker (MaxConcurrentReconciles is left at its default).  *)
(* None of it is code of this repository: it is modelled from how           *)
(* internal/controller uses it (SetupWithManager, Reconcile's results, and  *)
(* the manager of cmd/main.go, which caches every kind but Secrets and      *)
(* ConfigMaps).                                                            *)
(*                                                                         *)
(* log[n] holds the versions of object n from the one in the informer       *)
(* cache (the first) to the one the API server stores (the last); the ones  *)
(* between are watch events on their way.  A version is a record, or        *)
(* NoObject when the object does not exist.  resourceVersions are not       *)
(* numbered: a copy of n is current when nothing was written to n since the *)
(* copied version, and an optimistic write is accepted iff its copy is.     *)
(***************************************************************************)
EXTENDS Naturals, Sequences

CONSTANTS Names,      \* names of the objects of this kind
          NoObject    \* the version of an object that does not exist

VARIABLES log,        \* [Names -> non-empty sequences of versions]
          queue       \* set of names waiting in the work queue

kubeVars == <<log, queue>>

\* The version the informer cache holds, and the one the API server stores.
cached(n) == log[n][1]
stored(n) == log[n][Len(log[n])]

\* Is the cached version the stored one?
fresh(n) == Len(log[n]) = 1

KubeInit ==
  /\ log = [n \in Names |-> <<NoObject>>]
  /\ queue = {}

\* The API server stores version v of n and sends a watch event.  A write
\* that changes nothing keeps the resourceVersion and sends no event.
Store(n, v) ==
  log' = [log EXCEPT ![n] = IF v = stored(n) THEN @ ELSE Append(@, v)]

\* The informer handles the next watch event of n: the cache advances and the
\* handler of For() puts n into the work queue (a name being processed is
\* put back, so it is processed again).
Deliver(n) ==
  /\ ~fresh(n)
  /\ log' = [log EXCEPT ![n] = Tail(@)]
  /\ queue' = queue \cup {n}

\* A restarted manager lists every object before it starts its workers.
Relist ==
  /\ log' = [n \in Names |-> <<stored(n)>>]
  /\ queue' = {n \in Names : stored(n) # NoObject}
=============================================================================
