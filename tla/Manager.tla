------------------------------ MODULE Manager ------------------------------
(***************************************************************************)
(* The manager of cmd/main.go with two of its controllers: AccessKeys get   *)
(* their keys from AccessKeyController, and AccessPolicyController grants   *)
(* those keys permissions.  The two share an informer cache, Garage and the *)
(* process: a policy reads the cached AccessKey at whatever stage the other *)
(* worker has left it, a watch event of an AccessKey goes to both queues,   *)
(* and a restart ends both workers at once.                                 *)
(*                                                                         *)
(* The AccessKeys are deleted and created again; the Buckets are ready and  *)
(* the policies stay as they are created: AccessPolicyController has their  *)
(* changes, and the controllers' modules have the calls that fail.          *)
(***************************************************************************)
EXTENDS Naturals, Sequences

CONSTANTS NoObject, KeyNames, SecretNames, PolicyNames, BucketNames,
          KeyOf, BucketOf, BucketIDs, Perms,
          MaxUID, MaxGen,
          MaxRestarts    \* bound on restarts of the manager

ASSUME ConstantsAssumption ==
  /\ "" \notin SecretNames
  /\ KeyOf \in [PolicyNames -> KeyNames] /\ BucketOf \in [PolicyNames -> BucketNames]
  /\ BucketIDs \subseteq Nat \ {0}
  /\ MaxUID \in Nat /\ MaxGen \in Nat /\ MaxRestarts \in Nat

VARIABLES
  akLog, akQueue, akJob, secrets, nextUID, tampers,  \* AccessKeyController
  apLog, apQueue, apJob, bucketCR,                   \* AccessPolicyController
  keys, nextKey, grants,                             \* Garage
  restarts                                           \* restarts left

akOnly == <<akLog, akQueue, akJob, secrets, nextUID, tampers, keys, nextKey>>
apOnly == <<apLog, apQueue, apJob, bucketCR>>
vars   == <<akOnly, apOnly, grants, restarts>>

\* The faults of both controllers are the restarts; a step of a worker keeps
\* them, so no call fails.
AK == INSTANCE AccessKeyController
        WITH log <- akLog, queue <- akQueue, job <- akJob,
             Names <- KeyNames, Tampering <- {}, MaxTamper <- 0,
             MaxFaults <- MaxRestarts, faults <- restarts

\* What checkAccessKey reads of the cached AccessKey k: deletion is not seen.
KeyView(k) ==
  LET o == AK!cached(k)
  IN [exists |-> o # NoObject,
      id     |-> IF o = NoObject THEN 0 ELSE o.status.id,
      ready  |-> o # NoObject /\ AK!Ready(o.status)]

AP == INSTANCE AccessPolicyController
        WITH log <- apLog, queue <- apQueue, job <- apJob,
             Names <- PolicyNames, Changes <- {}, MaxChanges <- 0,
             changes <- 0, MaxFaults <- MaxRestarts, faults <- restarts,
             keyCR <- [k \in KeyNames |-> KeyView(k)],
             liveKeys <- {k.id : k \in keys}

ASSUME NoObjectAssumption == NoObject \notin AK!Object \cup AP!Object

Init ==
  /\ AK!Init
  /\ apLog = [n \in PolicyNames |-> <<NoObject>>] /\ apQueue = {}
  /\ apJob = AP!Idle
  /\ bucketCR \in
       [BucketNames -> [exists : {TRUE}, id : BucketIDs, ready : {TRUE}]]
  /\ grants = {}

-----------------------------------------------------------------------------

\* Garage forgets the permissions of a key with the key.
DropGrants == grants' = {g \in grants : \E k \in keys' : k.id = g.key}

AccessKeyStep == UNCHANGED <<apOnly, restarts>> /\ AK!Step /\ DropGrants

AccessPolicyStep == UNCHANGED <<akOnly, restarts>> /\ AP!Step

DequeueKey(n) == AK!Dequeue(n) /\ UNCHANGED <<apOnly, grants, restarts>>
DequeuePolicy(n) == UNCHANGED <<akOnly, restarts>> /\ AP!Dequeue(n)

\* The shared informer hands an event of AccessKey n to both controllers.
KeyInformer(n) ==
  /\ AK!Informer(n)
  /\ apQueue' = apQueue \cup AP!LabelledFor(KeyOf, n)
  /\ UNCHANGED <<apLog, apJob, bucketCR, grants, restarts>>

PolicyInformer(n) == UNCHANGED <<akOnly, restarts>> /\ AP!Informer(n)

\* Both caches are filled again before either worker starts.
Restart ==
  /\ restarts > 0 /\ restarts' = restarts - 1
  /\ AK!Relist /\ akJob' = AK!Idle
  /\ AP!Relist /\ apJob' = AP!Idle
  /\ UNCHANGED <<secrets, nextUID, tampers, keys, nextKey, bucketCR, grants>>

KeyUser ==
  /\ AK!User \/ \E s \in SecretNames : AK!CollectGarbage(s)
  /\ UNCHANGED <<apOnly, grants, restarts>>

PolicyUser ==
  /\ UNCHANGED <<akOnly, restarts>>
  /\ \E n \in PolicyNames : AP!UserCreates(n, Perms)

Next ==
  \/ AccessKeyStep \/ AccessPolicyStep
  \/ \E n \in KeyNames : DequeueKey(n) \/ KeyInformer(n)
  \/ \E n \in PolicyNames : DequeuePolicy(n) \/ PolicyInformer(n)
  \/ Restart \/ KeyUser \/ PolicyUser

Spec == Init /\ [][Next]_vars

\* Each controller has a worker of its own; see the controllers' modules.
Fairness ==
  /\ WF_vars(AccessKeyStep) /\ WF_vars(AccessPolicyStep)
  /\ \A n \in KeyNames : WF_vars(KeyInformer(n)) /\ SF_vars(DequeueKey(n))
  /\ \A n \in PolicyNames :
        WF_vars(PolicyInformer(n)) /\ SF_vars(DequeuePolicy(n))

FairSpec == Spec /\ Fairness

-----------------------------------------------------------------------------
(* Properties.                                                              *)

\* The AccessKey of policy n, and whether its controller is done with it.
KeyObject(n) == AK!stored(KeyOf[n])
KeyPending(k) == k \in akQueue \/ akJob.name = k \/ ~AK!fresh(k)

\* What a workload with the Secret of policy n's AccessKey is able to do: its
\* credentials are a live key of that AccessKey, which has on the Bucket
\* exactly the permissions the policy names.
Usable(n) ==
  LET o == KeyObject(n)
      p == AP!stored(n)
      b == bucketCR[BucketOf[n]]
  IN /\ o # NoObject /\ p # NoObject
     /\ [id |-> o.status.id, uid |-> o.uid] \in keys
     /\ secrets[o.secretName] =
          [exists |-> TRUE, owner |-> o.uid, id |-> o.status.id]
     /\ p.status.keyID = o.status.id /\ p.status.bucketID = b.id
     /\ AP!Granted(o.status.id, b.id) = p.perms

\* A policy that says Ready grants what it says to the credentials the user
\* really has, across both controllers, once neither has work left for the
\* two objects: an AccessKey deleted and created again, with another key in
\* the same Secret, takes its policy along.
ReadyMeansUsable ==
  \A n \in PolicyNames :
    (/\ AP!ClaimsReady(AP!stored(n)) /\ ~AP!Pending(n)
     /\ ~KeyPending(KeyOf[n])) => Usable(n)

\* No permission is left behind in Garage by a policy that stays: every grant
\* is on a live key of the policy's AccessKey and recorded by the policy, or
\* the policy's worker still has it to do.
GrantsFollowKey ==
  \A g \in grants : \E n \in PolicyNames :
    LET p == AP!stored(n) IN
    /\ p # NoObject
    /\ KeyObject(n) # NoObject
    /\ [id |-> g.key, uid |-> KeyObject(n).uid] \in keys
    /\ p.status.keyID = g.key \/ AP!Pending(n)

\* A policy, its AccessKey and its Bucket that stay make a usable set, unless
\* the Secret's name was taken when the AccessKey's controller looked.
Wanted(n) ==
  /\ AP!stored(n) # NoObject /\ ~AP!stored(n).deleting
  /\ KeyObject(n) # NoObject /\ ~KeyObject(n).deleting
  /\ KeyObject(n).status.secret # "Conflict"
  /\ bucketCR[BucketOf[n]].ready

BecomesUsable ==
  \A n \in PolicyNames :
    <>[]Wanted(n) =>
      <>[](Usable(n) /\ AP!ClaimsReady(AP!stored(n)))

\* A policy whose AccessKey stays away stops claiming Ready and forgets the
\* key, which is gone with its permissions.
Withdraws ==
  \A n \in PolicyNames :
    <>[](KeyObject(n) = NoObject) =>
      <>[](/\ ~AP!ClaimsReady(AP!stored(n)) /\ grants = {}
           /\ AP!stored(n) # NoObject /\ ~AP!stored(n).deleting
                => AP!stored(n).status.keyID = 0)
=============================================================================
