----------------------- MODULE AccessPolicyController -----------------------
(***************************************************************************)
(* The AccessPolicy controller                                              *)
(* (internal/controller/accesspolicy_controller.go and                      *)
(* accesspolicy_conditions.go) and the bucket-key permissions it sets in    *)
(* Garage (PermissionClient of internal/garage/client.go).                  *)
(*                                                                         *)
(* One action per remote call or cache read of Reconcile.  The AccessKeys   *)
(* and Buckets a policy refers to are seen through the informer cache only, *)
(* so keyCR and bucketCR are the cached objects: the other controllers and  *)
(* users change them, and every change is a watch event that                *)
(* findPoliciesForAccessKey or findPoliciesForBucket maps to policies.      *)
(*                                                                         *)
(* Abstractions: one namespace; a policy's references are immutable (the    *)
(* CRD's validation rules) and given by the constants KeyOf and BucketOf;   *)
(* its two labels are one flag, set when they equal the references; a       *)
(* permission set is a set of permission names; condition reasons and       *)
(* messages are left out.                                                   *)
(***************************************************************************)
EXTENDS KubeAPI, FiniteSets

CONSTANTS KeyNames, BucketNames,  \* AccessKey and Bucket objects
          KeyOf, BucketOf,        \* the references of each policy
          BucketIDs,   \* Garage's buckets
          Perms,       \* the permissions: read, write and owner
          Changes,     \* what users and the other controllers may do
          MaxChanges,  \* bound on the changes that undo something
          MaxFaults    \* bound on failing calls and crashes

NoName == ""
NoID   == 0

ASSUME ReferencesAssumption ==
  /\ KeyOf \in [Names -> KeyNames] /\ BucketOf \in [Names -> BucketNames]
  /\ BucketIDs \subseteq Nat \ {NoID}
  /\ MaxChanges \in Nat /\ MaxFaults \in Nat

Cond == {"Unknown", "True", "False"}

Status == [keyID : Nat, bucketID : Nat,         \* AccessKeyID, BucketID
           key : Cond,         \* PolicyAccessKeyReady
           bucket : Cond,      \* PolicyBucketReady
           assigned : Cond,    \* PolicyReady
           og : Nat,           \* ObservedGeneration
           seen : Nat]         \* ObservedGeneration of the Ready condition

Object == [gen : Nat, perms : SUBSET Perms, labelled : BOOLEAN,
           finalizer : BOOLEAN, deleting : BOOLEAN, status : Status]

ASSUME NoObjectAssumption == NoObject \notin Object

\* What the controller reads of an AccessKey or a Bucket.
Dependency == [exists : BOOLEAN, id : Nat, ready : BOOLEAN]
Absent     == [exists |-> FALSE, id |-> NoID, ready |-> FALSE]

VARIABLES
  keyCR, bucketCR,  \* cached AccessKeys and Buckets
  liveKeys,         \* Garage: IDs of the keys that exist
  nextKey,          \* Garage: the next key ID
  grants,           \* Garage: set of [key, bucket, perm]
  changes, faults,  \* what is left of MaxChanges and MaxFaults
  job               \* the worker, see Job

deps   == <<keyCR, bucketCR>>
garage == <<liveKeys, nextKey, grants>>
vars   == <<log, queue, deps, garage, changes, faults, job>>

\* The worker: the call it makes next and the variables of Reconcile.
Job == [pc : {"idle", "Get", "Revoke", "RemoveFinalizer", "UpdateMeta",
              "CheckBucket", "RevokeBucket", "CheckAccessKey", "RevokeKey",
              "Deny", "Allow", "PatchStatus"},
        name : Names \cup {NoName},
        obj : Object \cup {NoObject},     \* policy
        orig : Status \cup {NoObject},    \* oldStatus
        current : BOOLEAN,   \* is obj's resourceVersion the stored one
        failed : BOOLEAN]    \* an error was returned: requeue

Idle == [pc |-> "idle", name |-> NoName, obj |-> NoObject, orig |-> NoObject,
         current |-> FALSE, failed |-> FALSE]

NewStatus == [keyID |-> NoID, bucketID |-> NoID, key |-> "Unknown",
              bucket |-> "Unknown", assigned |-> "Unknown",
              og |-> 0, seen |-> 0]

Init ==
  /\ KubeInit
  /\ keyCR = [k \in KeyNames |-> Absent]
  /\ bucketCR = [b \in BucketNames |-> Absent]
  /\ liveKeys = {} /\ nextKey = 1 /\ grants = {}
  /\ changes = MaxChanges /\ faults = MaxFaults
  /\ job = Idle

-----------------------------------------------------------------------------
(* Helpers.                                                                 *)

Fault == faults > 0 /\ faults' = faults - 1
NoFault == UNCHANGED faults

At(p) == job.pc = p
Goto(p) == job' = [job EXCEPT !.pc = p]

\* Mutant: RequeueAfter and errors are dropped.
ReturnOnce(again) == job' = Idle /\ UNCHANGED queue

\* Reconcile is over; an error or a RequeueAfter puts the name back.
Return(again) ==
  /\ job' = Idle
  /\ queue' = IF again THEN queue \cup {job.name} ELSE queue

Ready(st) == st.key = "True" /\ st.bucket = "True" /\ st.assigned = "True"

\* updateAccessPolicyCondition.
UpdateAccessPolicyCondition(o) ==
  [o.status EXCEPT !.og = IF Ready(o.status) THEN o.gen ELSE @,
                   !.seen = o.gen]

\* Mutant: nothing is denied, permissions are only added.
DenyNothing(perms) == {}

\* The permissions SetPermissions denies before it allows perms.
Complement(perms) == Perms \ perms

\* The permissions key k has on bucket b.
Granted(k, b) == {g.perm : g \in {h \in grants : h.key = k /\ h.bucket = b}}

\* denyBucketKey and allowBucketKey, when Garage applies them.
Without(k, b, perms) ==
  {g \in grants : ~(g.key = k /\ g.bucket = b /\ g.perm \in perms)}
With(k, b, perms) ==
  grants \cup [key : {k}, bucket : {b}, perm : perms]

\* Garage knows the pair; it answers 404 otherwise.
Known(k, b) == k \in liveKeys /\ b \in BucketIDs

\* A call of denyBucketKey for the IDs in the worker's status: Garage applies
\* it and ok follows, answers 404 and notFound follows, or the call fails
\* before or after it is applied and err follows.
Deny(perms, ok, notFound, err) ==
  LET k == job.obj.status.keyID
      b == job.obj.status.bucketID
  IN \/ Known(k, b) /\ grants' = Without(k, b, perms) /\ NoFault /\ ok
     \/ ~Known(k, b) /\ UNCHANGED grants /\ NoFault /\ notFound
     \/ /\ Fault /\ err
        /\ UNCHANGED grants \/ (Known(k, b) /\ grants' = Without(k, b, perms))

\* The end of SetPermissions for the spec: markPolicyAssignmentReady.
Assigned ==
  job' = [job EXCEPT !.pc = "PatchStatus", !.obj.status.assigned = "True"]

\* Mutant: the condition gets the reason as its status.
AssignmentFailedNoStatus ==
  job' = [job EXCEPT !.pc = "PatchStatus", !.failed = TRUE,
                     !.obj.status.assigned = "PolicyAssignmentFailed"]

\* The other end: markPolicyConditionNotReady, and the error is returned.
AssignmentFailed ==
  job' = [job EXCEPT !.pc = "PatchStatus", !.failed = TRUE,
                     !.obj.status.assigned = "False"]

\* Mutant: the API server does not compare resourceVersions.
NoLock == stored(job.name) # NoObject

\* Does the worker's version of the object have the stored resourceVersion?
OptimisticLock == job.current

-----------------------------------------------------------------------------
(* The worker: Reconcile, call by call.                                     *)

Dequeue(n) ==
  /\ At("idle") /\ n \in queue
  /\ queue' = queue \ {n}
  /\ job' = [Idle EXCEPT !.pc = "Get", !.name = n]
  /\ UNCHANGED <<log, deps, garage, changes, faults>>

\* r.client.Get from the cache, then ensureLabels and the finalizer branches.
Get ==
  /\ At("Get")
  /\ LET o == cached(job.name)
         read == [job EXCEPT !.obj = o, !.orig = o.status,
                             !.current = fresh(job.name)]
     IN \/ /\ o = NoObject
           /\ Return(FALSE)
        \/ /\ o # NoObject /\ o.deleting /\ ~o.finalizer
           /\ Return(FALSE)
        \/ /\ o # NoObject /\ o.deleting /\ o.finalizer
           /\ job' = [read EXCEPT !.pc =
                        IF o.status.keyID # NoID /\ o.status.bucketID # NoID
                        THEN "Revoke" ELSE "RemoveFinalizer"]
           /\ UNCHANGED queue
        \/ /\ o # NoObject /\ ~o.deleting
           /\ job' = [read EXCEPT !.pc = IF o.labelled /\ o.finalizer
                                         THEN "CheckBucket" ELSE "UpdateMeta"]
           /\ UNCHANGED queue
  /\ UNCHANGED <<log, deps, garage, changes, faults>>

\* The finalizer revokes everything the recorded key has on the recorded
\* bucket; a missing key or bucket is fine.
Revoke ==
  /\ At("Revoke")
  /\ Deny(Perms,
          Goto("RemoveFinalizer") /\ UNCHANGED queue,
          Goto("RemoveFinalizer") /\ UNCHANGED queue,
          Return(TRUE))
  /\ UNCHANGED <<log, deps, liveKeys, nextKey, changes>>

\* Update with the resourceVersion of the worker's copy; the API server
\* removes a deleting object with its last finalizer.
RemoveFinalizer ==
  /\ At("RemoveFinalizer")
  /\ \/ /\ OptimisticLock
        /\ Store(job.name, NoObject) /\ Return(FALSE) /\ NoFault
     \/ /\ ~OptimisticLock
        /\ Return(TRUE) /\ NoFault /\ UNCHANGED log
     \/ /\ Fault /\ Return(TRUE)
        /\ UNCHANGED log \/ (OptimisticLock /\ Store(job.name, NoObject))
  /\ UNCHANGED <<deps, garage, changes>>

\* Labels or finalizer were missing: Update, and leave the rest to the next
\* reconcile.  A conflict ends Reconcile without error.
UpdateMeta ==
  /\ At("UpdateMeta")
  /\ LET n == job.name
         updated == [job.obj EXCEPT !.labelled = TRUE, !.finalizer = TRUE]
     IN \/ /\ OptimisticLock
           /\ Store(n, updated) /\ Return(FALSE) /\ NoFault
        \/ /\ ~OptimisticLock
           /\ Return(stored(n) = NoObject) /\ NoFault /\ UNCHANGED log
        \/ /\ Fault /\ Return(TRUE)
           /\ UNCHANGED log \/ (OptimisticLock /\ Store(n, updated))
  /\ UNCHANGED <<deps, garage, changes>>

\* checkBucket: the recorded ID follows the Bucket's, and is looked at only
\* when the Bucket is gone.
CheckBucket ==
  /\ At("CheckBucket")
  /\ LET b == bucketCR[BucketOf[job.name]]
     IN \/ /\ ~b.exists
           /\ job' = [job EXCEPT !.failed = TRUE,
                        !.obj.status.bucket = "False",
                        !.pc = IF job.obj.status.bucketID # NoID
                               THEN "RevokeBucket" ELSE "CheckAccessKey"]
        \/ /\ b.exists
           /\ job' = [job EXCEPT !.pc = "CheckAccessKey",
                        !.failed = ~b.ready,
                        !.obj.status.bucketID = b.id,
                        !.obj.status.bucket = IF b.ready THEN "True"
                                                         ELSE "False"]
  /\ UNCHANGED <<log, queue, deps, garage, changes, faults>>

\* The Bucket is gone: revoke, whatever comes of it, and forget the ID.
RevokeBucket ==
  /\ At("RevokeBucket")
  /\ LET next == job' = [job EXCEPT !.pc = "CheckAccessKey",
                                    !.obj.status.bucketID = NoID]
     IN Deny(Perms, next, next, next)
  /\ UNCHANGED <<log, queue, deps, liveKeys, nextKey, changes>>

\* checkAccessKey, and the end of reconcilePolicy if a dependency is missing.
CheckAccessKey ==
  /\ At("CheckAccessKey")
  /\ LET k == keyCR[KeyOf[job.name]]
     IN \/ /\ ~k.exists
           /\ job' = [job EXCEPT !.failed = TRUE,
                        !.obj.status.key = "False",
                        !.pc = IF job.obj.status.keyID # NoID
                               THEN "RevokeKey" ELSE "PatchStatus"]
        \/ /\ k.exists
           /\ job' = [job EXCEPT
                        !.pc = IF job.failed \/ ~k.ready THEN "PatchStatus"
                                                         ELSE "Deny",
                        !.failed = job.failed \/ ~k.ready,
                        !.obj.status.keyID = k.id,
                        !.obj.status.key = IF k.ready THEN "True"
                                                      ELSE "False"]
  /\ UNCHANGED <<log, queue, deps, garage, changes, faults>>

\* The AccessKey is gone: revoke, whatever comes of it, and forget the ID.
RevokeKey ==
  /\ At("RevokeKey")
  /\ LET next == job' = [job EXCEPT !.pc = "PatchStatus",
                                    !.obj.status.keyID = NoID]
     IN Deny(Perms, next, next, next)
  /\ UNCHANGED <<log, queue, deps, liveKeys, nextKey, changes>>

\* SetPermissions with the spec's permissions: first deny the others ...
DenyOthers ==
  /\ At("Deny")
  /\ Deny(Complement(job.obj.perms),
          IF job.obj.perms = {} THEN Assigned ELSE Goto("Allow"),
          AssignmentFailed, AssignmentFailed)
  /\ UNCHANGED <<log, queue, deps, liveKeys, nextKey, changes>>

\* ... then allow them; allowBucketKey maps no status code.
Allow ==
  /\ At("Allow")
  /\ LET k == job.obj.status.keyID
         b == job.obj.status.bucketID
         allowed == With(k, b, job.obj.perms)
     IN \/ Known(k, b) /\ grants' = allowed /\ Assigned /\ NoFault
        \/ ~Known(k, b) /\ UNCHANGED grants /\ AssignmentFailed /\ NoFault
        \/ /\ Fault /\ AssignmentFailed
           /\ UNCHANGED grants \/ (Known(k, b) /\ grants' = allowed)
  /\ UNCHANGED <<log, queue, deps, liveKeys, nextKey, changes>>

\* updateAccessPolicyCondition, then Status().Patch if anything changed.  The
\* patch is the whole object, so its resourceVersion must be the stored one.
\* A conflict ends Reconcile without error or delay.
PatchStatus ==
  /\ At("PatchStatus")
  /\ LET n == job.name
         status == UpdateAccessPolicyCondition(job.obj)
         patched == [stored(n) EXCEPT !.status = status]
     IN \/ /\ status = job.orig
           /\ Return(job.failed) /\ NoFault /\ UNCHANGED log
        \/ /\ status # job.orig /\ OptimisticLock
           /\ Store(n, patched) /\ Return(job.failed) /\ NoFault
        \/ /\ status # job.orig /\ ~OptimisticLock
           /\ Return(stored(n) = NoObject) /\ NoFault /\ UNCHANGED log
        \/ /\ status # job.orig /\ Fault /\ Return(TRUE)
           /\ UNCHANGED log \/ (OptimisticLock /\ Store(n, patched))
  /\ UNCHANGED <<deps, garage, changes>>

\* Every step of the worker on the request it has.
Step ==
  \/ Get \/ Revoke \/ RemoveFinalizer \/ UpdateMeta
  \/ CheckBucket \/ RevokeBucket \/ CheckAccessKey \/ RevokeKey
  \/ DenyOthers \/ Allow \/ PatchStatus

-----------------------------------------------------------------------------
(* The rest of the world.                                                   *)

Change == changes > 0 /\ changes' = changes - 1

\* Someone else writes policy n: the worker's copy of it is stale.
UserWrites(n, v) ==
  /\ Store(n, v)
  /\ job' = [job EXCEPT !.current = @ /\ n # job.name]
  /\ UNCHANGED <<queue, deps, garage, faults>>

UserCreates(n, perms) ==
  /\ stored(n) = NoObject /\ UNCHANGED changes
  /\ UserWrites(n, [gen |-> 1, perms |-> perms, labelled |-> FALSE,
                    finalizer |-> FALSE, deleting |-> FALSE,
                    status |-> NewStatus])

\* The API server counts a change of the spec as a new generation.
UserEdits(n, perms) ==
  /\ "edit" \in Changes
  /\ stored(n) # NoObject /\ perms # stored(n).perms /\ Change
  /\ UserWrites(n, [stored(n) EXCEPT !.perms = perms, !.gen = @ + 1])

UserUnlabels(n) ==
  /\ "unlabel" \in Changes
  /\ stored(n) # NoObject /\ stored(n).labelled /\ Change
  /\ UserWrites(n, [stored(n) EXCEPT !.labelled = FALSE])

\* Deletion waits for the finalizer if there is one, and is a new generation.
UserDeletes(n) ==
  /\ "deletePolicy" \in Changes
  /\ stored(n) # NoObject /\ ~stored(n).deleting /\ Change
  /\ UserWrites(n, IF stored(n).finalizer
                   THEN [stored(n) EXCEPT !.deleting = TRUE, !.gen = @ + 1]
                   ELSE NoObject)

\* Mutant: dependencies are not watched.
Unwatched(ref, x) == {}

\* findPoliciesForAccessKey and findPoliciesForBucket: the policies whose
\* cached labels name the object.
LabelledFor(ref, x) ==
  {n \in Names : ref[n] = x /\ cached(n) # NoObject /\ cached(n).labelled}

\* A watch event of AccessKey k: the cache holds v, the policies are queued.
KeyEvent(k, v) ==
  /\ keyCR' = [keyCR EXCEPT ![k] = v]
  /\ queue' = queue \cup LabelledFor(KeyOf, k)
  /\ UNCHANGED <<log, bucketCR, faults, job>>

BucketEvent(b, v) ==
  /\ bucketCR' = [bucketCR EXCEPT ![b] = v]
  /\ queue' = queue \cup LabelledFor(BucketOf, b)
  /\ UNCHANGED <<log, keyCR, garage, faults, job>>

\* The life of an AccessKey as its controller reports it: a new key ID with
\* Ready, Ready lost and found again, and gone only after the key is gone.
KeyAppears(k) ==
  /\ ~keyCR[k].exists
  /\ KeyEvent(k, [Absent EXCEPT !.exists = TRUE])
  /\ UNCHANGED <<garage, changes>>

KeyBecomesReady(k) ==
  /\ keyCR[k].exists /\ ~keyCR[k].ready
  /\ \/ /\ keyCR[k].id = NoID
        /\ KeyEvent(k, [exists |-> TRUE, id |-> nextKey, ready |-> TRUE])
        /\ liveKeys' = liveKeys \cup {nextKey} /\ nextKey' = nextKey + 1
        /\ UNCHANGED grants
     \/ /\ keyCR[k].id # NoID
        /\ KeyEvent(k, [keyCR[k] EXCEPT !.ready = TRUE])
        /\ UNCHANGED garage
  /\ UNCHANGED changes

KeyUnready(k) ==
  /\ "unready" \in Changes /\ keyCR[k].ready /\ Change
  /\ KeyEvent(k, [keyCR[k] EXCEPT !.ready = FALSE])
  /\ UNCHANGED garage

\* A key leaves Garage with its grants, before its AccessKey disappears.
KeyLeavesGarage(k) ==
  /\ "deleteKey" \in Changes /\ keyCR[k].id \in liveKeys
  /\ Change
  /\ liveKeys' = liveKeys \ {keyCR[k].id}
  /\ grants' = {g \in grants : g.key # keyCR[k].id}
  /\ UNCHANGED <<log, queue, deps, nextKey, faults, job>>

KeyDisappears(k) ==
  /\ keyCR[k].exists /\ keyCR[k].id # NoID /\ keyCR[k].id \notin liveKeys
  /\ KeyEvent(k, Absent)
  /\ UNCHANGED <<garage, changes>>

\* The life of a Bucket: it gets a bucket of Garage once, which outlives it
\* and which another Bucket may import.
BucketAppears(b) ==
  /\ ~bucketCR[b].exists /\ UNCHANGED changes
  /\ BucketEvent(b, [Absent EXCEPT !.exists = TRUE])

BucketBecomesReady(b) ==
  /\ bucketCR[b].exists /\ ~bucketCR[b].ready /\ UNCHANGED changes
  /\ \E id \in IF bucketCR[b].id = NoID THEN BucketIDs ELSE {bucketCR[b].id} :
       BucketEvent(b, [exists |-> TRUE, id |-> id, ready |-> TRUE])

BucketUnready(b) ==
  /\ "unready" \in Changes /\ bucketCR[b].ready /\ Change
  /\ BucketEvent(b, [bucketCR[b] EXCEPT !.ready = FALSE])

BucketDisappears(b) ==
  /\ "deleteBucket" \in Changes /\ bucketCR[b].exists /\ Change
  /\ BucketEvent(b, Absent)

Environment ==
  \/ \E n \in Names, perms \in SUBSET Perms :
       UserCreates(n, perms) \/ UserEdits(n, perms)
  \/ \E n \in Names : UserUnlabels(n) \/ UserDeletes(n)
  \/ \E k \in KeyNames :
       \/ KeyAppears(k) \/ KeyBecomesReady(k) \/ KeyUnready(k)
       \/ KeyLeavesGarage(k) \/ KeyDisappears(k)
  \/ \E b \in BucketNames :
       \/ BucketAppears(b) \/ BucketBecomesReady(b) \/ BucketUnready(b)
       \/ BucketDisappears(b)

\* The informer delivers a watch event of policy n.
Informer(n) == Deliver(n) /\ UNCHANGED <<deps, garage, changes, faults, job>>

\* The manager dies and is started again; its calls end with it.
Crash ==
  /\ Fault
  /\ Relist /\ job' = Idle
  /\ UNCHANGED <<deps, garage, changes>>

Next ==
  \/ Step
  \/ \E n \in Names : Dequeue(n) \/ Informer(n)
  \/ Environment \/ Crash

Spec == Init /\ [][Next]_vars

\* The worker and the informer never stop; the work queue is first in first
\* out, so a waiting name is taken even when another one keeps coming back.
Fairness ==
  /\ WF_vars(Step)
  /\ \A n \in Names : WF_vars(Informer(n)) /\ SF_vars(Dequeue(n))

FairSpec == Spec /\ Fairness

-----------------------------------------------------------------------------
(* Properties.                                                              *)

\* Every variable holds a value of its type.
TypeOK ==
  /\ log \in [Names -> Seq(Object \cup {NoObject}) \ {<<>>}]
  /\ queue \subseteq Names
  /\ keyCR \in [KeyNames -> Dependency]
  /\ bucketCR \in [BucketNames -> Dependency]
  /\ liveKeys \subseteq Nat /\ nextKey \in Nat \ {0}
  /\ grants \subseteq [key : Nat, bucket : Nat, perm : Perms]
  /\ changes \in Nat /\ faults \in Nat
  /\ job \in Job

\* SetPermissions denies before it allows: a call either takes permissions
\* away from a pair or leaves it with exactly those of the spec the worker
\* holds.  A pair never has permissions of an old and a new spec at once.
NarrowThenSet ==
  [][Step => \A k \in liveKeys, b \in BucketIDs :
       \/ Granted(k, b)' \subseteq Granted(k, b)
       \/ Granted(k, b)' = job.obj.perms]_vars

\* When a policy with the finalizer disappears, the key its last stored status
\* records has nothing left on the bucket recorded there.
FinalizerRevokes ==
  [][\A n \in Names :
       LET o == stored(n) IN
       (o # NoObject /\ o.finalizer /\ stored(n)' = NoObject) =>
         \A g \in grants' :
           ~(g.key = o.status.keyID /\ g.bucket = o.status.bucketID)]_vars

\* Will the worker look at policy n again without a further change?
Pending(n) == n \in queue \/ job.name = n \/ ~fresh(n)

ClaimsReady(o) ==
  o # NoObject /\ ~o.deleting /\ Ready(o.status) /\ o.status.og = o.gen

\* Ready tells the truth when nothing is pending: AccessKey and Bucket are
\* ready with the recorded IDs, and the key, while it exists, has exactly the
\* permissions of the spec.  No event of a dependency is missed, whatever
\* the labels, the conflicts and the restarts in between.
ReadyIsTrue ==
  \A n \in Names :
    LET o == stored(n)
        k == keyCR[KeyOf[n]]
        b == bucketCR[BucketOf[n]]
    IN ClaimsReady(o) /\ ~Pending(n) =>
         /\ k.ready /\ k.id = o.status.keyID
         /\ b.ready /\ b.id = o.status.bucketID
         /\ k.id \in liveKeys => Granted(k.id, b.id) = o.perms

\* Of a policy that stays with its AccessKey and its Bucket the IDs of every
\* grant are recorded, or it is pending: reconcilePolicy grants first and the
\* patch of the status comes last, and may be lost.
GrantsKnown ==
  \A g \in grants, n \in Names :
    LET o == stored(n) IN
    (/\ o # NoObject /\ ~o.deleting
     /\ keyCR[KeyOf[n]].id = g.key /\ bucketCR[BucketOf[n]].id = g.bucket)
      => \/ o.status.keyID = g.key /\ o.status.bucketID = g.bucket
         \/ Pending(n)

\* The dependencies of n are ready, and its key really exists.
DepsReady(n) ==
  /\ keyCR[KeyOf[n]].ready /\ keyCR[KeyOf[n]].id \in liveKeys
  /\ bucketCR[BucketOf[n]].ready

Applied(n) ==
  LET o == stored(n) IN
  \/ o = NoObject
  \/ /\ ClaimsReady(o)
     /\ Granted(keyCR[KeyOf[n]].id, bucketCR[BucketOf[n]].id) = o.perms

\* A policy whose dependencies stay ready is eventually applied, and a policy
\* whose deletion was requested eventually disappears.
Converges == \A n \in Names : <>[]DepsReady(n) => <>[]Applied(n)
DeletionCompletes ==
  \A n \in Names : <>[](stored(n) = NoObject \/ ~stored(n).deleting)

-----------------------------------------------------------------------------
(* What the repository says and the code does not keep.                     *)

\* "Revokes permissions in Garage when AccessPolicy deleted" (an end-to-end
\* test): every grant in Garage is on the pair some policy with the finalizer
\* records, or that policy is pending.
GrantsRecorded ==
  \A g \in grants : \E n \in Names :
    LET o == stored(n) IN
    /\ o # NoObject /\ o.finalizer
    /\ \/ o.status.keyID = g.key /\ o.status.bucketID = g.bucket
       \/ Pending(n)
=============================================================================
