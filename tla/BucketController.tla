-------------------------- MODULE BucketController --------------------------
(***************************************************************************)
(* The Bucket controller (internal/controller/bucket_controller.go and      *)
(* bucket_conditions.go), the buckets of Garage it creates or imports       *)
(* (BucketClient and GetPermissions of internal/garage/client.go) and the   *)
(* ConfigMaps it writes.                                                    *)
(*                                                                         *)
(* One action per remote call of Reconcile.  A Bucket has no finalizer, so  *)
(* its deletion leaves the bucket in Garage.                                *)
(*                                                                         *)
(* Abstractions: one namespace; UIDs and bucket IDs are numbers handed out  *)
(* in order; a bucket has one alias, a number: the name of an existing      *)
(* bucket, or the name suffixed with the UID's hash; the two quotas are one *)
(* number; spec.configMapName is the effective name; a ConfigMap's data is  *)
(* the alias in it, and its label is implied by its owner; of the Secret    *)
(* with the owner key only matters whether GetPermissions, asked with it,   *)
(* would report ownership; condition reasons and messages are left out, and *)
(* an access that RBAC forbids is a failing call.                           *)
(***************************************************************************)
EXTENDS KubeAPI, Integers

CONSTANTS ConfigMapNames,  \* names a ConfigMap can have
          Quotas,       \* values of spec.maxSize and spec.maxObjects
          Changes,      \* what users and others may do
          MaxUID,       \* bound on the Buckets ever created
          MaxGen,       \* bound on a Bucket's generation
          MaxChanges,   \* bound on the changes of others
          MaxFaults     \* bound on failing calls and crashes

NoID     == 0           \* an unset bucket ID
NoName   == ""          \* an unset object name
Foreign  == 0           \* owner of a ConfigMap no Bucket controls
NoAlias  == 0           \* an unset alias
Imported == 1           \* alias of the bucket that exists in Garage already
SuffixedResourceName(uid) == uid + 1

ASSUME ConstantsAssumption ==
  /\ Quotas \subseteq Int
  /\ MaxUID \in Nat /\ MaxGen \in Nat /\ MaxChanges \in Nat /\ MaxFaults \in Nat

Status == [id : Nat,        \* BucketID
           alias : Nat,     \* BucketName
           bucket : {"Unknown", "True", "False"},          \* BucketReady
           cm : {"Unknown", "True", "Failed", "Conflict"}, \* BucketConfigMapReady
           og : Nat,        \* ObservedGeneration
           seen : Nat]      \* ObservedGeneration of the Ready condition

Object == [uid : Nat, gen : Nat, existing : BOOLEAN, quota : Quotas,
           cm : ConfigMapNames, status : Status]

NoConfigMap == [exists |-> FALSE, owner |-> Foreign, alias |-> NoAlias]
ConfigMap   == [exists : BOOLEAN, owner : Nat, alias : Nat]
GarageBucket == [id : Nat, alias : Nat, quota : Nat]

ASSUME NoObjectAssumption == NoObject \notin Object

VARIABLES
  buckets, nextID,  \* Garage: its buckets, and the ID of the next one
  owns,             \* does the owner key secret prove ownership
  cms,              \* the ConfigMaps of the namespace
  nextUID,          \* UID of the next Bucket
  changes, faults,  \* what is left of MaxChanges and MaxFaults
  job               \* the worker, see Job

garage == <<buckets, nextID, owns>>
env    == <<nextUID, changes>>
vars   == <<log, queue, garage, cms, env, faults, job>>

\* The worker: the call it makes next and the variables of Reconcile.
Job == [pc : {"idle", "Get", "GetBucket", "CreateBucket", "GetOwnerSecret",
              "GetExisting", "GetPermissions", "UpdateBucket",
              "GetConfigMap", "WriteConfigMap", "ListConfigMaps",
              "DeleteConfigMaps", "PatchStatus"},
        name : Names \cup {NoName},        \* req
        obj : Object \cup {NoObject},      \* bucket
        orig : Status \cup {NoObject},     \* orig
        current : BOOLEAN,     \* is obj's resourceVersion the stored one
        found : GarageBucket \cup {NoObject},  \* s3Bucket
        read : ConfigMap,      \* CreateOrUpdate's copy of the ConfigMap
        readCurrent : BOOLEAN, \* is its resourceVersion the stored one
        stale : SUBSET ConfigMapNames,  \* what is left of configMaps.Items
        again : BOOLEAN]       \* an error or a RequeueAfter

Idle == [pc |-> "idle", name |-> NoName, obj |-> NoObject, orig |-> NoObject,
         current |-> FALSE, found |-> NoObject, read |-> NoConfigMap,
         readCurrent |-> FALSE, stale |-> {}, again |-> FALSE]

NewStatus == [id |-> NoID, alias |-> NoAlias, bucket |-> "Unknown",
              cm |-> "Unknown", og |-> 0, seen |-> 0]

\* Garage holds one bucket that no Bucket created.
Init ==
  /\ KubeInit
  /\ buckets = {[id |-> 1, alias |-> Imported, quota |-> 0]} /\ nextID = 2
  /\ owns \in BOOLEAN
  /\ cms = [c \in ConfigMapNames |-> NoConfigMap]
  /\ nextUID = 1 /\ changes = MaxChanges /\ faults = MaxFaults
  /\ job = Idle

-----------------------------------------------------------------------------
(* Helpers.                                                                 *)

Fault == faults > 0 /\ faults' = faults - 1
NoFault == UNCHANGED faults

At(p) == job.pc = p
Goto(p) == job' = [job EXCEPT !.pc = p]

\* Mutant: RequeueAfter and errors are dropped.
ReturnOnce(again) == job' = Idle /\ UNCHANGED queue

\* Reconcile is over; an error or a RequeueAfter puts the name back.
Return(again) ==
  /\ job' = Idle
  /\ queue' = IF again THEN queue \cup {job.name} ELSE queue

Ready(st) == st.bucket = "True" /\ st.cm = "True"

\* updateBucketReadyCondition.
UpdateBucketReadyCondition(o) ==
  [o.status EXCEPT !.og = IF Ready(o.status) THEN o.gen ELSE @,
                   !.seen = o.gen]

\* quotasFromS3 and quotasToS3: only a positive quota is sent to Garage, and
\* the absence of one reads as zero.
Normal(quota) == IF quota > 0 THEN quota ELSE 0

\* Mutant: a spec without a quota is taken as "keep the quota there is".
CompareSpecIfSet(b, o) == o.quota > 0 /\ b.quota # o.quota

\* compareSpec.
CompareSpec(b, o) == b.quota # o.quota

\* markBucketNotReady, and the end of reconcileBucket.
BucketNotReady ==
  job' = [job EXCEPT !.pc = "PatchStatus", !.again = TRUE,
                     !.obj.status.bucket = "False"]

\* Mutant: the ID and the alias follow the bucket that was found.
ResolvedAnew(b) ==
  LET o == [job.obj EXCEPT !.status.id = b.id, !.status.alias = b.alias]
  IN job' = IF CompareSpec(b, o)
            THEN [job EXCEPT !.pc = "UpdateBucket", !.obj = o, !.found = b]
            ELSE [job EXCEPT !.pc = "GetConfigMap",
                             !.obj = [o EXCEPT !.status.bucket = "True"]]

\* reconcileBucket resolved bucket b: record its ID and alias unless one is
\* recorded, then bring the quotas to the spec or go on.
Resolved(b) ==
  LET o == [job.obj EXCEPT
              !.status.id = IF @ = NoID THEN b.id ELSE @,
              !.status.alias = IF @ = NoAlias THEN b.alias ELSE @]
  IN job' = IF CompareSpec(b, o)
            THEN [job EXCEPT !.pc = "UpdateBucket", !.obj = o, !.found = b]
            ELSE [job EXCEPT !.pc = "GetConfigMap",
                             !.obj = [o EXCEPT !.status.bucket = "True"]]

\* Mutant: the condition gets the reason of a conflict as its status.
ConfigMapNotReadyNoCase(reason) ==
  job' = [job EXCEPT !.pc = "PatchStatus", !.again = (reason # "Conflict"),
                     !.obj.status.cm = "ConfigMapNameConflict"]

\* updateBucketCMCondition(False); a name conflict is not an error.
ConfigMapNotReady(reason) ==
  job' = [job EXCEPT !.pc = "PatchStatus", !.again = (reason # "Conflict"),
                     !.obj.status.cm = reason]

\* Mutant: the ConfigMap of the old name is forgotten.
ConfigMapReadyOnly ==
  job' = [job EXCEPT !.pc = "PatchStatus", !.obj.status.cm = "True"]

\* updateBucketCMCondition(True), then deleteStaleConfigMap.
ConfigMapReady ==
  job' = [job EXCEPT !.pc = "ListConfigMaps", !.obj.status.cm = "True"]

\* Mutant: any owner will do.
Controlled(cm, o) == cm.exists

\* metav1.IsControlledBy(cm, bucket).
ControlledBy(cm, o) == cm.owner = o.uid

OptimisticLock == job.current

BucketWithAlias(alias) == {b \in buckets : b.alias = alias}

-----------------------------------------------------------------------------
(* The worker: Reconcile, call by call.                                     *)

Dequeue(n) ==
  /\ At("idle") /\ n \in queue
  /\ queue' = queue \ {n}
  /\ job' = [Idle EXCEPT !.pc = "Get", !.name = n]
  /\ UNCHANGED <<log, garage, cms, env, faults>>

\* r.client.Get from the cache.
Get ==
  /\ At("Get")
  /\ LET o == cached(job.name)
     IN \/ /\ o = NoObject
           /\ Return(FALSE)
        \/ /\ o # NoObject
           /\ job' = [job EXCEPT !.obj = o, !.orig = o.status,
                        !.current = fresh(job.name),
                        !.pc = IF o.existing THEN "GetOwnerSecret"
                                             ELSE "GetBucket"]
           /\ UNCHANGED queue
  /\ UNCHANGED <<log, garage, cms, env, faults>>

\* resolveNewBucket: the bucket with the alias of this UID, if there is one ...
GetBucket ==
  /\ At("GetBucket")
  /\ LET alias == SuffixedResourceName(job.obj.uid)
     IN \/ \E b \in BucketWithAlias(alias) : Resolved(b) /\ NoFault
        \/ BucketWithAlias(alias) = {} /\ Goto("CreateBucket") /\ NoFault
        \/ BucketNotReady /\ Fault
  /\ UNCHANGED <<log, queue, garage, cms, env>>

\* ... or a new one.
CreateBucket ==
  /\ At("CreateBucket")
  /\ LET b == [id |-> nextID, quota |-> 0,
               alias |-> SuffixedResourceName(job.obj.uid)]
         created == buckets' = buckets \cup {b} /\ nextID' = nextID + 1
     IN \/ created /\ Resolved(b) /\ NoFault
        \/ /\ BucketNotReady /\ Fault
           /\ created \/ UNCHANGED <<buckets, nextID>>
  /\ UNCHANGED <<log, queue, owns, cms, env>>

\* resolveExistingBucket: read the Secret with the owner key, then the bucket,
\* then the key's permissions on it.  Every failure is retried later.
GetOwnerSecret ==
  /\ At("GetOwnerSecret")
  /\ \/ Goto("GetExisting") /\ NoFault
     \/ BucketNotReady /\ Fault
  /\ UNCHANGED <<log, queue, garage, cms, env>>

GetExisting ==
  /\ At("GetExisting")
  /\ \/ \E b \in BucketWithAlias(Imported) :
          /\ job' = [job EXCEPT !.pc = "GetPermissions", !.found = b]
          /\ NoFault
     \/ BucketWithAlias(Imported) = {} /\ BucketNotReady /\ NoFault
     \/ BucketNotReady /\ Fault
  /\ UNCHANGED <<log, queue, garage, cms, env>>

GetPermissions ==
  /\ At("GetPermissions")
  /\ \/ owns /\ Resolved(job.found) /\ NoFault
     \/ ~owns /\ BucketNotReady /\ NoFault
     \/ BucketNotReady /\ Fault
  /\ UNCHANGED <<log, queue, garage, cms, env>>

\* The quotas of the bucket that was resolved, whichever is recorded.
UpdateBucket ==
  /\ At("UpdateBucket")
  /\ LET exists == \E b \in buckets : b.id = job.found.id
         updated == {IF b.id = job.found.id
                     THEN [b EXCEPT !.quota = Normal(job.obj.quota)] ELSE b
                       : b \in buckets}
     IN \/ /\ exists /\ buckets' = updated
           /\ job' = [job EXCEPT !.pc = "GetConfigMap", !.found = NoObject,
                                 !.obj.status.bucket = "True"]
           /\ NoFault
        \/ ~exists /\ UNCHANGED buckets /\ BucketNotReady /\ NoFault
        \/ buckets' \in {buckets, updated} /\ BucketNotReady /\ Fault
  /\ UNCHANGED <<log, queue, nextID, owns, cms, env>>

\* ensureConfigMap: CreateOrUpdate reads the ConfigMap and checks who controls
\* it ...
GetConfigMap ==
  /\ At("GetConfigMap")
  /\ LET cm == cms[job.obj.cm]
     IN \/ /\ cm.exists /\ ~ControlledBy(cm, job.obj)
           /\ ConfigMapNotReady("Conflict") /\ NoFault
        \/ /\ cm.exists /\ ControlledBy(cm, job.obj)
           /\ cm.alias = job.obj.status.alias
           /\ ConfigMapReady /\ NoFault
        \/ /\ ~cm.exists \/ (/\ ControlledBy(cm, job.obj)
                             /\ cm.alias # job.obj.status.alias)
           /\ job' = [job EXCEPT !.pc = "WriteConfigMap", !.read = cm,
                                 !.readCurrent = TRUE]
           /\ NoFault
        \/ ConfigMapNotReady("Failed") /\ Fault
  /\ UNCHANGED <<log, queue, garage, cms, env>>

\* ... and creates it, or updates the version it has read.
WriteConfigMap ==
  /\ At("WriteConfigMap")
  /\ LET accepted == IF job.read.exists THEN job.readCurrent
                                        ELSE ~cms[job.obj.cm].exists
         written == [cms EXCEPT ![job.obj.cm] =
                       [exists |-> TRUE, owner |-> job.obj.uid,
                        alias |-> job.obj.status.alias]]
     IN \/ accepted /\ cms' = written /\ ConfigMapReady /\ NoFault
        \/ /\ ~accepted /\ UNCHANGED cms
           /\ ConfigMapNotReady("Failed") /\ NoFault
        \/ /\ cms' = cms \/ (accepted /\ cms' = written)
           /\ ConfigMapNotReady("Failed") /\ Fault
  /\ UNCHANGED <<log, queue, garage, env>>

\* deleteStaleConfigMap lists the Bucket's ConfigMaps of other names ...
ListConfigMaps ==
  /\ At("ListConfigMaps")
  /\ LET stale == {c \in ConfigMapNames \ {job.obj.cm} :
                     cms[c].exists /\ ControlledBy(cms[c], job.obj)}
     IN \/ /\ job' = [job EXCEPT
                        !.stale = stale, !.read = NoConfigMap,
                        !.pc = IF stale = {} THEN "PatchStatus"
                                             ELSE "DeleteConfigMaps"]
           /\ NoFault
        \/ job' = [job EXCEPT !.pc = "PatchStatus", !.again = TRUE] /\ Fault
  /\ UNCHANGED <<log, queue, garage, cms, env>>

\* ... and deletes them by name, one by one; a missing one is fine.
DeleteConfigMaps ==
  /\ At("DeleteConfigMaps")
  /\ \E c \in job.stale :
       LET left == job.stale \ {c}
           deleted == [cms EXCEPT ![c] = NoConfigMap]
       IN \/ /\ cms' = deleted
             /\ job' = [job EXCEPT !.stale = left,
                          !.pc = IF left = {} THEN "PatchStatus" ELSE @]
             /\ NoFault
          \/ /\ cms' \in {cms, deleted}
             /\ job' = [job EXCEPT !.stale = {}, !.again = TRUE,
                                   !.pc = "PatchStatus"]
             /\ Fault
  /\ UNCHANGED <<log, queue, garage, env>>

\* updateBucketReadyCondition, then Status().Patch if anything changed.  The
\* patch carries the resourceVersion of the worker's copy; a conflict ends
\* Reconcile without error or delay, whatever reconcileBucket returned.
PatchStatus ==
  /\ At("PatchStatus")
  /\ LET n == job.name
         status == UpdateBucketReadyCondition(job.obj)
         patched == [stored(n) EXCEPT !.status = status]
     IN \/ /\ status = job.orig
           /\ Return(job.again) /\ NoFault /\ UNCHANGED log
        \/ /\ status # job.orig /\ OptimisticLock
           /\ Store(n, patched) /\ Return(job.again) /\ NoFault
        \/ /\ status # job.orig /\ ~OptimisticLock
           /\ Return(stored(n) = NoObject) /\ NoFault /\ UNCHANGED log
        \/ /\ status # job.orig /\ Fault /\ Return(TRUE)
           /\ UNCHANGED log \/ (OptimisticLock /\ Store(n, patched))
  /\ UNCHANGED <<garage, cms, env>>

\* Every step of the worker on the request it has.
Step ==
  \/ Get \/ GetBucket \/ CreateBucket
  \/ GetOwnerSecret \/ GetExisting \/ GetPermissions \/ UpdateBucket
  \/ GetConfigMap \/ WriteConfigMap \/ ListConfigMaps \/ DeleteConfigMaps
  \/ PatchStatus

-----------------------------------------------------------------------------
(* The rest of the world.                                                   *)

\* Someone else writes Bucket n: the worker's copy of it is stale.
UserWrites(n, v) ==
  /\ Store(n, v)
  /\ job' = [job EXCEPT !.current = @ /\ n # job.name]
  /\ UNCHANGED <<queue, garage, cms, faults>>

UserCreates(n, existing, quota, cm) ==
  /\ stored(n) = NoObject /\ nextUID <= MaxUID
  /\ existing => "import" \in Changes
  /\ UserWrites(n, [uid |-> nextUID, gen |-> 1, existing |-> existing,
                    quota |-> quota, cm |-> cm, status |-> NewStatus])
  /\ nextUID' = nextUID + 1 /\ UNCHANGED changes

\* The CRD's rules let a Bucket move from spec.name to spec.existingBucket and
\* back ("switch").
UserEdits(n, existing, quota, cm) ==
  LET o == stored(n) IN
  /\ o # NoObject /\ o.gen < MaxGen
  /\ <<existing, quota, cm>> # <<o.existing, o.quota, o.cm>>
  /\ existing # o.existing => "switch" \in Changes
  /\ UserWrites(n, [o EXCEPT !.gen = @ + 1, !.existing = existing,
                             !.quota = quota, !.cm = cm])
  /\ UNCHANGED env

\* There is no finalizer to wait for.
UserDeletes(n) ==
  /\ stored(n) # NoObject
  /\ UserWrites(n, NoObject) /\ UNCHANGED env

\* Someone else writes ConfigMap c: CreateOrUpdate's copy of it is stale.
ConfigMapChanged(c, v) ==
  /\ cms' = [cms EXCEPT ![c] = v]
  /\ job' = [job EXCEPT !.readCurrent = @ /\ c # job.obj.cm]
  /\ UNCHANGED <<log, queue, nextUID, faults>>

\* Kubernetes deletes a ConfigMap whose controlling Bucket is gone.
CollectGarbage(c) ==
  /\ cms[c].exists /\ cms[c].owner # Foreign
  /\ \A n \in Names :
       stored(n) # NoObject => stored(n).uid # cms[c].owner
  /\ ConfigMapChanged(c, NoConfigMap)
  /\ UNCHANGED <<garage, changes>>

\* Others change what the controller relies on: a ConfigMap of their own, a
\* deleted ConfigMap, a bucket deleted in Garage.
Tamper ==
  /\ changes > 0 /\ changes' = changes - 1
  /\ \/ /\ "foreignConfigMap" \in Changes
        /\ \E c \in ConfigMapNames :
             ~cms[c].exists /\ ConfigMapChanged(c, [NoConfigMap EXCEPT !.exists = TRUE])
        /\ UNCHANGED garage
     \/ /\ "deleteConfigMap" \in Changes
        /\ \E c \in ConfigMapNames :
             cms[c].exists /\ ConfigMapChanged(c, NoConfigMap)
        /\ UNCHANGED garage
     \/ /\ "deleteBucket" \in Changes
        /\ \E b \in buckets : buckets' = buckets \ {b}
        /\ UNCHANGED <<log, queue, nextID, owns, cms, nextUID, faults, job>>

\* The owner key secret appears, or the key gains or loses the permission.
OwnershipChanges ==
  /\ "import" \in Changes
  /\ owns' = ~owns
  /\ UNCHANGED <<log, queue, buckets, nextID, cms, env, faults, job>>

\* The informer delivers a watch event.
Informer(n) == Deliver(n) /\ UNCHANGED <<garage, cms, env, faults, job>>

\* The manager dies and is started again; its calls end with it.
Crash ==
  /\ Fault
  /\ Relist /\ job' = Idle
  /\ UNCHANGED <<garage, cms, env>>

User ==
  \E n \in Names :
    \/ \E existing \in BOOLEAN, quota \in Quotas, cm \in ConfigMapNames :
         UserCreates(n, existing, quota, cm) \/ UserEdits(n, existing, quota, cm)
    \/ UserDeletes(n)

Next ==
  \/ Step
  \/ \E n \in Names : Dequeue(n) \/ Informer(n)
  \/ User \/ Tamper \/ OwnershipChanges \/ Crash
  \/ \E c \in ConfigMapNames : CollectGarbage(c)

Spec == Init /\ [][Next]_vars

\* The worker and the informer never stop; the work queue is first in first
\* out, so a waiting name is taken even when another one keeps coming back.
Fairness ==
  /\ WF_vars(Step)
  /\ \A n \in Names : WF_vars(Informer(n)) /\ SF_vars(Dequeue(n))

FairSpec == Spec /\ Fairness

-----------------------------------------------------------------------------
(* Properties.                                                              *)

\* Every variable holds a value of its type.
TypeOK ==
  /\ log \in [Names -> Seq(Object \cup {NoObject}) \ {<<>>}]
  /\ queue \subseteq Names
  /\ buckets \subseteq GarageBucket /\ nextID \in Nat \ {0}
  /\ owns \in BOOLEAN
  /\ cms \in [ConfigMapNames -> ConfigMap]
  /\ nextUID \in Nat \ {0} /\ changes \in Nat /\ faults \in Nat
  /\ job \in Job

\* The alias of the bucket that the spec of o asks for.
SpecAlias(o) == IF o.existing THEN Imported ELSE SuffixedResourceName(o.uid)

\* An object whose status says Ready for the generation it has.
ClaimsReady(o) == o # NoObject /\ Ready(o.status) /\ o.status.og = o.gen

\* Ready tells the truth: the recorded bucket is the one the spec asks for, it
\* has the spec's quotas, and the ConfigMap the spec names is the Bucket's own
\* and publishes it - although the worker may have read any older version and
\* Create, Update and the status patch may each have lost its answer.
ReadyIsTrue ==
  \A n \in Names :
    LET o == stored(n) IN
    ClaimsReady(o) =>
      /\ [id |-> o.status.id, alias |-> SpecAlias(o),
          quota |-> Normal(o.quota)] \in buckets
      /\ cms[o.cm] = [exists |-> TRUE, owner |-> o.uid, alias |-> SpecAlias(o)]

\* Is the worker done with n until something changes?
Rests(n) == job.name # n /\ fresh(n) /\ n \notin queue

\* deleteStaleConfigMap leaves nothing behind: a Bucket that is Ready and at
\* rest controls no ConfigMap but the one its spec names, however often the
\* name was edited meanwhile.
NoStaleConfigMap ==
  \A n \in Names, c \in ConfigMapNames :
    LET o == stored(n) IN
    (ClaimsReady(o) /\ Rests(n) /\ cms[c].exists /\ cms[c].owner = o.uid)
      => c = o.cm

\* ensureConfigMap never takes over a ConfigMap the Bucket does not control,
\* whoever creates, deletes or collects one between its read and its write.
NoTakeover ==
  [][Step => \A c \in ConfigMapNames :
       cms[c].exists /\ cms'[c].exists /\ cms'[c] # cms[c]
         => cms[c].owner = job.obj.uid]_vars

\* Once a Bucket's ID is recorded it stays for the life of the object, even if
\* the bucket is deleted and created again in Garage: reconcileBucket only
\* fills an empty ID, and a worker that has read an older version cannot patch.
IDKept ==
  [][\A n \in Names :
       LET o == stored(n) IN
       (/\ o # NoObject /\ o.status.id # NoID
        /\ stored(n)' # NoObject /\ stored(n)'.uid = o.uid)
       => stored(n)'.status.id = o.status.id]_vars

\* Every Bucket comes to rest: deleted, or Ready or in a ConfigMap name
\* conflict for its last generation - an imported one once the owner key
\* stays in place.
Settled(o) ==
  \/ o = NoObject
  \/ ClaimsReady(o)
  \/ o.status.seen = o.gen /\ o.status.cm = "Conflict"

Settles == <>[]owns => \A n \in Names : <>[]Settled(stored(n))
=============================================================================
