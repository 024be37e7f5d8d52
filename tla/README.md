# Verification of the Garage storage controller

This directory models the controllers of this repository in TLA+, checks them
with TLC and proves the safety of each of the three, of the backoff, of the heartbeat and of two
controllers together with TLAPS.

* `*.tla`: the models, the instances (`*MC`) and the proofs (`*Proofs`)
* `*.cfg`: one TLC configuration per run, `tlc -config ap_core.cfg AccessPolicyMC.tla`
* `PROJECT.json`: components, runs, mutants of the code, the map from definitions
  to source lines, hazards, findings and theorems

## The system

The program is a Kubernetes operator. It lets users of a namespace own buckets
and keys of a Garage S3 cluster through three resources, and reconciles each
with a controller of its own:

| part | source | state | operations |
|---|---|---|---|
| AccessKey controller | `internal/controller/accesskey_*.go` | the AccessKey's finalizer and status (key ID, name of the delivered Secret, conditions, ObservedGeneration); a Secret; a key in Garage | `Reconcile`: add finalizer, ensure key (get / look up / create), ensure Secret, delete the old Secret, write status; on deletion delete the key and remove the finalizer |
| AccessPolicy controller | `internal/controller/accesspolicy_*.go` | the policy's labels, finalizer and status (key ID, bucket ID, conditions); a pair's permissions in Garage | `Reconcile`: labels and finalizer, check Bucket, check AccessKey, revoke for what is gone, set permissions, patch status; on deletion revoke; two mapping functions from events of AccessKeys and Buckets to policies |
| Bucket controller | `internal/controller/bucket_*.go` | the Bucket's status (bucket ID and name, conditions); a ConfigMap; a bucket in Garage with its quotas | `Reconcile`: get or create the bucket, or verify ownership of an existing one; update quotas; write the ConfigMap and delete stale ones; patch status. No finalizer |
| requeue backoff | `internal/controller/backoff.go` | none | the delay before a Bucket that cannot be imported is tried again |
| Garage client | `internal/garage/client.go` | none | one HTTP request per method, two for `SetPermissions`; maps status codes to errors |
| manager | `cmd/main.go` | informer cache, work queues | wires the above; reads Secrets and ConfigMaps live, all else from the cache |
| heartbeat | `internal/health/heartbeat.go`, `internal/garage/metrics.go` | the last result, the gauge, the log | `Run`: a probe with a timeout, then one per tick, until the signal |
| preflight | `internal/health/preflight.go` | none | one call before anything starts; logs what comes of it |
| metrics | `internal/garage/metrics.go` | the gauge, counters of requests | set by heartbeat and client; the program never reads them |

The controllers never call each other. They meet in shared state: the AccessKey and
Bucket controllers write the status a policy's controller reads through the
cache and is woken up by; all of them and the heartbeat call Garage; users, the garbage collector
and other programs write the same Kubernetes objects at any time.

### What is hard about it

* **A lagging cache.** `Reconcile` acts on the version the informer has
  delivered. The stored object may have been edited, deleted, even created
  again under the same name since.
* **Many remote calls in a row**, none atomic with the next. Each may fail, or
  take effect and lose its answer; the process may end between any two.
  What was done must be found again (by ID, by name, by owner) and never twice.
* **The status is written last**, so what Garage has and what the status
  records differ in between, and a conflict on that write is swallowed on purpose:
  the other writer's event has to bring the object back.
* **Check, then act.** Secrets and ConfigMaps are checked by one request and
  written or deleted by another.
* **Deletion** must undo exactly what was done, also when it overtakes a
  reconcile whose status write was lost.
* **Two workers over one cache.** A policy reads an AccessKey at whatever stage
  the other controller has left it, and an AccessKey created again under its name
  has another key.
* **Waiting with a limit.** The heartbeat waits for ticks, answers, its timeout
  and the signal at once.

The hazards this exposes the code to are listed, line by line, in
`PROJECT.json`, each with the properties that watch it.

### What makes each part correct

* AccessKey: at most one key per AccessKey; no key in Garage without an
  AccessKey that still owes its deletion; `Ready` means the recorded key exists
  and the named Secret holds it; credentials stay available across a rename of the
  Secret and are never another AccessKey's; everything settles.
* AccessPolicy: no grant that no policy records; permissions never a mixture of
  an old and a new spec; `Ready` is true once nothing is pending; deletion revokes;
  it converges to the spec.
* Bucket: `Ready` means the right bucket, the right quotas and a ConfigMap that
  says so; no foreign ConfigMap is taken over; no stale one stays; the recorded ID is stable.
* Backoff: the documented brackets, for every age, without overflow.
* Together: the credentials in the Secret can do on the bucket exactly what the
  Ready policy says, and no permission stays behind when the key changes.
* Heartbeat: the gauge is fresh, log and gauge agree, an outage that lasts
  is reported and so is its end, probes begin and end until the signal, nothing blocks the shutdown.

## The modules

```
KubeAPI                   API server, cache, work queue (external, as the code uses it)
 ├─ KubeProofs            lemmas about the versions of an object, for all three controllers
 ├─ AccessKeyController   accesskey_controller.go, accesskey_conditions.go
 │   ├─ AccessKeyRefinement   maps it to KeyCustody, what it promises about keys
 │   └─ AccessKeyProofs   types, inductive invariant, one key, none left behind, the finalizer
 │       └─ AccessKeySecretProofs     (with AccessKeyRefinement) whose credentials Secrets hold, what
 │                          Ready promises, none forgotten, implements KeyCustody
 ├─ AccessPolicyController   accesspolicy_controller.go, ..., SetPermissions
 │   ├─ AccessPolicyMC    instances
 │   └─ AccessPolicyProofs   narrowing, the finalizer, no lost event, what Ready promises
 └─ BucketController      bucket_controller.go, bucket_conditions.go
     ├─ BucketMC          instances
     └─ BucketProofs      the recorded ID, ConfigMaps, what Ready promises
Manager                   cmd/main.go: AccessKeyController and AccessPolicyController composed
 ├─ ManagerMC             instances
 └─ ManagerProofs         (with AccessKeySecretProofs, AccessPolicyProofs) implements the AccessKey
                          controller alone, no lost event, grants stay with the key, Ready is usable
KeyCustody                abstract: the life of a key
OwnerSecretBackoff        backoff.go
 └─ BackoffProofs         the brackets, the doubling
Heartbeat                 heartbeat.go, preflight.go, SetAPIUp, ClusterClient
 └─ HeartbeatProofs       types, the log agrees with the gauge, the gauge is fresh
```

**KubeAPI.** `log[n]` is the sequence of versions of object `n` from the one
in the cache (`cached(n)`, the first) to the one the API server stores
(`stored(n)`, the last); what lies between are watch events on their way.
`Deliver` advances the cache and puts `n` into the work queue; `Relist` is a
restarted manager, which lists everything before it works. resourceVersions
are not numbered: a copy is *current* while nothing was written to the object since,
and an optimistic write succeeds exactly then. A write that changes nothing
makes no version and no event, as in the API server.

**The three controllers** follow one pattern. `job` is the only worker
(`MaxConcurrentReconciles` is left at 1): its `pc` names the next remote call and its fields
are the local variables of `Reconcile` that are still needed. There is **one action per remote
call**, so everything else can happen between any two calls; the code between
two calls belongs to the action of the call before. A call answers, fails
without effect, or takes effect and loses its answer (`Fault`, bounded by `MaxFaults`).
`Return(err)` ends a reconcile: an error or a `RequeueAfter` puts the name back into
the queue. `Crash` drops the worker. Users create, edit and delete
objects; the garbage collector deletes what lost its owner; `Tamper` and
`Changes` are what others do.

| code | action |
|---|---|
| `Reconcile` to the first remote call | `Dequeue`, `Get` |
| `Patch`/`Update` of finalizers and labels | `AddFinalizer`, `UpdateMeta`, `RemoveFinalizer` |
| `ensureExternalKey` | `GetKey` / `LookupKey`, then `CreateKey` |
| `ensureSecret`, `cleanupOldSecret` | `GetSecret`, `ReadSecret`, `WriteSecret`, `DeleteOldSecret` |
| `updateStatus` | `UpdateStatus` (re-read and write in one step, see the limits below) |
| `resolveExtKeyID`, `Delete` | `LookupForDelete`, `DeleteKey` |
| `checkBucket`, `checkAccessKey` and the revocations after them | `CheckBucket`, `RevokeBucket`, `CheckAccessKey`, `RevokeKey` |
| `SetPermissions` | `DenyOthers`, `Allow`; `Revoke` in the finalizer |
| `findPoliciesForAccessKey`, `findPoliciesForBucket` | `LabelledFor`, used by `KeyEvent`, `BucketEvent` |
| `resolveNewBucket`, `resolveExistingBucket` | `GetBucket`, `CreateBucket`; `GetOwnerSecret`, `GetExisting`, `GetPermissions` |
| quota update | `UpdateBucket` |
| `ensureConfigMap`, `deleteStaleConfigMap` | `GetConfigMap`, `WriteConfigMap`, `ListConfigMaps`, `DeleteConfigMaps` |
| `Status().Patch` | `PatchStatus` |

Names derived from a UID's hash are represented by the UID, so distinct UIDs
have distinct names. Condition messages, reasons the code does not branch on and
transition times are left out: two statuses that differ only in them are one,
so a repeated error writes no status here.

**OwnerSecretBackoff** is the function with the wrap-around of a `Width`-bit
Duration and the sequence of retries it causes.

**KeyCustody** is the abstract specification of the AccessKey controller as far as
Garage is concerned. Its state is three sets: `owners` (AccessKeys taken in charge),
`closing` (those known to go) and `keys`. An owner is registered before it has a
key, has at most one, keeps it until it is closing, and is released only after its
key; `Promise` adds that every owner gets its key unless it is to go, and that one that
is to go leaves. `AccessKeyRefinement` gives the mapping: an owner is an
AccessKey *stored* with the finalizer; it is closing once its deletion is in the
*cache* and the worker is not on its way to ensure its key (`Closing`). The second half of that is
needed because a worker that read the AccessKey before its deletion may still create
the key afterwards; the code allows it, and the deletion branch that follows finds that key.

**Manager** instantiates two controllers over one Garage and one process.
In AccessPolicyController alone an AccessKey is a cached object that changes by itself; here
`KeyView` reads it from the other controller's cache, an event of an AccessKey goes
to both work queues (`KeyInformer`), Garage drops a key's permissions with the key
(`DropGrants`), and `Restart` ends both workers and fills both caches. The faults of both
controllers are the restarts that are left, and a step of a worker keeps them, so no call fails. Calls that
fail, edits and Buckets that go are in the controllers' own modules: here the
Buckets are ready, the policy stays, and the AccessKey is deleted and created again.

**Heartbeat** is the one goroutine beside the controllers. Time is counted in units
of which `Interval` make the ticker's interval and, as in `Run`, the probe's timeout; it
passes only while the goroutine waits. The admin API answers 200, answers anything else,
or is silent, and changes at will. The ticker's channel holds one tick, the select takes
any case that is ready, and the signal may come at any time, also during the preflight.

| code | action |
|---|---|
| `PreflightCheck`, `CurrentTokenInfo` | `Preflight` |
| `probe`, `Health`, `doRequest`, `send` | `Probe`; then `Answer`, `Timeout` or `Abort` |
| `record`, the log line, `lastUp` | `Record`, `SetAPIUp` in those |
| `select` | `TakeTick`, `Return` |
| `SetupSignalHandler`, the end of `main` | `Terminate`, `Exit` |

## What is assumed

* One manager is active. The Helm chart runs it with `--leader-elect` and one replica; the flag
  is off by default in `cmd/main.go`, and without it two overlapping
  replicas are outside these models.
* A request of a process that ended has been applied by the time its successor
  works, or is never applied. Within a process a call ends before the next begins; the HTTP client has
  no timeout, so no call is given up and applied later.
* Reads of the cache answer "found" or "not found". `updateStatus` re-reads the cache and
  writes in one step: an event delivered between the two cannot help the copy already
  read, so the outcome is that of the same step taken before the event, and a write by
  someone else in between refuses it like the same write before the step.
* Finalizers are removed by the controllers only; nobody else writes the status.
* `metadata.generation` grows with an edit of the spec and with the request to delete.
* The informer's periodic resync is left out. It can only add reconciles, but
  the liveness results do not lean on it.
* In the AccessPolicy model an AccessKey or Bucket is what its cached object shows
  (exists, ID, ready), and it changes as its controller reports it: a key
  leaves Garage before its AccessKey disappears, a Bucket's bucket outlives it.

Fairness (`FairSpec`), used by the liveness properties only: the worker goes on
with the request it has and the informer delivers (`WF`), as goroutines of a running process
do. A queued name is dequeued under *strong* fairness: the work queue
is first in, first out, so a name that waits is taken although the queue is
busy with another that keeps coming back; weak fairness would not say so, because a
busy worker disables `Dequeue`. Nothing is assumed of users, of faults or of the garbage collector, except
in `ak_never_ready`: there the collector deletes what has lost its owner in the end (`CollectedSpec`).
In `Manager` each controller has a worker of its own, so each worker's steps are weakly fair by
themselves, and so is each informer.
In `Heartbeat` the goroutine is scheduled (`WF`) and time passes under *strong* fairness:
however often the API changes between two units of time, the ticker goes on. The end of the
process (`Exit`) is not assumed: `StopsOnCancel` holds by the loop's own return.

`CHECK_DEADLOCK FALSE` everywhere: users' changes, faults and ages are
bounded, and when they are used up a settled reconciler has nothing to do.

## What the runs check

Bounds: `MaxUID`, `MaxGen` (AccessKeys or Buckets created, edits), `MaxFaults` (failing
calls and crashes together), `MaxTamper`, `MaxChanges` (acts of others).

| run | instance | shows | states |
|---|---|---|---|
| `ak_core` | one name used twice, two Secret names, two edits or deletion, one fault | `KeyUnique`, `KeyAccounted`, `ReadyUsable`, `KeepsCredentials`, `Settles`, `CustodyKept` and `CustodyPromise` (the refinement of KeyCustody) | 0.4 M |
| `ak_tampered` | one edit, one fault, and one key, Secret or foreign Secret deleted or created by others | `SecretsHoldOwnersKey`, `NothingForgotten`, `FinalizerHonoured` | 1.9 M |
| `ap_core` | one policy; each kind of change once (edit, unlabel, delete, dependency unready or gone); one fault; two buckets in Garage | `ReadyIsTrue`, `GrantsKnown`, `NarrowThenSet`, `FinalizerRevokes`, `Converges`, `DeletionCompletes` | 0.3 M |
| `bucket_core` | one Bucket, new or imported, negative and positive quota, one edit, one foreign ConfigMap, one fault | `ReadyIsTrue`, `NoStaleConfigMap`, `Settles` | 0.9 M |
| `bucket_tampered` | as before, with a move between `name` and `existingBucket` and one change by others | `NoTakeover`, `IDKept` | 1.4 M |
| `backoff` | 16-bit durations, bases 3, 5, 7, every age | `InBracket`, `Doubles` | 0.1 M |
| `manager` | one AccessKey name used twice, one policy for it, one restart | `ReadyMeansUsable`, `GrantsFollowKey`, `BecomesUsable`, `Withdraws` | 0.7 M |
| `heartbeat` | an interval of three units, any sequence of API changes, the signal at any time | `FreshGauge`, `LogAgrees`, `Reported`, `KeepsProbing`, `StopsOnCancel` | 1 k |

Why these bounds reach the interesting cases: one object name is enough because
a controller handles one name at a time and the names share only Garage and the
Secrets; reusing the name (`MaxUID = 2`) gives two AccessKeys that meet in
the cache, in the Secret and in Garage. One fault can lose the answer of any call or
restart the process between any two; the retry that follows meets a state
only that fault can produce. Two edits are needed for a status write computed from
an older spec. In `manager` the second life of the name gives the AccessKey a second key
while the policy still records the first, and the restart may fall between any two calls of either
controller. An interval of three units lets a probe end before, with and after the next tick,
and the state space of the heartbeat is complete: nothing in it is bounded but the age that is
counted up to one more than `FreshGauge` allows. 16 bits are the fewest for which the largest ages are
far beyond the limit of 900 s.

Every property has a mutant of the code in `PROJECT.json` (an error swallowed, a
generation not compared, a precondition of an Update dropped, ...), kept next to the definition it
changes, that makes TLC find it violated.

### Where the code does not do what the repository says

Four runs end in a counterexample. Each checks a statement quoted in `PROJECT.json`.

* `ak_never_ready`: a name conflict counts as observed
  (`accesskey_conditions.go:128`), on purpose for one that lasts. Delete and re-create an AccessKey
  before the garbage collector has removed the first one's Secret, and the second's is never created. The run
  assumes that the collector comes (`CollectedSpec`) and asks for the Secret only where its name ends up free
  (`SecretCreated`), so the collector is not to blame: a controller that left the
  generation unobserved and returned the conflict as an error would keep it.
* `ak_lost_secret`: `spec.secretName` is edited after its Secret was written and before
  the status is. That status write conflicts and is dropped, nothing records the name, and the
  Secret keeps valid credentials until the AccessKey is deleted (`accesskey_controller.go:214`).
* `ap_orphaned_grant`: a policy deleted between the grant and the status patch
  leaves the grant in Garage; the finalizer only knows recorded IDs.
* `bucket_switch`: a Bucket moved from `name` to `existingBucket` is Ready with the ID
  and name of its old bucket.

Further limits of the code, met while choosing the instances and therefore left out of
the passing runs; each shows when the instance named is changed as said:

* `ap_core` with `GrantsRecorded` and `deleteBucket`: a Bucket deleted and re-created before the policy is
  looked at again has its recorded ID overwritten (`accesspolicy_controller.go:323`), and
  the old grant stays; and when the call that revokes for a missing Bucket fails, its error is
  ignored and the ID forgotten all the same (258).
* `ap_core` with two policies: two for one pair overwrite each other, and both say Ready;
  `bucket_core` with two Buckets and two quotas: so do two that import one bucket.
* `ak_tampered` with `KeyAccounted`: if a key is deleted in Garage by someone else while the
  cache lags, another is created which the status does not record; the deletion then trusts the recorded
  ID (`resolveExtKeyID`, 239) and leaves the other behind. Two keys of one AccessKey can result too;
  `Lookup` then fails for good and deletion is blocked. `KeyUnique` and `KeyAccounted` are stated and
  proved without such deletions, and `Settles` is checked without them.
* A Secret created between the ownership check and `CreateOrUpdate`'s own read is
  overwritten (`accesskey_controller.go:321`), and one that took the recorded name is deleted by
  `cleanupOldSecret` (228), which asks no owner. With two AccessKeys that one may be
  the other's, which stays Ready.
* A stale ConfigMap is deleted by name after a list (`bucket_controller.go:291`); a foreign one
  that took the name in between is deleted too.
* The heartbeat records every result, also that of a probe the signal has cut off: on
  shutdown the gauge falls to 0 and the log calls a reachable API unreachable (`heartbeat.go:62`).

## What is proved

For every value of the constants: any number of names, Secrets, ConfigMaps, AccessKeys,
policies, Buckets, edits, failing calls, crashes and acts of others. The proofs use the
assumptions stated in the models:

* `AccessKeyController`: the bounds are numbers, `""` is no Secret name;
* `AccessPolicyController`: a policy names an AccessKey and a Bucket, bucket IDs are not the unset one, the
  bounds are numbers;
* `BucketController`: quotas are integers, the bounds are numbers;
* `Manager`: what the two controllers in it assume (`ConstantsAssumption`);
* in all four, the absent object is not an object (`NoObjectAssumption`);
* `Heartbeat`: the interval is a number and not 0;
* `OwnerSecretBackoff`: the base and the limit are durations that are not 0 (`BackoffAssumption`); what
  `2^n` is (`PowersOfTwo`), because the provers take `^` for an unknown function; a bracket that begins within the
  ages that exist has a delay that fits (`LastBracketFits`).

A hypothesis beyond these is part of the theorem, because the code does not keep the promise without it; each
comes back below.

| theorem | says | needs |
|---|---|---|
| **`AccessKeyProofs`** | | |
| `TypesAlwaysOK` | `TypeOK` | |
| `Invariant` | the inductive invariant `Inv` | others delete no key in Garage (`"deleteKey" \notin Tampering`) |
| `OneKeyPerAccessKey` | `KeyUnique` | the same |
| `EveryKeyAccountedFor` | `KeyAccounted` | the same |
| `FinalizerDeletesKey` | `FinalizerHonoured` | |
| **`AccessKeySecretProofs`** | | |
| `OwnInvariant`, `OwnCredentialsOnly` | `SecretsHoldOwnersKey` | |
| `ReadyTellsTheTruth` | `ReadyUsable` | `Tampering = {}`, always `NoSharedSecret` |
| `CredentialsKept` | `KeepsCredentials` | the same |
| `ReadyOfOneName` | both | `Tampering = {}`, one name for AccessKeys |
| `RestInvariant`, `NoneForgotten` | `NothingForgotten` | |
| `DeletingAlwaysHeld` | a version that is being deleted has the finalizer | |
| `ImplementsCustody` | `CustodyKept`: every step is one of KeyCustody's or leaves it alone | others delete no key in Garage |
| **`AccessPolicyProofs`** | | |
| `TypesAlwaysOK` | `TypeOK` | |
| `DeniesBeforeItAllows` | `NarrowThenSet` | |
| `DeletionRevokes` | `FinalizerRevokes` | |
| `EventInvariant` | no change of what a policy relies on goes unnoticed | |
| `GrantsRecordedOrPending` | `GrantsKnown` | |
| `ReadyTellsTheTruth` | `ReadyIsTrue` | always `NoSharedPair` |
| `ReadyOfOwnKeys` | `ReadyIsTrue` | no two policies for one AccessKey |
| **`BucketProofs`** | | |
| `TypesAlwaysOK` | `TypeOK` | |
| `RecordedIDStays` | `IDKept` | |
| `NothingTakenOver` | `NoTakeover` | |
| `NothingStale` | `NoStaleConfigMap` | |
| `ReadyTellsTheTruth` | `ReadyIsTrue` | `Calm`, always `NoSharedBucket` |
| `ReadyOfOwnBuckets` | `ReadyIsTrue` | `Calm`, nothing is imported |
| **`ManagerProofs`** | | no call fails, policies are not edited, Buckets are ready, as in the model |
| `ImplementsAccessKeys` | every behaviour of the manager is one of AccessKeyController | |
| `PoliciesMissNothing` | no change of an AccessKey goes unnoticed | |
| `GrantsStayWithTheKey` | `GrantsFollowKey` | |
| `ReadyWorks` | `ReadyMeansUsable` | always `NoSharedSecret` and `NoSharedPair` |
| `ReadyWorksAlone` | `ReadyMeansUsable` | one name for AccessKeys, one for policies |
| **`BackoffProofs`** | | |
| `AlwaysInBracket` | `InBracket` | |
| `DelayDoubles` | `Doubles` | |
| **`HeartbeatProofs`** | | |
| `TypesAlwaysOK`, `LogAlwaysAgrees`, `GaugeAlwaysFresh` | `TypeOK`, `LogAgrees`, `FreshGauge` | |

The three controllers share `KubeProofs`: what appending a version, delivering one and a
restart do to `log`, `stored`, `cached` and `fresh`, stated for versions of any type.
TLC finds each inductive invariant to hold on the instances of the runs too, and on some with two names. A proof that a step keeps an invariant has one lemma per action or group of similar ones.

### AccessKeys

*Types.* `TypeOK` is not inductive, because a worker past `Get` must hold an object and
a name: `TypeInv` adds `Working`.

*One key, none left behind.* Why can a worker that acts on an old version not
create a second key? The argument, and with it the parts of `Inv`:

1. A key is created only after a search by name found none, or after a `Get` of the recorded
   ID found none. In the first case there is no key with that UID (`Ensuring` at `CreateKey`).
2. In the second case a *recorded* key is gone. Only the deletion branch deletes keys, and it is
   only entered once the *cache* shows the deletion (`GoneIfDeleting`). From then on every
   version of that AccessKey in the log is a deleting one (`Lifetimes`), so no worker
   ensures a key for it again (`Ensuring`, `Deleting`); `GetKey` therefore finds its key.
3. A version that has the finalizer and is not being deleted is still stored, with the finalizer
   (`Held`): only `RemoveFinalizer` takes an object with one away, and it needs a current deleting copy.
   So a key is never created for an AccessKey that is gone, however stale the copy.
4. The recorded ID is the AccessKey's own key and no other's (`Recorded`, `IDsApart`,
   `UIDsApart`, `Owning`), so the deletion branch deletes the right key, by ID or by name
   (`Deleting` at `DeleteKey`), and none is left at `RemoveFinalizer`.

*The finalizer.* `FinalizerInv`: on the deletion path a current copy *is* the stored version
(`CopyStored`), and before the finalizer is removed no key with the ID in that copy is left
(`DeletesRecorded`). The removal needs a current copy, so the last stored status is the one
the worker decided on.

*The refinement.* Each step of the controller, of its users and of a restart is mapped to a
step of KeyCustody, one lemma per group of actions (`AddFinalizerRefines`: Register;
`CreateRefines`: Create; `GetRefines`, `UpdateStatusRefines`: Close or nothing; `DeleteKeyRefines`: Delete;
`RemoveFinalizerRefines`: Release; `WorldRefines`: Close, when an event or a restart shows several
deletions at once). `Inv` says why Create finds an owner without a key that is not closing, and why at
Release the key is gone. `DeletingHeld` (a part of `RestInv`, below): without the finalizer the API server would have
removed the AccessKey at once, so an AccessKey whose deletion is in the cache is an owner.

*Whose credentials.* `OwnInv`: an ID was created for one UID, and every copy of it, in a version, with the
worker or in a Secret, goes with that UID (`VersionsOwn`, `SecretsOwn`). The danger is a name used
again: the status of one AccessKey must not be written to its successor. It cannot be, because an AccessKey
is still stored, with its finalizer, while the worker ensures it (`EnsuresStored`, from `Held`), and the
ownership check still excludes other AccessKeys when the Secret is written (`ChecksOwner`). No
assumption on others is needed: they never make an AccessKey the owner of a Secret.

*What Ready promises.* `ReadyInv` strengthens `ReadyUsable` to every version between cache and API server
(`ReportsTrue`) and to what the worker holds (`Following`, `Delivering`). Two facts carry it. A status
is written only when the cache is up to date, so behind a version with a delivered Secret the cache already shows the
same AccessKey with its finalizer, and behind one that is Ready the same generation (`Pinned`): a worker
that starts later knows at least that spec. And when a Secret is written, no version is Ready, or
the one that is asks for the same name (`Following`). The old Secret is deleted only after the new one holds
the key (`DeleteOldSecret` in `Delivering`). `Tampering = {}` is needed, since others who delete the key or
the Secret make any report false until the next reconcile. `NoSharedSecret` is needed because
`cleanupOldSecret` (`accesskey_controller.go:220`) asks no owner: while the worker is about to delete the old Secret, no other
AccessKey may have taken its name. `ReadyOfOneName` shows that with one name, `NoSharedSecret` follows
(`RecordedOwn`: a recorded Secret is nobody else's), as in the run `ak_core`.

*None forgotten.* `Reconcile` has many ends without an error or a requeue: the object is gone, is
deleted without a finalizer, its status needs no write, or the write met a conflict. `NothingForgotten` says that
each of them leaves the AccessKey settled or has an event still to come. It is the safety behind `Settles`: what
is not settled is in the worker's hands, queued, or on its way. `RestInv` has three more parts. `Observing`:
the versions count generations up, and a status that observes its generation records a key and a Secret that is written
or in conflict. `Concluding`: the worker's copy is never ahead of the stored generation, and says what its next call
presumes, so that `updateAccessKeyCondition` observes the generation exactly when nothing failed. `InStep`: when nothing
is queued or on its way, the copy the worker decides on has the spec and status that are stored, so a status that
needs no write is the stored one; and an optimistic write that succeeds makes an event. No assumption on others is
needed, because what they do to keys and Secrets is not part of what a status must have observed.

### AccessPolicies

*Permissions.* `Narrowed`: when `SetPermissions` comes to its second call, the pair has nothing left that the
worker's spec does not want, since keys and buckets get permissions from this worker only. With two policies for
one pair each call still narrows the pair or leaves it with exactly the worker's set.

*Deletion.* A removal of the finalizer needs a current copy, a current copy is the stored policy with the status
that was read (`CopyStored`, `Untouched`), and nothing is left on the pair recorded there (`Revoked`).

*No lost event.* `EventInv` is the reason the two watches suffice. A policy that is at rest, with
nothing queued and nothing on its way, agrees in its status with what the cache shows of
its AccessKey and Bucket (`Settled`), and has its labels *in the cache*, so the next event of either finds
it. While the worker is past a check, what it found there still holds or the policy is queued again
(`BucketSeen`, `KeySeen`), and a copy that is behind will be read again (`Behind`). This is where a conflict that
`Status().Patch` does not notice and a label written too late would bite.

*Ready.* `OwnInv`: a key ID, once handed out, is shown by one AccessKey only and recorded by policies for it
only. `ExactInv`: a Ready status names a pair with exactly the permissions of its spec
(`JobExact`, `SettledExact`). `NoSharedPair` is needed because a policy is told nothing of the
permissions another one sets on the same pair; where every policy has an AccessKey of its own it is a fact (`ReadyOfOwnKeys`).

### Buckets

*The recorded ID and ConfigMaps.* The status is patched with optimistic locking, so what is written goes to the version that was read
(`CopyStored`), whose ID the worker only fills when there is none (`FillsID`). A ConfigMap is written
only if the copy read was the Bucket's own or absent and is still current (`ReadOwn`).

*No stale ConfigMap.* A UID is one Bucket's (`UIDsApart`), so only its own worker makes ConfigMaps for it. `StaleInv`: what
the Bucket controls beside the ConfigMap of its spec is in the list to delete; when that is through and
Ready is patched, nothing is left; and a patch that was computed from an older spec is
refused (`Behind`).

*Ready.* `ReadyInv`: neither IDs nor aliases are shared (`BucketsApart`), what a version records is nothing or
the bucket its spec asks for (`Identifies`), an older version of a generation has the same spec (`Follows`), the worker
has reached what the calls before promise (`Progress`), the ConfigMaps it is about to delete are not the one it
publishes (`StaleApart`), and so every Ready version tells the truth (`Truth`), at rest or not. `Calm` leaves out three kinds of
change: a bucket or ConfigMap that others delete, and a move between `name` and `existingBucket` (the
finding of `bucket_switch`). `NoSharedBucket` leaves out two Buckets that import at once, which may
overwrite each other's quotas; where nothing is imported it is not needed (`ReadyOfOwnBuckets`).

### Two controllers together

*Each is the controller alone.* In the manager the AccessKey controller takes its own steps while those of the
policies leave its state alone (`ImplementsAccessKeys`). `Inv` of AccessKeyProofs, whose hypothesis is true without
tampering, holds in the manager with no new proof. For the policies `KeyView` takes the place
of an AccessKey that changes by itself. The lemmas of AccessPolicyProofs hold for the policies' own steps. What an
event of the real AccessKey does to a policy (`ViewMoves`, `KeySidePolicies`), and a restart, where all
caches and queues change at once (`RestartPolicies`), is proved here: `PoliciesMissNothing`.

*Grants stay with the key.* A policy acts on an AccessKey as the cache shows it, so the key in its hands may
be one that is being deleted, or that of an AccessKey which has been created again since. Why is no grant left on
a key that is no longer the AccessKey's?

1. An AccessKey *holds* an ID when the cached version and every version on its way show it and
   the live key with that ID is its own (`KeyHolds`). While the key of an ID that a policy reads in the cache is
   alive, the policy's AccessKey holds that ID (`KeyIsHeld`): an ID is one AccessKey's (`Recorded` of `Inv`), and
   a recorded ID is never taken out of a status again (`IDStays`, which needs `HasKey`: without a
   failed call the worker has the key before it writes a status).
2. An AccessKey that holds an ID goes on holding it until the key is deleted (`KeyHoldsStays`), because the
   AccessKey leaves after its key. Then Garage drops the permissions too, and IDs are not used
   again (`KeysNumbered`).
3. So the live key that a policy or its worker has recorded (`RecordsHeld`), and every key with permissions
   (`GrantsHeld`), is held by a policy's AccessKey, and policies stay (`PoliciesStay`).
4. A policy that rests agrees with the cached AccessKey by `Settled` of `EventInv`, so it records exactly the ID
   that is held (`HeldFollow`).

*Ready means usable.* Each half is a promise of one controller. `ReadyWorks` joins them when neither has work left:

1. What the AccessKey's controller promises carries over by `ImplementsAccessKeys`. The cached AccessKey is then the
   stored one, and `NothingForgotten` says that a stored one that is Ready observes its last
   generation and is not being deleted. So `ReadyUsable` applies: its key is alive and its Secret holds it.
2. What Ready promises of a policy needs `ExactInv` once more, without `OwnInv`: that one says that no two AccessKeys show
   the same ID, which the environment of AccessPolicyController keeps by its shape. Here it is
   `RecordsHeld` that keeps policies apart. Two policies that recorded one live key are for the AccessKey that holds
   it (`HeldByOne`), and with `NoSharedPair` not for one bucket (`PoliciesApart`), so the worker does not touch the pair
   of a policy that rests. An AccessKey that gets or loses a key leaves the permissions of
   the other keys alone (`KeySideGrants`, `KeySideExact`), and after a restart no policy rests before it was read (`RestartExact`).
3. The policy's ID is the cached AccessKey's by `Settled` of `EventInv`, that key is alive by 1, and so its permissions
   are exactly the policy's by 2 (`ReadyAtRest`).

`NoSharedSecret` and `NoSharedPair` are the hypotheses of the two halves, for the reasons given there; with one AccessKey
at a time and one policy, as in the run `manager`, both are facts (`ReadyWorksAlone`).

### The heartbeat

`LogAgrees` and `FreshGauge` are not inductive. `LineTracks` ties the log and the gauge to `lastUp`, from
the assumed success before the first result on: a line is written exactly when the result changes, so
"unreachable" is the last one iff the last result was a failure. `AgeBound` says how old the gauge can be,
by what the goroutine does: a tick still to come and the gauge's age together never exceed the interval, and
neither do the age and what is left of a call's context exceed two of them. A tick that was sent waits in the
channel, where time no longer passes; a probe that takes as long as the ticker therefore finds its tick.

### The backoff

`Bracket(n, age, base)` says that the age lies between the beginning of bracket `n` and that of the next.
`DelayOfBracket` shows that the code takes the delay of such a bracket: the quotient of age and base is at least
`2^n - 1` and less than `2^(n+1) - 1`, so `bits.Len` of one more is `n + 1`, and neither that sum nor the
shift wraps around. There is one such bracket, so the reference finds it too (`ReferenceOfBracket`). A delay
that was waited for in full ends in the next bracket, a shorter one (the limit) in no earlier one
(`NextBracket`), which is `Doubles`.

That powers of two grow and that `bits.Len` finds what it looks for needs induction. The library's induction
takes a predicate, which the provers cannot instantiate; here it is over a set: what is missing in it would have a least
member (`LeastNatural`, from the library's well-founded order on the naturals), and that member's
predecessor is in it (`Induction`).

`LastBracketFits` came from the proof. A base that is a power of two, such as 4 s in 16 bits, begins its last bracket
within the last base before the largest age; the shift would wrap around to a negative delay there, and the
retries would end. The 5 s of the controller are `5 * 10^9` ns: the last bracket that 63 bits reach is 30, its delay
`5.4 * 10^18` ns is below `9.2 * 10^18`, and the next would begin beyond every age. TLC checks both assumptions for the
constants of `backoff`.

### Only model-checked

Liveness, and `CustodyPromise` with it: outside the prover's reach, like everything about `ENABLED`.

Every invariant and every action property that a passing run checks is stated by a theorem.

## What is not modelled

HTTP, JSON and paths of the client beyond which error a status code becomes; events, log
lines of the controllers and condition messages; flags, TLS, environment and leader election; RBAC (an
access that is forbidden is a failing call); the request counter and the histogram, which nothing
reads; the Bucket controller beside the other two in one model (the Bucket a policy reads is
ready or changes by itself, and an imported Bucket's owner key is one fact that changes); the Helm
chart, manifests and test helpers; generated code.

## Plan

Done: the three controllers, the backoff, the heartbeat with the preflight, two controllers
composed, KeyCustody with the refinement checked and proved, the findings, and every safety property
that a run checks proved.

Next, in this order:

1. *Weaker hypotheses.* `NoSharedSecret` is assumed of a whole behaviour; that it follows from the users' specs
   alone, when no two AccessKeys ever name the same Secret, is to be stated and shown.
2. *Abstract specifications* of a grant (a register that only narrows or takes the spec's value) and of a
   Bucket's ID, with refinements like that of KeyCustody.
3. *Composition.* The Bucket controller as the third of `Manager`: the Secret an AccessKey delivers
   proves the ownership an imported Bucket waits for.
