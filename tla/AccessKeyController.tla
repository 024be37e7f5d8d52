------------------------ MODULE AccessKeyController ------------------------
(***************************************************************************)
(* The AccessKey controller (internal/controller/accesskey_controller.go    *)
(* and accesskey_conditions.go) with the part of Garage's admin API it      *)
(* calls (internal/garage/client.go) and the Secrets it writes.             *)
(*                                                                         *)
(* One action per remote call of Reconcile, so that users, the informer,    *)
(* the garbage collector and crashes act between any two calls; the code    *)
(* between two calls belongs to the action of the call before it.  A call   *)
(* may fail without effect, or take effect and lose its answer (Fault).     *)
(*                                                                         *)
(* Abstractions: one namespace; UIDs and Garage key IDs are numbers handed  *)
(* out in order; a Garage key carries the UID its name is derived from      *)
(* (namespacedResourceName hashes it) instead of the name; a Secret's data  *)
(* is the ID of the key whose credentials it holds; condition messages are  *)
(* left out, so an error that repeats writes no new status.                 *)
(***************************************************************************)
EXTENDS KubeAPI

CONSTANTS SecretNames,  \* names a Secret can have
          Tampering,    \* what others than the controller may do, see Tamper
          MaxUID,       \* bound on the AccessKeys ever created
          MaxGen,       \* bound on an AccessKey's generation
          MaxFaults,    \* bound on failing calls and crashes
          MaxTamper     \* bound on the actions of Tampering

NoName  == ""           \* an unset name
NoID    == 0            \* an unset key ID
Foreign == 0            \* owner of a Secret no AccessKey controls

ASSUME ConstantsAssumption ==
  /\ NoName \notin SecretNames
  /\ MaxUID \in Nat /\ MaxGen \in Nat /\ MaxFaults \in Nat /\ MaxTamper \in Nat

Status == [id : Nat,                                          \* AccessKeyID
           secretName : SecretNames \cup {NoName},
           key : {"Unknown", "True", "False"},                \* AccessKeyReady
           secret : {"Unknown", "True", "Failed", "Conflict"}, \* KeySecretReady
           og : Nat,        \* ObservedGeneration
           seen : Nat]      \* ObservedGeneration of the Ready condition

Object == [uid : Nat, gen : Nat, secretName : SecretNames,
           deleting : BOOLEAN, finalizer : BOOLEAN, status : Status]

NoSecret == [exists |-> FALSE, owner |-> Foreign, id |-> NoID]
Secret   == [exists : BOOLEAN, owner : Nat, id : Nat]
Key      == [id : Nat, uid : Nat]

ASSUME NoObjectAssumption == NoObject \notin Object

VARIABLES
  keys, nextKey,    \* Garage: its keys, and the ID of the next one
  secrets,          \* the Secrets of the namespace
  nextUID,          \* UID of the next AccessKey
  faults, tampers,  \* what is left of MaxFaults and MaxTamper
  job               \* the worker, see Job

garage == <<keys, nextKey>>
env    == <<nextUID, faults, tampers>>
vars   == <<log, queue, garage, secrets, env, job>>

\* The worker: the call it makes next and the variables of Reconcile.
Job == [pc : {"idle", "Get", "AddFinalizer", "GetKey", "LookupKey",
              "CreateKey", "GetSecret", "ReadSecret", "WriteSecret",
              "DeleteOldSecret", "UpdateStatus", "LookupForDelete",
              "DeleteKey", "RemoveFinalizer"},
        name : Names \cup {NoName},        \* req
        obj : Object \cup {NoObject},      \* accessKey
        orig : Status \cup {NoObject},     \* orig
        current : BOOLEAN,     \* is obj's resourceVersion the stored one
        ext : Nat,             \* id, in the deletion branch
        sec : Secret,          \* CreateOrUpdate's copy of the Secret
        secCurrent : BOOLEAN,  \* is sec's resourceVersion the stored one
        failed : BOOLEAN]      \* err # nil

Idle == [pc |-> "idle", name |-> NoName, obj |-> NoObject, orig |-> NoObject,
         current |-> FALSE, ext |-> NoID, sec |-> NoSecret,
         secCurrent |-> FALSE, failed |-> FALSE]

NewStatus == [id |-> NoID, secretName |-> NoName, key |-> "Unknown",
              secret |-> "Unknown", og |-> 0, seen |-> 0]

Init ==
  /\ KubeInit
  /\ keys = {} /\ nextKey = 1
  /\ secrets = [s \in SecretNames |-> NoSecret]
  /\ nextUID = 1 /\ faults = MaxFaults /\ tampers = MaxTamper
  /\ job = Idle

-----------------------------------------------------------------------------
(* Helpers.                                                                 *)

\* One failure of the budget.
Fault == faults > 0 /\ faults' = faults - 1
NoFault == UNCHANGED faults

At(p) == job.pc = p
Goto(p) == job' = [job EXCEPT !.pc = p]

\* Mutant: errors are logged and swallowed.
ReturnNil(err) == job' = Idle /\ UNCHANGED queue

\* Reconcile returns nil or an error: the worker is free again, and an error
\* puts the name back into the queue (its rate limit is a delay).
Return(err) ==
  /\ job' = Idle
  /\ queue' = IF err THEN queue \cup {job.name} ELSE queue

\* Status of the Ready condition, a function of the other two.
Ready(st) == st.key = "True" /\ st.secret = "True"

\* updateAccessKeyCondition.
UpdateAccessKeyCondition(o) ==
  [o.status EXCEPT
     !.og = IF Ready(o.status)
               \/ (o.status.key # "False" /\ o.status.secret = "Conflict")
            THEN o.gen ELSE @,
     !.seen = o.gen]

\* Mutant: the generation is not compared.
UpToDateOnce(o) == o.status.key = "True" /\ o.status.id # NoID

\* First lines of reconcileAccessKey: nothing to do for this generation.
UpToDate(o) ==
  o.status.og = o.gen /\ o.status.key = "True" /\ o.status.id # NoID

\* The worker holds version o, and reconcileAccessKey begins.
BeginReconcile(o, isCurrent) ==
  job' = [job EXCEPT !.obj = o, !.orig = o.status, !.current = isCurrent,
            !.pc = IF UpToDate(o) THEN "UpdateStatus"
                   ELSE IF o.status.id # NoID THEN "GetKey" ELSE "LookupKey"]

\* ensureExternalKey failed: markAccessKeyNotReady, return err.
KeyFailed ==
  job' = [job EXCEPT !.pc = "UpdateStatus", !.failed = TRUE,
                     !.obj.status.key = "False"]

\* ensureExternalKey returned key id: markAccessKeyReady, then ensureSecret.
KeyFound(id) ==
  job' = [job EXCEPT !.pc = "GetSecret", !.obj.status.id = id,
                     !.obj.status.key = "True"]

\* Mutant: the reason of a conflict is recorded under another name.
SecretNotReadyNoCase(reason) ==
  job' = [job EXCEPT !.pc = "UpdateStatus", !.failed = (reason # "Conflict"),
            !.obj.status.secret = IF reason = "Conflict" THEN "NameConflict"
                                                         ELSE reason]

\* markSecretNotReady; a name conflict is not an error of Reconcile.
SecretNotReady(reason) ==
  job' = [job EXCEPT !.pc = "UpdateStatus", !.failed = (reason # "Conflict"),
                     !.obj.status.secret = reason]

\* The last lines of reconcileAccessKey.
SecretDone(o) ==
  [o EXCEPT !.status.secretName = o.secretName, !.status.secret = "True"]

\* Mutant: the recorded Secret is cleaned up even if it is the spec's.
SecretWrittenAnew ==
  job' = IF job.obj.status.secretName # NoName
         THEN [job EXCEPT !.pc = "DeleteOldSecret"]
         ELSE [job EXCEPT !.pc = "UpdateStatus", !.obj = SecretDone(job.obj)]

\* The Secret is written: clean up the one of an earlier spec, or finish.
SecretWritten ==
  job' = IF job.obj.status.secretName \notin {NoName, job.obj.secretName}
         THEN [job EXCEPT !.pc = "DeleteOldSecret"]
         ELSE [job EXCEPT !.pc = "UpdateStatus", !.obj = SecretDone(job.obj)]

\* Mutant: any owner will do.
Controlled(s, parent) == s.exists

\* metav1.IsControlledBy(secret, parent).
ControlledBy(s, parent) == s.owner = parent.uid

\* Mutant: the name of another key is searched.
KeysOfNobody(uid) == {k \in keys : k.uid = uid + 1}

\* The keys a search for the name derived from uid finds.
KeysOf(uid) == {k \in keys : k.uid = uid}

\* Mutant: Update without a resourceVersion.
NoLock == TRUE

\* Does the worker's copy of the object have the stored resourceVersion?
OptimisticLock == job.current

-----------------------------------------------------------------------------
(* The worker: Reconcile, call by call.                                     *)

Dequeue(n) ==
  /\ At("idle") /\ n \in queue
  /\ queue' = queue \ {n}
  /\ job' = [Idle EXCEPT !.pc = "Get", !.name = n]
  /\ UNCHANGED <<log, garage, secrets, env>>

\* r.client.Get from the cache, and the branch on deletion and finalizer.
Get ==
  /\ At("Get")
  /\ LET o == cached(job.name)
         isCurrent == fresh(job.name)
     IN \/ /\ o = NoObject
           /\ Return(FALSE)
        \/ /\ o # NoObject /\ o.deleting /\ ~o.finalizer
           /\ Return(FALSE)
        \/ /\ o # NoObject /\ o.deleting /\ o.finalizer
           /\ job' = [job EXCEPT !.obj = o, !.current = isCurrent,
                        !.ext = o.status.id,
                        !.pc = IF o.status.id # NoID THEN "DeleteKey"
                               ELSE "LookupForDelete"]
           /\ UNCHANGED queue
        \/ /\ o # NoObject /\ ~o.deleting /\ ~o.finalizer
           /\ Goto("AddFinalizer") /\ UNCHANGED queue
        \/ /\ o # NoObject /\ ~o.deleting /\ o.finalizer
           /\ BeginReconcile(o, isCurrent) /\ UNCHANGED queue
  /\ UNCHANGED <<log, garage, secrets, env>>

\* A merge patch without resourceVersion: it lands on whatever object has the
\* name now, and its answer replaces the worker's copy.
AddFinalizer ==
  /\ At("AddFinalizer")
  /\ LET now == stored(job.name)
         patched == [now EXCEPT !.finalizer = TRUE]
     IN \/ /\ now # NoObject
           /\ Store(job.name, patched)
           /\ BeginReconcile(patched, TRUE)
           /\ NoFault /\ UNCHANGED queue
        \/ /\ now = NoObject
           /\ Return(TRUE) /\ NoFault /\ UNCHANGED log
        \/ /\ Fault /\ Return(TRUE)
           /\ \/ UNCHANGED log
              \/ now # NoObject /\ Store(job.name, patched)
  /\ UNCHANGED <<garage, secrets, nextUID, tampers>>

\* Mutant: every failure of Get counts as "no such key".
GetKeyAnyError ==
  /\ At("GetKey")
  /\ \/ /\ \E k \in keys : k.id = job.obj.status.id
        /\ KeyFound(job.obj.status.id) /\ NoFault
     \/ /\ \A k \in keys : k.id # job.obj.status.id
        /\ Goto("CreateKey") /\ NoFault
     \/ Goto("CreateKey") /\ Fault
  /\ UNCHANGED <<log, queue, garage, secrets, nextUID, tampers>>

\* ensureExternalKey with an ID in the status.
GetKey ==
  /\ At("GetKey")
  /\ \/ /\ \E k \in keys : k.id = job.obj.status.id
        /\ KeyFound(job.obj.status.id) /\ NoFault
     \/ /\ \A k \in keys : k.id # job.obj.status.id
        /\ Goto("CreateKey") /\ NoFault
     \/ KeyFailed /\ Fault
  /\ UNCHANGED <<log, queue, garage, secrets, nextUID, tampers>>

\* ensureExternalKey without one: look the key up by its name.
LookupKey ==
  /\ At("LookupKey")
  /\ \/ /\ \E k \in keys : KeysOf(job.obj.uid) = {k} /\ KeyFound(k.id)
        /\ NoFault
     \/ /\ KeysOf(job.obj.uid) = {}
        /\ Goto("CreateKey") /\ NoFault
     \/ /\ \E k, l \in KeysOf(job.obj.uid) : k # l       \* ErrMultipleMatches
        /\ KeyFailed /\ NoFault
     \/ KeyFailed /\ Fault
  /\ UNCHANGED <<log, queue, garage, secrets, nextUID, tampers>>

CreateKey ==
  /\ At("CreateKey")
  /\ LET created == keys \cup {[id |-> nextKey, uid |-> job.obj.uid]}
     IN \/ /\ keys' = created /\ nextKey' = nextKey + 1
           /\ KeyFound(nextKey) /\ NoFault
        \/ /\ KeyFailed /\ Fault
           /\ \/ UNCHANGED garage
              \/ keys' = created /\ nextKey' = nextKey + 1
  /\ UNCHANGED <<log, queue, secrets, nextUID, tampers>>

\* ensureSecret checks who controls the Secret of that name ...
GetSecret ==
  /\ At("GetSecret")
  /\ LET s == secrets[job.obj.secretName]
     IN \/ /\ s.exists /\ ~ControlledBy(s, job.obj)
           /\ SecretNotReady("Conflict") /\ NoFault
        \/ /\ ~s.exists \/ ControlledBy(s, job.obj)
           /\ Goto("ReadSecret") /\ NoFault
        \/ SecretNotReady("Failed") /\ Fault
  /\ UNCHANGED <<log, queue, garage, secrets, nextUID, tampers>>

\* ... and CreateOrUpdate reads it again ...
ReadSecret ==
  /\ At("ReadSecret")
  /\ LET s == secrets[job.obj.secretName]
     IN \/ /\ s.exists /\ s.id = job.obj.status.id     \* nothing to update
           /\ SecretWritten /\ NoFault
        \/ /\ ~s.exists \/ s.id # job.obj.status.id
           /\ job' = [job EXCEPT !.pc = "WriteSecret", !.sec = s,
                                 !.secCurrent = TRUE]
           /\ NoFault
        \/ SecretNotReady("Failed") /\ Fault
  /\ UNCHANGED <<log, queue, garage, secrets, nextUID, tampers>>

\* ... and creates it, or replaces its data whoever controls it.
WriteSecret ==
  /\ At("WriteSecret")
  /\ LET s == job.obj.secretName
         accepted == IF job.sec.exists THEN job.secCurrent
                                       ELSE ~secrets[s].exists
         written == [secrets EXCEPT ![s] =
                       [exists |-> TRUE, id |-> job.obj.status.id,
                        owner |-> IF job.sec.exists THEN job.sec.owner
                                                    ELSE job.obj.uid]]
     IN \/ /\ accepted /\ secrets' = written
           /\ SecretWritten /\ NoFault
        \/ /\ ~accepted /\ UNCHANGED secrets
           /\ SecretNotReady("Failed") /\ NoFault
        \/ /\ secrets' = secrets \/ (accepted /\ secrets' = written)
           /\ SecretNotReady("Failed") /\ Fault
  /\ UNCHANGED <<log, queue, garage, nextUID, tampers>>

\* cleanupOldSecret deletes by name; a missing Secret is fine.
DeleteOldSecret ==
  /\ At("DeleteOldSecret")
  /\ LET deleted == [secrets EXCEPT ![job.obj.status.secretName] = NoSecret]
     IN \/ /\ secrets' = deleted
           /\ job' = [job EXCEPT !.pc = "UpdateStatus",
                                 !.obj = SecretDone(job.obj)]
           /\ NoFault
        \/ /\ secrets' \in {secrets, deleted}
           /\ SecretNotReady("Failed") /\ Fault
  /\ UNCHANGED <<log, queue, garage, nextUID, tampers>>

\* updateAccessKeyCondition, then updateStatus if anything changed: the
\* latest version is read from the cache and gets the new status; the write
\* is refused when that version is not the stored one.  A conflict ends
\* Reconcile without error, every other failure is returned.
UpdateStatus ==
  /\ At("UpdateStatus")
  /\ LET n == job.name
         status == UpdateAccessKeyCondition(job.obj)
         accepted == cached(n) # NoObject /\ fresh(n)
         conflict == cached(n) # NoObject /\ ~fresh(n) /\ stored(n) # NoObject
         updated == [stored(n) EXCEPT !.status = status]
     IN \/ /\ status = job.orig
           /\ Return(job.failed) /\ NoFault /\ UNCHANGED log
        \/ /\ status # job.orig /\ accepted
           /\ Store(n, updated)
           /\ Return(job.failed) /\ NoFault
        \/ /\ status # job.orig /\ conflict
           /\ Return(FALSE) /\ NoFault /\ UNCHANGED log
        \/ /\ status # job.orig /\ ~accepted /\ ~conflict
           /\ Return(TRUE) /\ NoFault /\ UNCHANGED log
        \/ /\ status # job.orig /\ Fault
           /\ UNCHANGED log \/ (accepted /\ Store(n, updated))
           /\ Return(TRUE)
  /\ UNCHANGED <<garage, secrets, nextUID, tampers>>

\* resolveExtKeyID without an ID in the status.
LookupForDelete ==
  /\ At("LookupForDelete")
  /\ \/ /\ \E k \in keys : /\ KeysOf(job.obj.uid) = {k}
                           /\ job' = [job EXCEPT !.ext = k.id,
                                                 !.pc = "DeleteKey"]
        /\ NoFault /\ UNCHANGED queue
     \/ /\ KeysOf(job.obj.uid) = {}
        /\ Goto("RemoveFinalizer") /\ NoFault /\ UNCHANGED queue
     \/ /\ \E k, l \in KeysOf(job.obj.uid) : k # l       \* ErrMultipleMatches
        /\ Return(TRUE) /\ NoFault
     \/ Return(TRUE) /\ Fault
  /\ UNCHANGED <<log, garage, secrets, nextUID, tampers>>

\* A key that is already gone counts as deleted.
DeleteKey ==
  /\ At("DeleteKey")
  /\ LET left == {k \in keys : k.id # job.ext}
     IN \/ /\ keys' = left
           /\ Goto("RemoveFinalizer") /\ NoFault /\ UNCHANGED queue
        \/ /\ keys' \in {keys, left}
           /\ Return(TRUE) /\ Fault
  /\ UNCHANGED <<log, nextKey, secrets, nextUID, tampers>>

\* Update with the resourceVersion of the worker's copy; the API server
\* removes a deleting object with its last finalizer.
RemoveFinalizer ==
  /\ At("RemoveFinalizer")
  /\ \/ /\ OptimisticLock
        /\ Store(job.name, NoObject) /\ Return(FALSE) /\ NoFault
     \/ /\ ~OptimisticLock
        /\ Return(TRUE) /\ NoFault /\ UNCHANGED log
     \/ /\ Fault /\ Return(TRUE)
        /\ UNCHANGED log \/ (OptimisticLock /\ Store(job.name, NoObject))
  /\ UNCHANGED <<garage, secrets, nextUID, tampers>>

\* Every step of the worker on the request it has.
Step ==
  \/ Get \/ AddFinalizer \/ GetKey \/ LookupKey \/ CreateKey
  \/ GetSecret \/ ReadSecret \/ WriteSecret \/ DeleteOldSecret
  \/ UpdateStatus \/ LookupForDelete \/ DeleteKey \/ RemoveFinalizer

-----------------------------------------------------------------------------
(* The rest of the world.                                                   *)

\* Someone else writes object n: the worker's copy of it is stale.
ObjectWritten(n, v) ==
  /\ Store(n, v)
  /\ job' = [job EXCEPT !.current = @ /\ n # job.name]

\* Someone else writes Secret s: CreateOrUpdate's copy of it is stale.
SecretChanged(s, v) ==
  /\ secrets' = [secrets EXCEPT ![s] = v]
  /\ job' = [job EXCEPT !.secCurrent = @ /\ s # job.obj.secretName]

UserCreates(n, s) ==
  /\ stored(n) = NoObject /\ nextUID <= MaxUID
  /\ ObjectWritten(n, [uid |-> nextUID, gen |-> 1, secretName |-> s,
                       deleting |-> FALSE, finalizer |-> FALSE,
                       status |-> NewStatus])
  /\ nextUID' = nextUID + 1
  /\ UNCHANGED <<queue, garage, secrets, faults, tampers>>

\* The API server counts a change of the spec as a new generation.
UserEdits(n, s) ==
  /\ stored(n) # NoObject /\ stored(n).gen < MaxGen
  /\ s # stored(n).secretName
  /\ ObjectWritten(n, [stored(n) EXCEPT !.secretName = s, !.gen = @ + 1])
  /\ UNCHANGED <<queue, garage, secrets, env>>

\* Deletion waits for the finalizer if there is one, and is a new generation.
UserDeletes(n) ==
  /\ stored(n) # NoObject /\ ~stored(n).deleting
  /\ ObjectWritten(n, IF stored(n).finalizer
                      THEN [stored(n) EXCEPT !.deleting = TRUE, !.gen = @ + 1]
                      ELSE NoObject)
  /\ UNCHANGED <<queue, garage, secrets, env>>

\* Kubernetes deletes a Secret whose controlling AccessKey is gone.
CollectGarbage(s) ==
  /\ secrets[s].exists /\ secrets[s].owner # Foreign
  /\ \A n \in Names :
        stored(n) # NoObject => stored(n).uid # secrets[s].owner
  /\ SecretChanged(s, NoSecret)
  /\ UNCHANGED <<log, queue, garage, env>>

\* Others change what the controller manages: an administrator deletes a key
\* in Garage, someone creates a Secret of their own, or deletes a Secret.
Tamper ==
  /\ tampers > 0 /\ tampers' = tampers - 1
  /\ \/ /\ "deleteKey" \in Tampering
        /\ \E k \in keys : keys' = keys \ {k}
        /\ UNCHANGED <<secrets, job>>
     \/ /\ "foreignSecret" \in Tampering
        /\ \E s \in SecretNames :
             /\ ~secrets[s].exists
             /\ SecretChanged(s, [NoSecret EXCEPT !.exists = TRUE])
        /\ UNCHANGED keys
     \/ /\ "deleteSecret" \in Tampering
        /\ \E s \in SecretNames :
             secrets[s].exists /\ SecretChanged(s, NoSecret)
        /\ UNCHANGED keys
  /\ UNCHANGED <<log, queue, nextKey, nextUID, faults>>

\* The informer delivers a watch event.
Informer(n) == Deliver(n) /\ UNCHANGED <<garage, secrets, env, job>>

\* The manager dies and is started again; its calls end with it.
Crash ==
  /\ Fault
  /\ Relist /\ job' = Idle
  /\ UNCHANGED <<garage, secrets, nextUID, tampers>>

User ==
  \E n \in Names : \/ \E s \in SecretNames : UserCreates(n, s) \/ UserEdits(n, s)
                   \/ UserDeletes(n)

Next ==
  \/ Step
  \/ \E n \in Names : Dequeue(n) \/ Informer(n)
  \/ User \/ Tamper \/ Crash
  \/ \E s \in SecretNames : CollectGarbage(s)

Spec == Init /\ [][Next]_vars

\* The worker and the informer never stop; the work queue is first in first
\* out, so a waiting name is taken even when another one keeps coming back.
Fairness ==
  /\ WF_vars(Step)
  /\ \A n \in Names : WF_vars(Informer(n)) /\ SF_vars(Dequeue(n))

FairSpec == Spec /\ Fairness

\* The garbage collector comes round as well.
CollectedSpec == FairSpec /\ \A s \in SecretNames : WF_vars(CollectGarbage(s))

-----------------------------------------------------------------------------
(* Properties.                                                              *)

\* Every variable holds a value of its type.
TypeOK ==
  /\ log \in [Names -> Seq(Object \cup {NoObject}) \ {<<>>}]
  /\ queue \subseteq Names
  /\ keys \subseteq Key /\ nextKey \in Nat \ {0}
  /\ secrets \in [SecretNames -> Secret]
  /\ nextUID \in Nat \ {0} /\ faults \in Nat /\ tampers \in Nat
  /\ job \in Job

\* An AccessKey never gets two keys in Garage, however its Create calls, their
\* answers and its status writes are lost: Create is only reached after a Get
\* or a Lookup that found nothing (ensureExternalKey).
KeyUnique == \A k, l \in keys : k.uid = l.uid => k = l

\* Every key in Garage belongs to an AccessKey that still exists and carries
\* the finalizer: the finalizer is there before Create and leaves after
\* Delete, whatever the status lost in between (Reconcile, resolveExtKeyID).
KeyAccounted ==
  \A k \in keys : \E n \in Names :
    /\ stored(n) # NoObject
    /\ stored(n).uid = k.uid
    /\ stored(n).finalizer

\* An object whose status says Ready for the generation it has.
ClaimsReady(o) ==
  /\ o # NoObject /\ ~o.deleting
  /\ Ready(o.status) /\ o.status.og = o.gen

\* Ready tells the truth: the recorded key exists and the Secret the spec names
\* is the AccessKey's and holds that key's credentials.
ReadyUsable ==
  \A n \in Names : ClaimsReady(stored(n)) =>
    LET o == stored(n) IN
    /\ [id |-> o.status.id, uid |-> o.uid] \in keys
    /\ secrets[o.secretName] =
         [exists |-> TRUE, owner |-> o.uid, id |-> o.status.id]

\* Once an AccessKey has delivered a Secret, some Secret of its own holds its
\* key while the spec is edited: reconcileAccessKey writes the new Secret
\* before it deletes the old one.
KeepsCredentials ==
  \A n \in Names :
    LET o == stored(n) IN
    o # NoObject /\ o.status.secretName # NoName /\ ~o.deleting =>
      \E s \in SecretNames :
        secrets[s] = [exists |-> TRUE, owner |-> o.uid, id |-> o.status.id]

\* A Secret controlled by one AccessKey never holds the credentials of another
\* one, although the name of a Secret is free text in every spec.
SecretsHoldOwnersKey ==
  \A s \in SecretNames : \A k \in keys :
    /\ secrets[s].exists /\ secrets[s].owner # Foreign
    /\ secrets[s].id = k.id
    => secrets[s].owner = k.uid

\* When an AccessKey with the finalizer disappears, the key its last stored
\* status records is gone from Garage, even if the worker decided on an older
\* version: RemoveFinalizer's Update carries that version's resourceVersion.
FinalizerHonoured ==
  [][\A n \in Names :
       LET o == stored(n) IN
       (o # NoObject /\ o.finalizer /\ stored(n)' = NoObject) =>
         \A k \in keys' : k.id # o.status.id]_vars

\* Every AccessKey comes to rest: deleted, or observed in its last generation
\* as Ready or as a name conflict.  Conflicts swallowed by Reconcile, lost
\* answers and restarts do not leave it behind.
Settled(o) ==
  \/ o = NoObject
  \/ /\ ~o.deleting
     /\ o.status.og = o.gen
     /\ Ready(o.status) \/ o.status.secret = "Conflict"

Settles == \A n \in Names : <>[]Settled(stored(n))

\* No AccessKey is forgotten on the way there: when its worker, its queue and
\* its events are done, it is settled, whatever others did to its key and its
\* Secret.  A reconcile that ends without an error (a swallowed conflict, a
\* deletion seen too late) relies on an event that is still to come.
NothingForgotten ==
  \A n \in Names :
    fresh(n) /\ n \notin queue /\ (At("idle") \/ job.name # n) =>
      Settled(stored(n))

-----------------------------------------------------------------------------
(* Statements of the repository that the code does not keep.                *)

\* AccessKeySpec.SecretName is "the name of the secret that will be created to
\* store the credentials": once nothing else is under that name any more, the
\* Secret is created.
InTheWay(o) ==
  secrets[o.secretName].exists /\ secrets[o.secretName].owner # o.uid
Created(o) ==
  secrets[o.secretName].exists /\ secrets[o.secretName].owner = o.uid

SecretCreated ==
  \A n \in Names :
    <>[](stored(n) = NoObject \/ ~InTheWay(stored(n))) =>
    <>[](stored(n) = NoObject \/ Created(stored(n)))

\* AccessKeyStatus.SecretName "holds the reference to the previously created
\* secret on spec changes": a Ready AccessKey at rest has no Secret left of an
\* earlier spec.
NoStaleSecret ==
  \A n \in Names, s \in SecretNames :
    LET o == stored(n) IN
    (/\ ClaimsReady(o) /\ fresh(n) /\ n \notin queue /\ job.name # n
     /\ secrets[s].exists /\ secrets[s].owner = o.uid)
      => s = o.secretName
=============================================================================
