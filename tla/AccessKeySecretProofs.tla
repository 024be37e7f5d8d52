------------------------ MODULE AccessKeySecretProofs ------------------------
(***************************************************************************)
(* What the Secrets of AccessKeys hold.  First, whatever others do: never   *)
(* another AccessKey's credentials (OwnInv).  Then, where nobody else       *)
(* writes Secrets or deletes keys: what Ready promises, and that delivered  *)
(* credentials stay (ReadyInv, on top of Inv of AccessKeyProofs).  Then,    *)
(* whatever others do again: no AccessKey is forgotten (RestInv).  Last,    *)
(* that the controller implements KeyCustody.                               *)
(***************************************************************************)
EXTENDS AccessKeyRefinement, AccessKeyProofs

\* An ID that is unset, or was handed out and is no key's but an AccessKey's.
BelongsTo(id, uid) == id < nextKey /\ \A k \in keys : k.id = id => k.uid = uid

\* Whatever is stored, read or delivered goes with the AccessKey it is for.
VersionsOwn ==
  \A n \in Names : \A i \in Index(n) :
    Exists(n, i) => BelongsTo(log[n][i].status.id, log[n][i].uid)

SecretsOwn ==
  \A s \in SecretNames :
    secrets[s].exists /\ secrets[s].owner # Foreign =>
      BelongsTo(secrets[s].id, secrets[s].owner)

\* The worker's AccessKey stays stored while it is ensured, so that its status
\* is written to no other.
EnsuresStored ==
  job.pc \in EnsurePath =>
    /\ BelongsTo(job.obj.status.id, job.obj.uid)
    /\ stored(job.name) # NoObject
    /\ stored(job.name).uid = job.obj.uid
    /\ stored(job.name).finalizer

\* The check on who controls a Secret still tells who does not.
ChecksOwner ==
  /\ job.pc = "ReadSecret" /\ secrets[job.obj.secretName].exists =>
       secrets[job.obj.secretName].owner \in {Foreign, job.obj.uid}
  /\ job.pc = "WriteSecret" /\ job.sec.exists =>
       job.sec.owner \in {Foreign, job.obj.uid}

\* A current copy on the deletion branch is all there is of the AccessKey.
NothingOlder ==
  job.pc \in DeletePath /\ job.current =>
    \A i \in Index(job.name) : Exists(job.name, i) => log[job.name][i].deleting

OwnLog == IDsApart /\ Held /\ VersionsOwn /\ SecretsOwn
OwnJob == EnsuresStored /\ ChecksOwner /\ NothingOlder
OwnInv == OwnLog /\ OwnJob
-----------------------------------------------------------------------------
(* Garage hands out IDs in order.                                           *)

\* A step adds at most the key with the next ID.
LEMMA KeysGrow ==
  ASSUME TypeInv, Next
  PROVE  /\ nextKey' \in {nextKey, nextKey + 1}
         /\ \A k \in keys' : \/ k \in keys
                             \/ /\ k = [id |-> nextKey, uid |-> job.obj.uid]
                                /\ nextKey' = nextKey + 1
BY DEF Next, Step, User, Get, AddFinalizer, GetKey, LookupKey, CreateKey,
       GetSecret, ReadSecret, WriteSecret, DeleteOldSecret, UpdateStatus,
       LookupForDelete, DeleteKey, RemoveFinalizer, Dequeue, Informer,
       UserCreates, UserEdits, UserDeletes, Tamper, Crash, CollectGarbage,
       garage

LEMMA KeysStayApart ==
  ASSUME TypeInv, IDsApart, Next
  PROVE  IDsApart'
<1>1. /\ nextKey \in Nat \ {0} /\ keys \subseteq Key
      /\ nextKey' \in {nextKey, nextKey + 1}
      /\ \A k \in keys' : \/ k \in keys
                          \/ /\ k = [id |-> nextKey, uid |-> job.obj.uid]
                             /\ nextKey' = nextKey + 1
  BY KeysGrow DEF TypeInv, TypeOK
<1>2. \A k \in keys : k.id \in Nat /\ k.id # NoID /\ k.id < nextKey
  BY <1>1 DEF Key, IDsApart
<1>3. \A k \in keys' : k.id # NoID /\ k.id < nextKey'
  BY <1>1, <1>2 DEF NoID
<1>4. \A k, l \in keys' : k.id = l.id => k = l
  BY <1>1, <1>2 DEF IDsApart
<1> QED
  BY <1>3, <1>4 DEF IDsApart

\* So an ID that belongs to an AccessKey goes on belonging to it.
LEMMA StillBelongs ==
  ASSUME TypeInv, Next, NEW id \in Nat, NEW uid, BelongsTo(id, uid)
  PROVE  BelongsTo(id, uid)'
BY KeysGrow DEF BelongsTo, TypeInv, TypeOK

LEMMA NoIDBelongs ==
  ASSUME TypeInv, IDsApart, NEW uid
  PROVE  BelongsTo(NoID, uid)
BY DEF BelongsTo, IDsApart, TypeInv, TypeOK, NoID

-----------------------------------------------------------------------------
(* The versions of AccessKeys.                                              *)

\* A version that was written: of the same AccessKey, of a new one, or none.
Follows(n, v) ==
  \/ /\ v \in Object /\ stored(n) # NoObject
     /\ v.uid = stored(n).uid
     /\ stored(n).finalizer => v.finalizer
  \/ /\ v \in Object /\ stored(n) = NoObject /\ ~v.finalizer
  \/ /\ v = NoObject
     /\ \A i \in Index(n) :
          Exists(n, i) => ~log[n][i].finalizer \/ log[n][i].deleting

LEMMA WriteVersions ==
  ASSUME TypeInv, Held, VersionsOwn, Next, NEW n \in Names, NEW v \in Version,
         Store(n, v), Follows(n, v),
         v # NoObject => BelongsTo(v.status.id, v.uid)'
  PROVE  Held' /\ VersionsOwn'
<1>0. log \in Log /\ log' \in Log
  BY WorkerFacts, StoreFacts
<1>1. \A m \in Names : stored(m)' = IF m = n THEN v ELSE stored(m)
  BY <1>0, StoreView
<1>2. \A m \in Names : \A i \in Index(m)' :
        \/ i \in Index(m) /\ log'[m][i] = log[m][i]
        \/ m = n /\ log'[m][i] = v
  BY <1>0, StoreView
<1>3. Held'
  <2> SUFFICES ASSUME NEW m \in Names, NEW i \in Index(m)', Exists(m, i)',
                      log'[m][i].finalizer, ~log'[m][i].deleting
               PROVE  /\ stored(m)' # NoObject
                      /\ stored(m)'.uid = log'[m][i].uid
                      /\ stored(m)'.finalizer
    BY DEF Held
  <2>1. CASE m # n
    BY <2>1, <1>1, <1>2 DEF Held, Exists
  <2>2. CASE m = n /\ i \in Index(n) /\ log'[n][i] = log[n][i]
    <3>1. /\ stored(n) # NoObject /\ stored(n).uid = log[n][i].uid
          /\ stored(n).finalizer
      BY <2>2 DEF Held, Exists
    <3>2. /\ v \in Object /\ v.uid = stored(n).uid /\ v.finalizer
      BY <2>2, <3>1 DEF Follows, Exists
    <3> QED
      BY <2>2, <3>1, <3>2, <1>1, NoObjectAssumption
  <2>3. CASE m = n /\ log'[n][i] = v
    BY <2>3, <1>1 DEF Exists
  <2> QED
    BY <2>1, <2>2, <2>3, <1>2
<1>4. VersionsOwn'
  <2> SUFFICES ASSUME NEW m \in Names, NEW i \in Index(m)', Exists(m, i)'
               PROVE  /\ log'[m][i].status.id < nextKey'
                      /\ \A k \in keys' : k.id = log'[m][i].status.id =>
                                          k.uid = log'[m][i].uid
    BY DEF VersionsOwn, BelongsTo
  <2>1. CASE i \in Index(m) /\ log'[m][i] = log[m][i]
    <3>1. log[m][i] \in Object
      BY <1>0, <2>1, LogFacts DEF Version, Exists
    <3>2. BelongsTo(log[m][i].status.id, log[m][i].uid)
      BY <2>1 DEF VersionsOwn, Exists
    <3>3. PICK id, uid : id = log[m][i].status.id /\ uid = log[m][i].uid
      OBVIOUS
    <3>4. BelongsTo(id, uid)'
      BY <3>1, <3>2, <3>3, StillBelongs DEF Object, Status
    <3> QED
      BY <2>1, <3>3, <3>4 DEF BelongsTo
  <2>2. CASE m = n /\ log'[m][i] = v
    BY <2>2 DEF Exists, BelongsTo
  <2> QED
    BY <2>1, <2>2, <1>2
<1> QED
  BY <1>3, <1>4

\* A step that writes no version.
LEMMA KeepVersions ==
  ASSUME TypeInv, Held, VersionsOwn, Next,
         \A m \in Names :
           /\ stored(m)' = stored(m)
           /\ \A i \in Index(m)' : \E j \in Index(m) : log'[m][i] = log[m][j]
  PROVE  Held' /\ VersionsOwn'
<1>0. log \in Log
  BY WorkerFacts
<1>1. Held'
  BY DEF Held, Exists
<1>2. VersionsOwn'
  <2> SUFFICES ASSUME NEW m \in Names, NEW i \in Index(m)', Exists(m, i)'
               PROVE  /\ log'[m][i].status.id < nextKey'
                      /\ \A k \in keys' : k.id = log'[m][i].status.id =>
                                          k.uid = log'[m][i].uid
    BY DEF VersionsOwn, BelongsTo
  <2>1. PICK j \in Index(m) : log'[m][i] = log[m][j]
    OBVIOUS
  <2>2. PICK id, uid : id = log[m][j].status.id /\ uid = log[m][j].uid
    OBVIOUS
  <2>3. log[m][j] \in Object /\ BelongsTo(id, uid)
    BY <1>0, <2>1, <2>2, LogFacts DEF Version, Exists, VersionsOwn
  <2>4. BelongsTo(id, uid)'
    BY <2>2, <2>3, StillBelongs DEF Object, Status
  <2> QED
    BY <2>1, <2>2, <2>4 DEF BelongsTo
<1> QED
  BY <1>1, <1>2
-----------------------------------------------------------------------------
(* Secrets, and a worker whose request is not moved on.                     *)

LEMMA KeepSecrets ==
  ASSUME TypeInv, SecretsOwn, Next,
         \A s \in SecretNames :
           \/ secrets'[s] = secrets[s]
           \/ secrets'[s].exists /\ secrets'[s].owner # Foreign =>
                /\ secrets'[s].id < nextKey'
                /\ \A k \in keys' : k.id = secrets'[s].id =>
                                    k.uid = secrets'[s].owner
  PROVE  SecretsOwn'
<1> SUFFICES ASSUME NEW s \in SecretNames, secrets'[s].exists,
                    secrets'[s].owner # Foreign
             PROVE  /\ secrets'[s].id < nextKey'
                    /\ \A k \in keys' : k.id = secrets'[s].id =>
                                        k.uid = secrets'[s].owner
  BY DEF SecretsOwn, BelongsTo
<1>1. CASE secrets'[s] = secrets[s]
  <2>1. PICK id, uid : id = secrets[s].id /\ uid = secrets[s].owner
    OBVIOUS
  <2>2. id \in Nat /\ BelongsTo(id, uid)
    BY <1>1, <2>1 DEF TypeInv, TypeOK, Secret, SecretsOwn
  <2>3. BelongsTo(id, uid)'
    BY <2>2, StillBelongs
  <2> QED
    BY <1>1, <2>1, <2>3 DEF BelongsTo
<1> QED
  BY <1>1

\* A worker that holds no AccessKey relies on nothing.
LEMMA NothingHeld ==
  ASSUME job'.pc \notin EnsurePath \cup DeletePath
  PROVE  OwnJob'
BY DEF OwnJob, EnsuresStored, ChecksOwner, NothingOlder, EnsurePath, DeletePath

\* Versions that are kept or dropped, not written.
NoneWritten(n) ==
  /\ stored(n)' = stored(n)
  /\ \A i \in Index(n)' : \E j \in Index(n) : log'[n][i] = log[n][j]

LEMMA SameRequest ==
  ASSUME TypeInv, OwnInv, Next, NEW r, r = job.name,
         job'.pc = job.pc, job'.name = job.name, job'.obj = job.obj,
         job'.sec = job.sec, job'.current \in BOOLEAN,
         job'.current => job.current /\ (r \in Names => NoneWritten(r)),
         r \in Names /\ stored(r) # NoObject /\ stored(r).finalizer =>
           /\ stored(r)' # NoObject /\ stored(r)'.uid = stored(r).uid
           /\ stored(r)'.finalizer,
         \A s \in SecretNames :
           secrets'[s].exists => secrets'[s] \in {secrets[s], [NoSecret EXCEPT !.exists = TRUE]}
  PROVE  OwnJob'
<1>0. /\ job \in Job
      /\ job.pc \in EnsurePath \cup DeletePath => r \in Names /\ job.obj \in Object
      /\ job.pc \in EnsurePath => job.obj.status \in Status
  BY WorkerFacts DEF JobOK, EnsurePath, DeletePath
<1>1. EnsuresStored'
  <2> SUFFICES ASSUME job.pc \in EnsurePath
               PROVE  /\ job.obj.status.id < nextKey'
                      /\ \A k \in keys' : k.id = job.obj.status.id =>
                                          k.uid = job.obj.uid
                      /\ stored(r)' # NoObject
                      /\ stored(r)'.uid = job.obj.uid
                      /\ stored(r)'.finalizer
    BY DEF EnsuresStored, BelongsTo
  <2>1. PICK id, uid : id = job.obj.status.id /\ uid = job.obj.uid
    OBVIOUS
  <2>2. id \in Nat /\ BelongsTo(id, uid)
    BY <1>0, <2>1 DEF Status, OwnInv, OwnJob, EnsuresStored
  <2>3. BelongsTo(id, uid)'
    BY <2>2, StillBelongs
  <2> QED
    BY <1>0, <2>1, <2>3 DEF BelongsTo, OwnInv, OwnJob, EnsuresStored
<1>2. ChecksOwner'
  <2>1. \A s \in SecretNames :
          secrets'[s].exists => secrets'[s] = secrets[s] \/ secrets'[s].owner = Foreign
    BY DEF NoSecret, Foreign
  <2>2. job.pc = "ReadSecret" => job.obj.secretName \in SecretNames
    BY <1>0 DEF EnsurePath, Object
  <2> QED
    BY <2>1, <2>2 DEF OwnInv, OwnJob, ChecksOwner
<1>3. NothingOlder'
  BY <1>0 DEF NothingOlder, NoneWritten, OwnInv, OwnJob, Exists
<1> QED
  BY <1>1, <1>2, <1>3 DEF OwnJob
-----------------------------------------------------------------------------
(* The rest of the world.                                                   *)

LEMMA WorldOwns ==
  ASSUME TypeInv, OwnInv, World
  PROVE  OwnInv'
<1>0. /\ Next /\ TypeInv /\ log \in Log /\ job \in Job /\ EnvOK
      /\ \A n \in Names : stored(n) \in Version
      /\ NoObject \in Version
  BY WorkerFacts, LogFacts DEF JobOK, Next, World, Version
<1>1. IDsApart'
  BY <1>0, KeysStayApart DEF OwnInv, OwnLog
<1>2. PICK r : r = job.name
  OBVIOUS
<1>3. ASSUME \A m \in Names : NoneWritten(m), SecretsOwn', OwnJob'
      PROVE  OwnInv'
  BY <1>0, <1>1, <1>3, KeepVersions DEF NoneWritten, OwnInv, OwnLog
<1>4. ASSUME UNCHANGED log
      PROVE  \A m \in Names : NoneWritten(m)
  BY <1>4 DEF NoneWritten, stored, Index
<1>5. ASSUME UNCHANGED secrets
      PROVE  SecretsOwn'
  BY <1>0, <1>5, KeepSecrets DEF OwnInv, OwnLog
<1>6. ASSUME NEW n \in Names, Dequeue(n)
      PROVE  OwnInv'
  <2>1. UNCHANGED <<log, secrets>> /\ job'.pc = "Get"
    BY <1>6 DEF Dequeue, Idle
  <2> QED
    BY <2>1, <1>3, <1>4, <1>5, NothingHeld DEF EnsurePath, DeletePath
<1>7. ASSUME NEW n \in Names, Informer(n)
      PROVE  OwnInv'
  <2>1. UNCHANGED <<secrets, job>>
    BY <1>7 DEF Informer
  <2>2. \A m \in Names : NoneWritten(m)
    <3>1. PICK d \in [Names -> Nat] : Dropped(d)
      BY <1>0, <1>7, DeliverView DEF Informer
    <3> QED
      BY <3>1 DEF Dropped, NoneWritten
  <2>3. job.current \in BOOLEAN
    BY <1>0 DEF Job
  <2>4. OwnJob'
    BY <1>0, <1>2, <2>1, <2>2, <2>3, SameRequest DEF NoneWritten
  <2> QED
    BY <2>1, <2>2, <2>4, <1>3, <1>5
<1>8. CASE Crash
  <2>1. UNCHANGED secrets /\ job'.pc = "idle"
    BY <1>8 DEF Crash, Idle
  <2>2. \A m \in Names : NoneWritten(m)
    <3>1. PICK d \in [Names -> Nat] : Dropped(d)
      BY <1>0, <1>8, RelistView DEF Crash
    <3> QED
      BY <3>1 DEF Dropped, NoneWritten
  <2> QED
    BY <2>1, <2>2, <1>3, <1>5, NothingHeld DEF EnsurePath, DeletePath
<1>9. ASSUME NEW n \in Names, NEW v \in Version, ObjectWritten(n, v),
             Follows(n, v), UNCHANGED secrets,
             v # NoObject => BelongsTo(v.status.id, v.uid),
             v = NoObject => stored(n) = NoObject \/ ~stored(n).finalizer
      PROVE  OwnInv'
  <2>1. Store(n, v)
    BY <1>9 DEF ObjectWritten
  <2>2. \A m \in Names : stored(m)' = IF m = n THEN v ELSE stored(m)
    BY <1>0, <2>1, StoreFacts, StoreView
  <2>3. v # NoObject => BelongsTo(v.status.id, v.uid)'
    <3>1. PICK id, uid : id = v.status.id /\ uid = v.uid
      OBVIOUS
    <3>2. v # NoObject => id \in Nat
      BY <3>1 DEF Version, Object, Status
    <3>3. v # NoObject => BelongsTo(id, uid)'
      BY <1>0, <1>9, <3>1, <3>2, StillBelongs
    <3> QED
      BY <3>1, <3>3
  <2>4. Held' /\ VersionsOwn'
    BY <1>0, <1>9, <2>1, <2>3, WriteVersions DEF OwnInv, OwnLog
  <2>5. /\ job'.pc = job.pc /\ job'.name = job.name /\ job'.obj = job.obj
        /\ job'.sec = job.sec /\ job'.current = (job.current /\ n # r)
    BY <1>0, <1>2, <1>9 DEF ObjectWritten, Job
  <2>6. job'.current \in BOOLEAN
    BY <1>0, <2>5 DEF Job
  <2>7. \A m \in Names \ {n} : NoneWritten(m)
    <3>1. \A m \in Names \ {n} : log'[m] = log[m]
      BY <1>0, <2>1, StoreFacts
    <3> QED
      BY <3>1 DEF NoneWritten, Index, stored
  <2>8. r \in Names /\ stored(r) # NoObject /\ stored(r).finalizer =>
           /\ stored(r)' # NoObject /\ stored(r)'.uid = stored(r).uid
           /\ stored(r)'.finalizer
    BY <1>9, <2>2, NoObjectAssumption DEF Follows
  <2>9. OwnJob'
    <3>1. job'.current => job.current /\ (r \in Names => NoneWritten(r))
      BY <2>5, <2>7
    <3> QED
      BY <1>0, <1>2, <1>9, <2>5, <2>6, <2>8, <3>1, SameRequest
  <2> QED
    BY <1>1, <1>5, <1>9, <2>4, <2>9 DEF OwnInv, OwnLog
<1>10. ASSUME NEW n \in Names, stored(n) # NoObject
       PROVE  /\ stored(n) \in Object /\ stored(n).status.id \in Nat
              /\ BelongsTo(stored(n).status.id, stored(n).uid)
  <2>1. stored(n) \in Object
    BY <1>0, <1>10 DEF Version
  <2> QED
    BY <1>0, <1>10, <2>1, IndexFacts
    DEF OwnInv, OwnLog, VersionsOwn, Exists, Object, Status
<1>11. ASSUME NEW n \in Names, NEW s \in SecretNames, UserCreates(n, s)
       PROVE  OwnInv'
  <2> DEFINE v == [uid |-> nextUID, gen |-> 1, secretName |-> s,
                   deleting |-> FALSE, finalizer |-> FALSE, status |-> NewStatus]
  <2>1. v \in Object
    BY <1>0 DEF EnvOK, Object, NewStatus, Status, NoID, NoName
  <2>2. BelongsTo(v.status.id, v.uid)
    BY NoIDBelongs DEF NewStatus, OwnInv, OwnLog
  <2>3. Follows(n, v)
    BY <1>11, <2>1 DEF Follows, UserCreates
  <2>4. ObjectWritten(n, v) /\ UNCHANGED secrets /\ stored(n) = NoObject
    BY <1>11 DEF UserCreates
  <2> QED
    BY <1>9, <2>1, <2>2, <2>3, <2>4 DEF Version
<1>12. ASSUME NEW n \in Names, NEW s \in SecretNames, UserEdits(n, s)
       PROVE  OwnInv'
  <2> DEFINE v == [stored(n) EXCEPT !.secretName = s, !.gen = @ + 1]
  <2>1. stored(n) \in Object /\ v \in Object /\ stored(n) # NoObject
    BY <1>12, <1>0, ObjectChanged DEF UserEdits, Version
  <2>2. /\ v.uid = stored(n).uid /\ v.finalizer = stored(n).finalizer
        /\ v.status = stored(n).status
    BY <2>1 DEF Object
  <2>3. Follows(n, v) /\ v # NoObject
    BY <2>1, <2>2, NoObjectAssumption DEF Follows
  <2>4. ObjectWritten(n, v) /\ UNCHANGED secrets
    BY <1>12 DEF UserEdits
  <2> HIDE DEF v
  <2> QED
    BY <1>9, <1>10, <2>1, <2>2, <2>3, <2>4 DEF Version
<1>13. ASSUME NEW n \in Names, UserDeletes(n)
       PROVE  OwnInv'
  <2>1. stored(n) \in Object /\ stored(n) # NoObject /\ UNCHANGED secrets
    BY <1>13, <1>0 DEF UserDeletes, Version
  <2>2. CASE stored(n).finalizer
    <3> DEFINE v == [stored(n) EXCEPT !.deleting = TRUE, !.gen = @ + 1]
    <3>1. v \in Object /\ v # NoObject
      BY <2>1, ObjectChanged, NoObjectAssumption
    <3>2. /\ v.uid = stored(n).uid /\ v.finalizer = stored(n).finalizer
          /\ v.status = stored(n).status
      BY <2>1 DEF Object
    <3>3. Follows(n, v)
      BY <2>1, <3>1, <3>2 DEF Follows
    <3>4. ObjectWritten(n, v)
      BY <1>13, <2>2 DEF UserDeletes
    <3> HIDE DEF v
    <3> QED
      BY <1>9, <1>10, <2>1, <3>1, <3>2, <3>3, <3>4 DEF Version
  <2>3. CASE ~stored(n).finalizer
    <3>1. ObjectWritten(n, NoObject)
      BY <1>13, <2>3 DEF UserDeletes
    <3>2. Follows(n, NoObject)
      BY <2>1, <2>3 DEF Follows, OwnInv, OwnLog, Held, Exists
    <3> QED
      BY <1>0, <1>9, <2>1, <2>3, <3>1, <3>2
  <2> QED
    BY <2>2, <2>3
<1>14. ASSUME UNCHANGED log,
              \A s \in SecretNames :
                secrets'[s] \in {secrets[s], NoSecret, [NoSecret EXCEPT !.exists = TRUE]},
              job' = job \/ \E b \in BOOLEAN : job' = [job EXCEPT !.secCurrent = b]
       PROVE  OwnInv'
  <2>1. /\ job'.pc = job.pc /\ job'.name = job.name /\ job'.obj = job.obj
        /\ job'.sec = job.sec /\ job'.current = job.current
        /\ job.current \in BOOLEAN
    BY <1>0, <1>14 DEF Job
  <2>2. SecretsOwn'
    <3>1. \A s \in SecretNames :
            \/ secrets'[s] = secrets[s]
            \/ ~(secrets'[s].exists /\ secrets'[s].owner # Foreign)
      BY <1>14 DEF NoSecret
    <3> QED
      BY <1>0, <3>1, KeepSecrets DEF OwnInv, OwnLog
  <2>3. OwnJob'
    <3>1. \A s \in SecretNames :
            secrets'[s].exists =>
              secrets'[s] \in {secrets[s], [NoSecret EXCEPT !.exists = TRUE]}
      BY <1>14 DEF NoSecret
    <3> QED
      BY <1>0, <1>2, <1>4, <1>14, <2>1, <3>1, SameRequest DEF NoneWritten
  <2> QED
    BY <1>3, <1>4, <1>14, <2>2, <2>3
<1>15. CASE Tamper
  <2>1. \A s \in SecretNames :
          secrets'[s] \in {secrets[s], NoSecret, [NoSecret EXCEPT !.exists = TRUE]}
    BY <1>0, <1>15 DEF Tamper, SecretChanged, EnvOK
  <2>2. UNCHANGED log
    BY <1>15 DEF Tamper
  <2>3. job' = job \/ \E s \in SecretNames :
                        job' = [job EXCEPT !.secCurrent = @ /\ s # job.obj.secretName]
    BY <1>15 DEF Tamper, SecretChanged
  <2>4. job' = job \/ \E b \in BOOLEAN : job' = [job EXCEPT !.secCurrent = b]
    BY <2>3
  <2> QED
    BY <1>14, <2>1, <2>2, <2>4
<1>16. ASSUME NEW t \in SecretNames, CollectGarbage(t)
       PROVE  OwnInv'
  <2>1. \A s \in SecretNames :
          secrets'[s] \in {secrets[s], NoSecret, [NoSecret EXCEPT !.exists = TRUE]}
    BY <1>0, <1>16 DEF CollectGarbage, SecretChanged, EnvOK
  <2>2. UNCHANGED log
    BY <1>16 DEF CollectGarbage
  <2>3. job' = [job EXCEPT !.secCurrent = @ /\ t # job.obj.secretName]
    BY <1>16 DEF CollectGarbage, SecretChanged
  <2>4. \E b \in BOOLEAN : job' = [job EXCEPT !.secCurrent = b]
    BY <2>3
  <2> QED
    BY <1>14, <2>1, <2>2, <2>4
<1> QED
  BY <1>6, <1>7, <1>8, <1>11, <1>12, <1>13, <1>15, <1>16 DEF World, User
-----------------------------------------------------------------------------
(* The worker.                                                              *)

\* The worker goes on ensuring the same AccessKey.
LEMMA StayOwn ==
  ASSUME TypeInv, OwnInv, Next, job.pc \in EnsurePath, UNCHANGED log,
         job'.name = job.name, job'.obj.uid = job.obj.uid,
         job'.pc \in EnsurePath,
         /\ job'.obj.status.id < nextKey'
         /\ \A k \in keys' : k.id = job'.obj.status.id => k.uid = job.obj.uid,
         ChecksOwner'
  PROVE  OwnJob' /\ Held' /\ VersionsOwn' /\ IDsApart'
<1>1. EnsuresStored'
  BY DEF EnsuresStored, BelongsTo, OwnInv, OwnJob, stored
<1>2. NothingOlder'
  BY DEF NothingOlder, EnsurePath, DeletePath
<1>3. \A m \in Names : NoneWritten(m)
  BY DEF NoneWritten, stored, Index
<1>4. Held' /\ VersionsOwn' /\ IDsApart'
  BY <1>3, KeepVersions, KeysStayApart DEF NoneWritten, OwnInv, OwnLog
<1> QED
  BY <1>1, <1>2, <1>4 DEF OwnJob

\* The steps that look for the key or create it.
LEMMA EnsureKeyOwns ==
  ASSUME TypeInv, OwnInv, GetKey \/ LookupKey \/ CreateKey
  PROVE  OwnInv'
<1>0. /\ Next /\ job.pc \in EnsurePath /\ UNCHANGED <<log, secrets>>
      /\ job \in Job /\ job.obj \in Object /\ job.obj.status \in Status
      /\ keys \subseteq Key /\ nextKey \in Nat
  BY WorkerFacts
  DEF Next, Step, GetKey, LookupKey, CreateKey, At, EnsurePath, garage, JobOK,
      EnvOK
<1>1. SecretsOwn'
  BY <1>0, KeepSecrets DEF OwnInv, OwnLog
<1>2. PICK u : u = job.obj.uid
  OBVIOUS
<1>3. \A id \in Nat : BelongsTo(id, u) =>
        id < nextKey' /\ \A k \in keys' : k.id = id => k.uid = u
  BY <1>0, StillBelongs DEF BelongsTo
<1>4. BelongsTo(job.obj.status.id, u) /\ job.obj.status.id \in Nat
  BY <1>0, <1>2 DEF OwnInv, OwnJob, EnsuresStored, Status
<1>5. CASE KeyFailed \/ Goto("CreateKey")
  <2>1. /\ job'.name = job.name /\ job'.obj.uid = u
        /\ job'.obj.status.id = job.obj.status.id
        /\ job'.pc \in {"UpdateStatus", "CreateKey"}
    BY <1>0, <1>2, <1>5, HelperFacts
  <2>2. ChecksOwner' /\ job'.pc \in EnsurePath
    BY <2>1 DEF ChecksOwner, EnsurePath
  <2>3. /\ job'.obj.status.id < nextKey'
        /\ \A k \in keys' : k.id = job'.obj.status.id => k.uid = u
    BY <1>3, <1>4, <2>1
  <2> QED
    BY <1>0, <1>1, <1>2, <2>1, <2>2, <2>3, StayOwn DEF OwnInv, OwnLog
<1>6. ASSUME NEW id \in Nat, KeyFound(id),
             id < nextKey' /\ \A k \in keys' : k.id = id => k.uid = u
      PROVE  OwnInv'
  <2>1. /\ job'.name = job.name /\ job'.obj.uid = u
        /\ job'.obj.status.id = id /\ job'.pc = "GetSecret"
    BY <1>0, <1>2, <1>6, HelperFacts
  <2>2. ChecksOwner' /\ job'.pc \in EnsurePath
    BY <2>1 DEF ChecksOwner, EnsurePath
  <2> QED
    BY <1>0, <1>1, <1>2, <1>6, <2>1, <2>2, StayOwn DEF OwnInv, OwnLog
<1>7. CASE GetKey
  BY <1>3, <1>4, <1>5, <1>6, <1>7 DEF GetKey
<1>8. CASE LookupKey
  <2>1. ASSUME NEW k \in keys, KeysOf(job.obj.uid) = {k}
        PROVE  k.id \in Nat /\ BelongsTo(k.id, u)
    <3>1. k.uid = u /\ k.id < nextKey /\ k.id \in Nat
      BY <1>0, <1>2, <2>1 DEF KeysOf, OwnInv, OwnLog, IDsApart, Key
    <3> QED
      BY <3>1, <2>1 DEF BelongsTo, OwnInv, OwnLog, IDsApart
  <2> QED
    BY <1>3, <1>5, <1>6, <1>8, <2>1 DEF LookupKey
<1>9. CASE CreateKey
  <2>1. CASE /\ keys' = keys \cup {[id |-> nextKey, uid |-> u]}
             /\ nextKey' = nextKey + 1 /\ KeyFound(nextKey)
    <3>1. \A k \in keys : k.id < nextKey /\ k.id \in Nat
      BY <1>0 DEF OwnInv, OwnLog, IDsApart, Key
    <3> QED
      BY <1>0, <1>6, <2>1, <3>1
  <2> QED
    BY <1>2, <1>5, <1>9, <2>1 DEF CreateKey
<1> QED
  BY <1>7, <1>8, <1>9

\* The steps that look at the Secret, write it, or delete one.
LEMMA EnsureSecretOwns ==
  ASSUME TypeInv, OwnInv, GetSecret \/ ReadSecret \/ WriteSecret \/ DeleteOldSecret
  PROVE  OwnInv'
<1>0. /\ Next /\ job.pc \in EnsurePath /\ UNCHANGED <<log, keys, nextKey>>
      /\ job \in Job /\ job.obj \in Object /\ job.obj.status \in Status
      /\ secrets \in [SecretNames -> Secret]
  BY WorkerFacts
  DEF Next, Step, GetSecret, ReadSecret, WriteSecret, DeleteOldSecret, At,
      EnsurePath, garage, JobOK, EnvOK
<1>1. PICK u, id, s : /\ u = job.obj.uid /\ id = job.obj.status.id
                      /\ s = job.obj.secretName
  OBVIOUS
<1>2. /\ id < nextKey' /\ \A k \in keys' : k.id = id => k.uid = u
      /\ s \in SecretNames
  BY <1>0, <1>1 DEF OwnInv, OwnJob, EnsuresStored, BelongsTo, Object
<1>3. ASSUME job'.name = job.name, job'.obj.uid = u, job'.obj.status.id = id,
             job'.pc \in EnsurePath, ChecksOwner', SecretsOwn'
      PROVE  OwnInv'
  BY <1>0, <1>1, <1>2, <1>3, StayOwn DEF OwnInv, OwnLog
<1>4. ASSUME SecretsOwn',
             \/ \E reason : SecretNotReady(reason)
             \/ SecretWritten
             \/ job' = [job EXCEPT !.pc = "UpdateStatus", !.obj = SecretDone(job.obj)]
      PROVE  OwnInv'
  <2>1. /\ SecretDone(job.obj).uid = u
        /\ SecretDone(job.obj).status.id = id
    BY <1>0, <1>1 DEF SecretDone, Object, Status
  <2>2. /\ job'.name = job.name /\ job'.obj.uid = u
        /\ job'.obj.status.id = id
        /\ job'.pc \in {"UpdateStatus", "DeleteOldSecret"}
    <3>1. CASE \E reason : SecretNotReady(reason)
      BY <1>0, <1>1, <3>1, HelperFacts
    <3>2. CASE SecretWritten
      BY <1>0, <1>1, <3>2, HelperFacts
    <3>3. CASE job' = [job EXCEPT !.pc = "UpdateStatus", !.obj = SecretDone(job.obj)]
      BY <1>0, <2>1, <3>3 DEF Job
    <3> QED
      BY <1>4, <3>1, <3>2, <3>3
  <2>3. ChecksOwner' /\ job'.pc \in EnsurePath
    BY <2>2 DEF ChecksOwner, EnsurePath
  <2> QED
    BY <1>3, <1>4, <2>2, <2>3
<1>5. ASSUME UNCHANGED secrets
      PROVE  SecretsOwn'
  BY <1>0, <1>5, KeepSecrets DEF OwnInv, OwnLog
<1>6. CASE GetSecret
  <2>1. CASE Goto("ReadSecret") /\ (~secrets[s].exists \/ secrets[s].owner = u)
    <3>1. job'.pc = "ReadSecret" /\ job'.name = job.name /\ job'.obj = job.obj
      BY <1>0, <2>1, HelperFacts
    <3>2. UNCHANGED secrets
      BY <1>6 DEF GetSecret
    <3>3. ChecksOwner' /\ job'.pc \in EnsurePath
      BY <1>1, <2>1, <3>1, <3>2 DEF ChecksOwner, EnsurePath
    <3> QED
      BY <1>1, <1>3, <1>5, <3>1, <3>2, <3>3
  <2> QED
    BY <1>1, <1>4, <1>5, <1>6, <2>1 DEF GetSecret, ControlledBy
<1>7. CASE ReadSecret
  <2>1. UNCHANGED secrets /\ job.pc = "ReadSecret"
    BY <1>7 DEF ReadSecret, At
  <2>2. CASE job' = [job EXCEPT !.pc = "WriteSecret", !.sec = secrets[s],
                                !.secCurrent = TRUE]
    <3>1. /\ job'.pc = "WriteSecret" /\ job'.name = job.name /\ job'.obj = job.obj
          /\ job'.sec = secrets[s]
      BY <1>0, <2>2 DEF Job
    <3>2. ChecksOwner' /\ job'.pc \in EnsurePath
      BY <1>1, <2>1, <3>1 DEF ChecksOwner, EnsurePath, OwnInv, OwnJob
    <3> QED
      BY <1>1, <1>3, <1>5, <2>1, <3>1, <3>2
  <2>3. CASE SecretWritten \/ SecretNotReady("Failed")
    BY <1>4, <1>5, <2>1, <2>3
  <2> QED
    BY <1>1, <1>7, <2>2, <2>3 DEF ReadSecret
<1>8. CASE WriteSecret
  <2>1. PICK x : x = IF job.sec.exists THEN job.sec.owner ELSE u
    OBVIOUS
  <2>2. x \in {Foreign, u}
    BY <1>1, <1>8, <2>1 DEF WriteSecret, At, OwnInv, OwnJob, ChecksOwner
  <2>3. \/ secrets' = secrets
        \/ secrets' = [secrets EXCEPT ![s] =
                         [exists |-> TRUE, id |-> id, owner |-> x]]
    BY <1>1, <1>8, <2>1 DEF WriteSecret
  <2>4. \A t \in SecretNames :
          \/ secrets'[t] = secrets[t]
          \/ secrets'[t].id = id /\ secrets'[t].owner = x
    BY <1>0, <2>3
  <2>5. SecretsOwn'
    BY <1>0, <1>2, <2>2, <2>4, KeepSecrets DEF OwnInv, OwnLog
  <2>6. SecretWritten \/ SecretNotReady("Failed")
    BY <1>8 DEF WriteSecret
  <2> QED
    BY <1>4, <2>5, <2>6
<1>9. CASE DeleteOldSecret
  <2>1. \/ secrets' = secrets
        \/ secrets' = [secrets EXCEPT ![job.obj.status.secretName] = NoSecret]
    BY <1>9 DEF DeleteOldSecret
  <2>2. \A t \in SecretNames : secrets'[t] = secrets[t] \/ ~secrets'[t].exists
    BY <1>0, <2>1 DEF NoSecret
  <2>3. SecretsOwn'
    BY <1>0, <2>2, KeepSecrets DEF OwnInv, OwnLog
  <2> QED
    BY <1>4, <1>9, <2>3 DEF DeleteOldSecret
<1> QED
  BY <1>6, <1>7, <1>8, <1>9
\* The worker reads an AccessKey, or adds its finalizer.
LEMMA BeginOwns ==
  ASSUME TypeInv, OwnInv, Get \/ AddFinalizer
  PROVE  OwnInv'
<1>0. /\ Next /\ job \in Job /\ job.name \in Names /\ log \in Log
      /\ UNCHANGED <<secrets, keys, nextKey>>
  BY WorkerFacts
  DEF Next, Step, Get, AddFinalizer, At, JobOK, garage
<1>1. SecretsOwn' /\ IDsApart'
  BY <1>0, KeepSecrets, KeysStayApart DEF OwnInv, OwnLog
<1>2. PICK r \in Names : r = job.name
  BY <1>0
<1>3. /\ 1 \in Index(r) /\ cached(r) = log[r][1] /\ Last(r) \in Index(r)
      /\ stored(r) = log[r][Last(r)]
      /\ cached(r) \in Version /\ stored(r) \in Version
  BY <1>0, IndexFacts, LogFacts
<1>4. ASSUME NEW o \in Object, NEW c \in BOOLEAN, BeginReconcile(o, c),
             BelongsTo(o.status.id, o.uid),
             stored(r)' # NoObject, stored(r)'.uid = o.uid, stored(r)'.finalizer
      PROVE  OwnJob'
  <2>1. /\ job'.name = r /\ job'.obj = o
        /\ job'.pc \in {"UpdateStatus", "GetKey", "LookupKey"}
    BY <1>0, <1>2, <1>4 DEF BeginReconcile, Job
  <2>2. EnsuresStored'
    BY <1>0, <1>4, <2>1 DEF EnsuresStored, BelongsTo
  <2>3. ChecksOwner' /\ NothingOlder'
    BY <2>1 DEF ChecksOwner, NothingOlder, DeletePath
  <2> QED
    BY <2>2, <2>3 DEF OwnJob
<1>5. job' = Idle => OwnJob'
  BY NothingHeld DEF Idle, EnsurePath, DeletePath
<1>6. CASE Get
  <2>1. UNCHANGED log
    BY <1>6 DEF Get
  <2>2. \A m \in Names : NoneWritten(m)
    BY <2>1 DEF NoneWritten, stored, Index
  <2>3. Held' /\ VersionsOwn'
    BY <1>0, <2>2, KeepVersions DEF NoneWritten, OwnInv, OwnLog
  <2>4. PICK o : o = cached(r)
    OBVIOUS
  <2>5. PICK c : c = fresh(r)
    OBVIOUS
  <2>6. c \in BOOLEAN
    BY <2>5 DEF fresh
  <2>7. ASSUME o # NoObject, o.deleting,
               job' = [job EXCEPT !.obj = o, !.current = c,
                         !.ext = o.status.id,
                         !.pc = IF o.status.id # NoID THEN "DeleteKey"
                                ELSE "LookupForDelete"]
        PROVE  OwnJob'
    <3>1. /\ job'.name = r /\ job'.current = c
          /\ job'.pc \in {"DeleteKey", "LookupForDelete"}
      BY <1>0, <1>2, <2>7 DEF Job
    <3>2. EnsuresStored' /\ ChecksOwner'
      BY <3>1 DEF EnsuresStored, ChecksOwner, EnsurePath
    <3>3. ASSUME c, NEW i \in Index(r)
          PROVE  log[r][i].deleting
      <4>1. Len(log[r]) = 1
        BY <2>5, <3>3 DEF fresh
      <4>2. i \in 1 .. 1
        BY <3>3, <4>1 DEF Index
      <4>3. i = 1
        BY <4>2
      <4> QED
        BY <1>3, <2>4, <2>7, <4>3
    <3>4. NothingOlder'
      BY <2>1, <3>1, <3>3 DEF NothingOlder, Exists, Index
    <3> QED
      BY <3>2, <3>4 DEF OwnJob
  <2>8. ASSUME Goto("AddFinalizer")
        PROVE  OwnJob'
    <3>1. job'.pc = "AddFinalizer"
      BY <1>0, <2>8 DEF Goto, Job
    <3> QED
      BY <3>1, NothingHeld DEF EnsurePath, DeletePath
  <2>9. ASSUME o # NoObject, ~o.deleting, o.finalizer, BeginReconcile(o, c)
        PROVE  OwnJob'
    <3>1. o \in Object /\ BelongsTo(o.status.id, o.uid)
      BY <1>3, <2>4, <2>9 DEF Version, OwnInv, OwnLog, VersionsOwn, Exists
    <3>2. stored(r) # NoObject /\ stored(r).uid = o.uid /\ stored(r).finalizer
      BY <1>3, <2>4, <2>9 DEF OwnInv, OwnLog, Held, Exists
    <3> QED
      BY <1>4, <2>1, <2>6, <2>9, <3>1, <3>2 DEF stored
  <2>10. OwnJob'
    BY <1>2, <1>5, <1>6, <2>4, <2>5, <2>7, <2>8, <2>9 DEF Get, Return
  <2> QED
    BY <1>1, <2>3, <2>10 DEF OwnInv, OwnLog
<1>7. CASE AddFinalizer
  <2> DEFINE v == [stored(r) EXCEPT !.finalizer = TRUE]
  <2>1. CASE UNCHANGED log /\ job' = Idle
    <3>1. \A m \in Names : NoneWritten(m)
      BY <2>1 DEF NoneWritten, stored, Index
    <3>2. Held' /\ VersionsOwn'
      BY <1>0, <3>1, KeepVersions DEF NoneWritten, OwnInv, OwnLog
    <3> QED
      BY <1>1, <1>5, <2>1, <3>2 DEF OwnInv, OwnLog
  <2>2. ASSUME stored(r) # NoObject
        PROVE  /\ v \in Object /\ v.finalizer /\ v.uid = stored(r).uid
               /\ v.status = stored(r).status /\ Follows(r, v)
               /\ BelongsTo(v.status.id, v.uid)
    <3>1. stored(r) \in Object
      BY <1>3, <2>2 DEF Version
    <3>2. /\ v \in Object /\ v.finalizer /\ v.uid = stored(r).uid
          /\ v.status = stored(r).status
      BY <3>1 DEF Object
    <3>3. BelongsTo(stored(r).status.id, stored(r).uid)
      BY <1>3, <2>2 DEF OwnInv, OwnLog, VersionsOwn, Exists
    <3> QED
      BY <2>2, <3>2, <3>3 DEF Follows
  <2>3. CASE stored(r) # NoObject /\ Store(r, v)
    <3>1. PICK w \in Object :
            /\ Store(r, w) /\ w.finalizer /\ Follows(r, w) /\ w = v
            /\ BelongsTo(w.status.id, w.uid)
      BY <2>2, <2>3
    <3>2. Held' /\ VersionsOwn'
      <4>1. BelongsTo(w.status.id, w.uid)'
        BY <1>0, <3>1 DEF BelongsTo
      <4> QED
        BY <1>0, <3>1, <4>1, WriteVersions DEF OwnInv, OwnLog, Version
    <3>3. stored(r)' = w /\ w # NoObject
      BY <1>0, <3>1, StoreFacts, NoObjectAssumption DEF Version
    <3>4. OwnJob'
      BY <1>2, <1>4, <1>5, <1>7, <3>1, <3>3 DEF AddFinalizer, Return
    <3> QED
      BY <1>1, <3>2, <3>4 DEF OwnInv, OwnLog
  <2> QED
    BY <1>2, <1>7, <2>1, <2>3 DEF AddFinalizer, Return
<1> QED
  BY <1>6, <1>7

\* The worker writes the status, deletes the key or removes the finalizer.
LEMMA EndOwns ==
  ASSUME TypeInv, OwnInv,
         UpdateStatus \/ LookupForDelete \/ DeleteKey \/ RemoveFinalizer
  PROVE  OwnInv'
<1>0. /\ Next /\ job \in Job /\ job.name \in Names /\ log \in Log
      /\ UNCHANGED secrets /\ job.obj \in Object /\ job.obj.status \in Status
  BY WorkerFacts
  DEF Next, Step, UpdateStatus, LookupForDelete, DeleteKey, RemoveFinalizer,
      At, JobOK, EnsurePath, DeletePath
<1>1. SecretsOwn' /\ IDsApart'
  BY <1>0, KeepSecrets, KeysStayApart DEF OwnInv, OwnLog
<1>2. PICK r \in Names : r = job.name
  BY <1>0
<1>3. ASSUME UNCHANGED log, OwnJob'
      PROVE  OwnInv'
  <2>1. \A m \in Names : NoneWritten(m)
    BY <1>3 DEF NoneWritten, stored, Index
  <2> QED
    BY <1>0, <1>1, <1>3, <2>1, KeepVersions DEF NoneWritten, OwnInv, OwnLog
<1>4. job' = Idle => OwnJob'
  BY NothingHeld DEF Idle, EnsurePath, DeletePath
<1>5. ASSUME NEW v \in Version, Store(r, v), Follows(r, v), job' = Idle,
             v # NoObject => BelongsTo(v.status.id, v.uid), UNCHANGED <<keys, nextKey>>
      PROVE  OwnInv'
  <2>1. v # NoObject => BelongsTo(v.status.id, v.uid)'
    BY <1>5 DEF BelongsTo
  <2> QED
    BY <1>0, <1>1, <1>4, <1>5, <2>1, WriteVersions DEF OwnInv, OwnLog
<1>6. CASE UpdateStatus
  <2> DEFINE st == UpdateAccessKeyCondition(job.obj)
             v  == [stored(r) EXCEPT !.status = st]
  <2>1. job' = Idle /\ UNCHANGED <<keys, nextKey>>
    BY <1>6 DEF UpdateStatus, Return, garage
  <2>2. UNCHANGED log \/ Store(r, v)
    BY <1>2, <1>6 DEF UpdateStatus
  <2>3. st \in Status /\ st.id = job.obj.status.id
    BY <1>0 DEF UpdateAccessKeyCondition, Object, Status
  <2>4. /\ stored(r) # NoObject /\ stored(r).uid = job.obj.uid
        /\ BelongsTo(job.obj.status.id, job.obj.uid)
    BY <1>2, <1>6 DEF UpdateStatus, At, EnsurePath, OwnInv, OwnJob, EnsuresStored
  <2>5. stored(r) \in Object
    BY <1>0, <2>4, LogFacts DEF Version
  <2>6. /\ v \in Object /\ v.uid = stored(r).uid /\ v.status = st
        /\ v.finalizer = stored(r).finalizer
    BY <2>3, <2>5 DEF Object
  <2>7. Follows(r, v) /\ BelongsTo(v.status.id, v.uid)
    BY <2>3, <2>4, <2>6 DEF Follows
  <2> HIDE DEF v
  <2> QED
    BY <1>3, <1>4, <1>5, <2>1, <2>2, <2>6, <2>7 DEF Version
<1>7. ASSUME UNCHANGED log, job.pc \in DeletePath, job'.pc \in DeletePath,
             job'.name = job.name, job'.current = job.current
      PROVE  OwnInv'
  <2>1. EnsuresStored' /\ ChecksOwner'
    BY <1>7 DEF EnsuresStored, ChecksOwner, EnsurePath, DeletePath
  <2>2. NothingOlder'
    BY <1>7 DEF NothingOlder, OwnInv, OwnJob, Exists, Index
  <2> QED
    BY <1>3, <1>7, <2>1, <2>2 DEF OwnJob
<1>8. CASE LookupForDelete
  <2>1. job.pc \in DeletePath /\ UNCHANGED log
    BY <1>8 DEF LookupForDelete, At, DeletePath
  <2>2. ASSUME NEW k, job' = [job EXCEPT !.ext = k.id, !.pc = "DeleteKey"]
        PROVE  OwnInv'
    <3>1. /\ job'.name = job.name /\ job'.current = job.current
          /\ job'.pc = "DeleteKey"
      BY <1>0, <2>2 DEF Job
    <3> QED
      BY <1>7, <2>1, <3>1 DEF DeletePath
  <2>3. CASE Goto("RemoveFinalizer")
    <3>1. /\ job'.name = job.name /\ job'.current = job.current
          /\ job'.pc = "RemoveFinalizer"
      BY <1>0, <2>3 DEF Goto, Job
    <3> QED
      BY <1>7, <2>1, <3>1 DEF DeletePath
  <2> QED
    BY <1>3, <1>4, <1>8, <2>1, <2>2, <2>3 DEF LookupForDelete, Return
<1>9. CASE DeleteKey
  <2>1. job.pc \in DeletePath /\ UNCHANGED log
    BY <1>9 DEF DeleteKey, At, DeletePath
  <2>2. CASE Goto("RemoveFinalizer")
    <3>1. /\ job'.name = job.name /\ job'.current = job.current
          /\ job'.pc = "RemoveFinalizer"
      BY <1>0, <2>2 DEF Goto, Job
    <3> QED
      BY <1>7, <2>1, <3>1 DEF DeletePath
  <2> QED
    BY <1>3, <1>4, <1>9, <2>1, <2>2 DEF DeleteKey, Return
<1>10. CASE RemoveFinalizer
  <2>1. job' = Idle /\ UNCHANGED <<keys, nextKey>>
    BY <1>10 DEF RemoveFinalizer, Return, garage
  <2>2. UNCHANGED log \/ (job.current /\ Store(r, NoObject))
    BY <1>2, <1>10 DEF RemoveFinalizer, OptimisticLock
  <2>3. job.current => Follows(r, NoObject)
    BY <1>2, <1>10
    DEF RemoveFinalizer, At, DeletePath, OwnInv, OwnJob, NothingOlder, Follows
  <2> QED
    BY <1>3, <1>4, <1>5, <2>1, <2>2, <2>3 DEF Version
<1> QED
  BY <1>6, <1>8, <1>9, <1>10

-----------------------------------------------------------------------------

LEMMA InitOwn == Init => OwnInv
<1> SUFFICES ASSUME Init PROVE OwnInv
  OBVIOUS
<1>1. \A n \in Names : \A i \in Index(n) : ~Exists(n, i)
  BY DEF Init, KubeInit, Exists, Index
<1>2. OwnLog
  BY <1>1 DEF Init, OwnLog, IDsApart, Held, VersionsOwn, SecretsOwn, NoSecret
<1>3. OwnJob
  BY DEF Init, Idle, OwnJob, EnsuresStored, ChecksOwner, NothingOlder,
         EnsurePath, DeletePath
<1> QED
  BY <1>2, <1>3 DEF OwnInv

LEMMA NextOwn == TypeInv /\ OwnInv /\ [Next]_vars => OwnInv'
<1> SUFFICES ASSUME TypeInv, OwnInv, [Next]_vars PROVE OwnInv'
  OBVIOUS
<1>1. CASE UNCHANGED vars
  <2>1. OwnLog'
    BY <1>1 DEF vars, garage, OwnInv, OwnLog, IDsApart, Held, VersionsOwn,
                SecretsOwn, BelongsTo, Exists, Index, stored
  <2>2. OwnJob'
    BY <1>1 DEF vars, garage, OwnInv, OwnJob, EnsuresStored, ChecksOwner,
                NothingOlder, BelongsTo, Exists, Index, stored
  <2> QED
    BY <2>1, <2>2 DEF OwnInv
<1>2. CASE Step
  BY <1>2, BeginOwns, EnsureKeyOwns, EnsureSecretOwns, EndOwns DEF Step
<1> QED
  BY <1>1, <1>2, WorldOwns DEF Next, World

\* Every copy of an ID, in a status, with the worker or in a Secret, stays with
\* the AccessKey the key was created for, whatever others do.
THEOREM OwnInvariant == Spec => []OwnInv
BY InitOwn, NextOwn, TypeCorrect, PTL DEF Spec

\* A Secret that one AccessKey controls never holds the credentials of another,
\* for any number of AccessKeys that name the same Secret, and although others
\* delete keys and create and delete Secrets between any two calls.
THEOREM OwnCredentialsOnly == Spec => []SecretsHoldOwnersKey
<1>1. OwnInv => SecretsHoldOwnersKey
  BY DEF OwnInv, OwnLog, SecretsOwn, BelongsTo, SecretsHoldOwnersKey
<1> QED
  BY <1>1, OwnInvariant, PTL
-----------------------------------------------------------------------------
(* What Ready promises, and credentials that stay available.                *)

\* The recorded key exists, and the Secret of the spec holds it.
Usable(o) ==
  /\ [id |-> o.status.id, uid |-> o.uid] \in keys
  /\ secrets[o.secretName] =
       [exists |-> TRUE, owner |-> o.uid, id |-> o.status.id]

\* Some Secret of the AccessKey holds its key.
Available(uid) ==
  \E s \in SecretNames, k \in keys :
    k.uid = uid /\ secrets[s] = [exists |-> TRUE, owner |-> uid, id |-> k.id]

\* A Secret was delivered and recorded.
Delivered(o) == o.status.secretName # NoName

\* The conditions of a status go together.
StatusOK(o) ==
  /\ o.status.og <= o.gen
  /\ o.status.secret = "True" => Delivered(o)
  /\ Delivered(o) => o.status.id # NoID

\* A later version has the same spec or a greater generation.
SpecFollows(o, p) ==
  /\ o.gen <= p.gen
  /\ o.gen = p.gen => o.secretName = p.secretName /\ o.deleting = p.deleting

Statuses ==
  \A n \in Names : \A i \in Index(n) : Exists(n, i) => StatusOK(log[n][i])

SpecsFollow ==
  \A n \in Names : \A h, i \in Index(n) :
    /\ h <= i /\ Exists(n, h) /\ Exists(n, i)
    /\ log[n][h].uid = log[n][i].uid
    => SpecFollows(log[n][h], log[n][i])

\* A status is only written when the cache is up to date: what the cache
\* holds has the finalizer too, and the generation a report of Ready is about.
Pinned ==
  \A n \in Names : \A i \in Index(n) :
    Exists(n, i) /\ Delivered(log[n][i]) =>
      \A h \in 1 .. i :
        /\ Exists(n, h) /\ log[n][h].uid = log[n][i].uid /\ log[n][h].finalizer
        /\ ClaimsReady(log[n][i]) => log[n][h].gen = log[n][i].gen

\* What every version between cache and API server says is true.
ReportsTrue ==
  \A n \in Names : \A i \in Index(n) :
    Exists(n, i) =>
      /\ ClaimsReady(log[n][i]) => Usable(log[n][i])
      /\ Delivered(log[n][i]) /\ ~log[n][i].deleting => Available(log[n][i].uid)

\* What the worker's version has to do with the versions of the log.
Following ==
  /\ job.pc \in EnsurePath =>
       /\ StatusOK(job.obj)
       /\ SpecFollows(job.obj, stored(job.name))
       /\ Delivered(job.obj) => Available(job.obj.uid)
       /\ \A i \in Index(job.name) :
            ClaimsReady(log[job.name][i]) =>
              /\ log[job.name][i].uid = job.obj.uid
              /\ log[job.name][i].secretName = job.obj.secretName
  /\ job.pc = "AddFinalizer" =>
       \A i \in Index(job.name) :
         Exists(job.name, i) => ~Delivered(log[job.name][i])
  /\ job.pc = "WriteSecret" =>
       \A i \in Index(job.name) : ~ClaimsReady(log[job.name][i])

\* How far the worker is with the key and the Secret.
Delivering ==
  /\ job.pc \in {"GetSecret", "ReadSecret", "WriteSecret", "DeleteOldSecret"} =>
       [id |-> job.obj.status.id, uid |-> job.obj.uid] \in keys
  /\ job.pc \in {"ReadSecret", "WriteSecret"} /\ secrets[job.obj.secretName].exists =>
       secrets[job.obj.secretName].owner = job.obj.uid
  /\ job.pc = "WriteSecret" /\ job.sec.exists => job.sec.owner = job.obj.uid
  /\ job.pc = "DeleteOldSecret" =>
       /\ Usable(job.obj)
       /\ Delivered(job.obj) /\ job.obj.status.secretName # job.obj.secretName
  /\ job.pc = "UpdateStatus" /\ Ready(job.obj.status) => Usable(job.obj)

\* cleanupOldSecret does not ask who controls the Secret it deletes: while it
\* is about to, no other AccessKey has taken that name.
NoSharedSecret ==
  job.pc = "DeleteOldSecret" =>
    LET s == secrets[job.obj.status.secretName] IN
    s.exists => s.owner = job.obj.uid

ReadyLog == Statuses /\ SpecsFollow /\ Pinned /\ ReportsTrue
ReadyJob == Following /\ Delivering
ReadyInv == ReadyLog /\ ReadyJob

\* With one name for AccessKeys: a recorded Secret is nobody else's.
RecordsOwnSecret(o) ==
  Delivered(o) /\ secrets[o.status.secretName].exists =>
    secrets[o.status.secretName].owner = o.uid

RecordedLog ==
  \A n \in Names : \A i \in Index(n) :
    /\ Exists(n, i) /\ stored(n) # NoObject
    /\ log[n][i].uid = stored(n).uid
    => RecordsOwnSecret(log[n][i])

RecordedOwn ==
  /\ RecordedLog
  /\ job.pc \in EnsurePath => RecordsOwnSecret(job.obj)
-----------------------------------------------------------------------------
(* How a step changes the logs, and what Ready has to do with it.           *)

\* Events are delivered, or everything is listed.
LEMMA DropReady ==
  ASSUME TypeInv, ReadyLog, NEW d \in [Names -> Nat], Dropped(d), log' \in Log,
         UNCHANGED <<keys, secrets>>
  PROVE  ReadyLog'
<1>0. /\ \A n \in Names : d[n] \in Nat
      /\ \A n \in Names : \A i \in Index(n)' :
           /\ i \in Nat /\ i + d[n] \in Index(n)
           /\ log'[n][i] = log[n][i + d[n]]
  BY IndexFacts DEF Dropped, Index
<1>1. Statuses'
  BY <1>0 DEF ReadyLog, Statuses, Exists
<1>2. SpecsFollow'
  <2> SUFFICES ASSUME NEW n \in Names, NEW h \in Index(n)', NEW i \in Index(n)',
                      h <= i, Exists(n, h)', Exists(n, i)',
                      log'[n][h].uid = log'[n][i].uid
               PROVE  SpecFollows(log'[n][h], log'[n][i])
    BY DEF SpecsFollow
  <2>1. h + d[n] <= i + d[n]
    BY <1>0
  <2> QED
    BY <1>0, <2>1 DEF ReadyLog, SpecsFollow, Exists
<1>3. Pinned'
  <2> SUFFICES ASSUME NEW n \in Names, NEW i \in Index(n)', NEW h \in 1 .. i,
                      Exists(n, i)', Delivered(log'[n][i])
               PROVE  /\ Exists(n, h)' /\ log'[n][h].uid = log'[n][i].uid
                      /\ log'[n][h].finalizer
                      /\ ClaimsReady(log'[n][i]) => log'[n][h].gen = log'[n][i].gen
    BY DEF Pinned
  <2>1. h \in Index(n)'
    BY DEF Index
  <2>2. h + d[n] \in 1 .. (i + d[n])
    BY <1>0, <2>1, Shifted
  <2>3. PICK j \in Index(n) : j = i + d[n]
    BY <1>0
  <2>4. Exists(n, j) /\ Delivered(log[n][j]) /\ log'[n][i] = log[n][j]
    BY <1>0, <2>3 DEF Exists
  <2>5. \A g \in 1 .. j :
          /\ Exists(n, g) /\ log[n][g].uid = log[n][j].uid /\ log[n][g].finalizer
          /\ ClaimsReady(log[n][j]) => log[n][g].gen = log[n][j].gen
    BY <2>4 DEF ReadyLog, Pinned
  <2> QED
    BY <1>0, <2>1, <2>2, <2>3, <2>4, <2>5 DEF Exists
<1>4. ReportsTrue'
  <2> SUFFICES ASSUME NEW n \in Names, NEW i \in Index(n)', Exists(n, i)'
               PROVE  /\ ClaimsReady(log'[n][i]) => Usable(log'[n][i])
                      /\ Delivered(log'[n][i]) /\ ~log'[n][i].deleting =>
                           Available(log'[n][i].uid)
    BY DEF ReportsTrue, Usable, Available
  <2>1. PICK j \in Index(n) : log'[n][i] = log[n][j]
    BY <1>0
  <2> QED
    BY <2>1 DEF ReadyLog, ReportsTrue, Exists
<1> QED
  BY <1>1, <1>2, <1>3, <1>4 DEF ReadyLog

\* A version was written to object n: of the same AccessKey with a status that
\* is as good as what it says, of a new AccessKey, or none.
Reports(n, v) ==
  \/ /\ v \in Object /\ stored(n) # NoObject
     /\ v.uid = stored(n).uid
     /\ StatusOK(v) /\ SpecFollows(stored(n), v)
     /\ Delivered(v) =>
          /\ v.finalizer
          /\ \/ Delivered(stored(n)) /\ ~ClaimsReady(v)
             \/ /\ fresh(n) /\ stored(n).finalizer
                /\ ClaimsReady(v) => v.gen = stored(n).gen
     /\ ClaimsReady(v) => Usable(v)
     /\ Delivered(v) /\ ~v.deleting => Available(v.uid)
  \/ /\ v \in Object /\ stored(n) = NoObject
     /\ v.uid = nextUID
     /\ StatusOK(v) /\ ~Delivered(v) /\ ~ClaimsReady(v)
  \/ v = NoObject

LEMMA SpecFollowsOn ==
  ASSUME NEW o \in Object, NEW p \in Object, NEW q \in Object,
         SpecFollows(o, p), SpecFollows(p, q)
  PROVE  SpecFollows(o, q)
BY DEF SpecFollows, Object

LEMMA WriteReady ==
  ASSUME TypeInv, LogInv, ReadyLog, NEW n \in Names, NEW v \in Version,
         Store(n, v), Reports(n, v), UNCHANGED <<keys, secrets>>
  PROVE  ReadyLog'
<1>0. /\ log \in Log /\ log' \in Log /\ nextUID \in Nat
  BY WorkerFacts, StoreFacts DEF EnvOK
<1>1. \A m \in Names : /\ 1 \in Index(m) /\ Last(m) \in Index(m)
                       /\ stored(m) = log[m][Last(m)]
                       /\ \A i \in Index(m) :
                            /\ i \in Nat /\ 1 <= i /\ i <= Last(m)
                            /\ \A h \in 1 .. i : h \in Index(m) /\ h <= i
  BY <1>0, IndexFacts
<1>2. \A m \in Names : \A i \in Index(m)' :
        \/ i \in Index(m) /\ log'[m][i] = log[m][i]
        \/ /\ m = n /\ log'[m][i] = v /\ i = Last(n)'
           /\ \A h \in Index(n) : h < i
  BY <1>0, StoreView
<1>3. \A m \in Names : \A i \in Index(m) :
        i \in Index(m)' /\ log'[m][i] = log[m][i]
  BY <1>0, StoreView
<1>4. \A m \in Names : \A i \in Index(m)' :
        i \in Nat /\ \A h \in 1 .. i : h \in Index(m)' /\ h <= i
  BY <1>0, IndexFacts DEF Index
<1>5. \A m \in Names : \A i \in Index(m) :
        log[m][i] \in Version /\ (Exists(m, i) => log[m][i] \in Object)
  BY <1>0, LogFacts DEF Version, Exists
<1>6. v # NoObject => v \in Object
  BY DEF Version
<1>7. Statuses'
  <2> SUFFICES ASSUME NEW m \in Names, NEW i \in Index(m)', Exists(m, i)'
               PROVE  StatusOK(log'[m][i])
    BY DEF Statuses
  <2> QED
    BY <1>2 DEF ReadyLog, Statuses, Exists, Reports
<1>8. SpecsFollow'
  <2> SUFFICES ASSUME NEW m \in Names, NEW h \in Index(m)', NEW i \in Index(m)',
                      h <= i, Exists(m, h)', Exists(m, i)',
                      log'[m][h].uid = log'[m][i].uid
               PROVE  SpecFollows(log'[m][h], log'[m][i])
    BY DEF SpecsFollow
  <2>0. h \in Nat /\ i \in Nat
    BY <1>4
  <2>1. CASE i \in Index(m) /\ log'[m][i] = log[m][i]
    <3>1. h \in Index(m)
      <4>1. h \in 1 .. i
        BY <2>0, <1>4 DEF Index
      <4> QED
        BY <1>1, <2>1, <4>1
    <3> QED
      BY <1>3, <2>1, <3>1 DEF ReadyLog, SpecsFollow, Exists
  <2>2. CASE m = n /\ log'[m][i] = v /\ \A g \in Index(n) : g < i
    <3>1. CASE h \in Index(n) /\ log'[n][h] = log[n][h]
      <4>1. /\ Exists(n, h) /\ log[n][h].uid = v.uid
            /\ v \in Object /\ v # NoObject
        BY <1>6, <2>2, <3>1 DEF Exists
      <4>2. log[n][h].uid < nextUID
        BY <3>1, <4>1 DEF LogInv, UIDsApart
      <4>3. stored(n) # NoObject /\ v.uid = stored(n).uid /\ SpecFollows(stored(n), v)
        BY <1>0, <4>1, <4>2 DEF Reports
      <4>4. SpecFollows(log[n][h], stored(n))
        BY <1>1, <3>1, <4>1, <4>3 DEF ReadyLog, SpecsFollow, Exists
      <4>5. log[n][h] \in Object /\ stored(n) \in Object
        BY <1>1, <1>5, <3>1, <4>1, <4>3 DEF Exists
      <4> QED
        BY <2>2, <3>1, <4>1, <4>3, <4>4, <4>5, SpecFollowsOn
    <3>2. CASE log'[n][h] = v
      <4>1. v.gen \in Nat
        BY <1>6, <2>2 DEF Exists, Object
      <4>2. SpecFollows(v, v)
        BY <4>1 DEF SpecFollows
      <4> QED
        BY <2>2, <3>2, <4>2
    <3> QED
      BY <1>2, <2>2, <3>1, <3>2
  <2> QED
    BY <1>2, <2>1, <2>2
<1>9. Pinned'
  <2> SUFFICES ASSUME NEW m \in Names, NEW i \in Index(m)', NEW h \in 1 .. i,
                      Exists(m, i)', Delivered(log'[m][i])
               PROVE  /\ Exists(m, h)' /\ log'[m][h].uid = log'[m][i].uid
                      /\ log'[m][h].finalizer
                      /\ ClaimsReady(log'[m][i]) => log'[m][h].gen = log'[m][i].gen
    BY DEF Pinned
  <2>1. h \in Index(m)'
    BY <1>4
  <2>2. CASE i \in Index(m) /\ log'[m][i] = log[m][i]
    <3>1. h \in Index(m) /\ log'[m][h] = log[m][h]
      BY <1>1, <1>3, <2>2
    <3> QED
      BY <2>2, <3>1 DEF ReadyLog, Pinned, Exists
  <2>3. CASE m = n /\ log'[m][i] = v /\ i = Last(n)'
    <3>1. /\ v # NoObject /\ Delivered(v) /\ v.finalizer
          /\ stored(n) # NoObject /\ v.uid = stored(n).uid
          /\ \/ Delivered(stored(n)) /\ ~ClaimsReady(v)
             \/ /\ fresh(n) /\ stored(n).finalizer
                /\ ClaimsReady(v) => v.gen = stored(n).gen
      BY <2>3, NoObjectAssumption DEF Reports, Exists
    <3>2. CASE log'[n][h] = v
      BY <2>3, <3>1, <3>2 DEF Exists
    <3>3. CASE h \in Index(n) /\ log'[n][h] = log[n][h]
      <4>1. CASE Delivered(stored(n)) /\ ~ClaimsReady(v)
        <5>1. h \in 1 .. Last(n)
          BY <1>1, <3>3
        <5>2. Exists(n, h) /\ log[n][h].uid = stored(n).uid /\ log[n][h].finalizer
          BY <1>1, <3>1, <4>1, <5>1 DEF ReadyLog, Pinned, Exists
        <5> QED
          BY <2>3, <3>1, <3>3, <4>1, <5>2 DEF Exists
      <4>2. CASE /\ fresh(n) /\ stored(n).finalizer
                 /\ ClaimsReady(v) => v.gen = stored(n).gen
        <5>1. Last(n) = 1
          BY <4>2 DEF fresh, Last
        <5>2. h = 1
          BY <1>1, <3>3, <5>1
        <5>3. log[n][h] = stored(n)
          BY <1>1, <5>1, <5>2
        <5> QED
          BY <2>3, <3>1, <3>3, <4>2, <5>3 DEF Exists
      <4> QED
        BY <3>1, <4>1, <4>2
    <3> QED
      BY <1>2, <2>1, <2>3, <3>2, <3>3
  <2> QED
    BY <1>2, <2>2, <2>3
<1>10. ReportsTrue'
  <2> SUFFICES ASSUME NEW m \in Names, NEW i \in Index(m)', Exists(m, i)'
               PROVE  /\ ClaimsReady(log'[m][i]) => Usable(log'[m][i])
                      /\ Delivered(log'[m][i]) /\ ~log'[m][i].deleting =>
                           Available(log'[m][i].uid)
    BY DEF ReportsTrue, Usable, Available
  <2>1. CASE i \in Index(m) /\ log'[m][i] = log[m][i]
    BY <2>1 DEF ReadyLog, ReportsTrue, Exists
  <2>2. CASE m = n /\ log'[m][i] = v
    BY <2>2 DEF Reports, Exists
  <2> QED
    BY <1>2, <2>1, <2>2
<1> QED
  BY <1>7, <1>8, <1>9, <1>10 DEF ReadyLog
-----------------------------------------------------------------------------
(* The rest of the world, if it leaves keys and Secrets alone.              *)

LEMMA NothingInHand ==
  ASSUME job'.pc \notin EnsurePath \cup {"AddFinalizer"}
  PROVE  ReadyJob'
BY DEF ReadyJob, Following, Delivering, EnsurePath

\* Nothing is written: the worker relies on what it relied on.
LEMMA SameReadyJob ==
  ASSUME TypeInv, ReadyJob, UNCHANGED <<keys, secrets>>,
         job'.pc = job.pc, job'.name = job.name, job'.obj = job.obj,
         job'.sec = job.sec, \A n \in Names : NoneWritten(n)
  PROVE  ReadyJob'
<1>1. PICK r : r = job.name
  OBVIOUS
<1>2. job.pc \in EnsurePath \cup {"AddFinalizer"} => r \in Names
  BY <1>1, WorkerFacts DEF EnsurePath
<1>3. Following'
  BY <1>1, <1>2 DEF ReadyJob, Following, NoneWritten, Available, Exists, EnsurePath
<1>4. Delivering'
  BY DEF ReadyJob, Delivering, Usable
<1> QED
  BY <1>3, <1>4 DEF ReadyJob

\* A user writes an AccessKey.
LEMMA WriteReadyJob ==
  ASSUME TypeInv, WorkerInv, ReadyJob, NEW n \in Names, NEW v \in Version,
         ObjectWritten(n, v), UNCHANGED <<keys, secrets>>,
         ~ClaimsReady(v),
         v # NoObject /\ Delivered(v) => stored(n) # NoObject /\ Delivered(stored(n)),
         stored(n) # NoObject /\ stored(n).finalizer =>
           v \in Object /\ SpecFollows(stored(n), v)
  PROVE  ReadyJob'
<1>0. /\ job \in Job /\ log \in Log /\ log' \in Log /\ Store(n, v)
      /\ job.pc \in EnsurePath => job.obj \in Object
  BY WorkerFacts, StoreFacts DEF JobOK, ObjectWritten
<1>1. /\ job'.pc = job.pc /\ job'.name = job.name /\ job'.obj = job.obj
      /\ job'.sec = job.sec
  BY <1>0 DEF ObjectWritten, Job
<1>2. PICK r : r = job.name
  OBVIOUS
<1>3. job.pc \in EnsurePath \cup {"AddFinalizer"} => r \in Names
  BY <1>2, WorkerFacts DEF EnsurePath
<1>4. /\ \A m \in Names : stored(m)' = IF m = n THEN v ELSE stored(m)
      /\ \A m \in Names : \A i \in Index(m)' :
           \/ i \in Index(m) /\ log'[m][i] = log[m][i]
           \/ m = n /\ log'[m][i] = v
  BY <1>0, StoreView
<1>5. ASSUME job.pc \in EnsurePath
      PROVE  SpecFollows(job.obj, stored(r)')
  <2>1. /\ stored(r) # NoObject /\ stored(r).finalizer
        /\ SpecFollows(job.obj, stored(r))
    BY <1>2, <1>5 DEF WorkerInv, Ensuring, ReadyJob, Following
  <2>2. CASE r # n
    BY <1>3, <1>4, <1>5, <2>1, <2>2
  <2>3. CASE r = n
    <3>1. stored(n) \in Object /\ v \in Object /\ SpecFollows(stored(n), v)
      BY <1>0, <2>1, <2>3, LogFacts DEF Version
    <3> QED
      BY <1>0, <1>4, <1>5, <2>1, <2>3, <3>1, SpecFollowsOn
  <2> QED
    BY <2>2, <2>3
<1>6. ASSUME job.pc \in EnsurePath
      PROVE  /\ StatusOK(job.obj)
             /\ Delivered(job.obj) => Available(job.obj.uid)'
             /\ \A i \in Index(r)' : ClaimsReady(log'[r][i]) =>
                  /\ log'[r][i].uid = job.obj.uid
                  /\ log'[r][i].secretName = job.obj.secretName
  <2>1. /\ StatusOK(job.obj)
        /\ Delivered(job.obj) => Available(job.obj.uid)
        /\ \A i \in Index(r) : ClaimsReady(log[r][i]) =>
             /\ log[r][i].uid = job.obj.uid
             /\ log[r][i].secretName = job.obj.secretName
    BY <1>2, <1>6 DEF ReadyJob, Following
  <2>2. Delivered(job.obj) => Available(job.obj.uid)'
    BY <1>1, <2>1 DEF Available
  <2> QED
    BY <1>3, <1>4, <1>6, <2>1, <2>2
<1>7. ASSUME job.pc = "AddFinalizer", NEW i \in Index(r)', Exists(r, i)'
      PROVE  ~Delivered(log'[r][i])
  <2>1. Last(r) \in Index(r) /\ stored(r) = log[r][Last(r)]
    BY <1>0, <1>3, <1>7, IndexFacts
  <2>2. stored(r) # NoObject => ~Delivered(stored(r))
    BY <1>2, <1>7, <2>1 DEF ReadyJob, Following, Exists
  <2> QED
    BY <1>2, <1>3, <1>4, <1>7, <2>2 DEF ReadyJob, Following, Exists
<1>8. ASSUME job.pc = "WriteSecret", NEW i \in Index(r)'
      PROVE  ~ClaimsReady(log'[r][i])
  BY <1>2, <1>3, <1>4, <1>8 DEF ReadyJob, Following, EnsurePath
<1>9. Following'
  BY <1>1, <1>2, <1>5, <1>6, <1>7, <1>8 DEF Following
<1>10. Delivering'
  BY <1>1 DEF ReadyJob, Delivering, Usable
<1> QED
  BY <1>9, <1>10 DEF ReadyJob

\* No version changes, and each that told the truth still does.
LEMMA SameReports ==
  ASSUME UNCHANGED log,
         \A n \in Names : \A i \in Index(n) :
           Exists(n, i) =>
             /\ ClaimsReady(log[n][i]) => Usable(log[n][i])'
             /\ Delivered(log[n][i]) /\ ~log[n][i].deleting =>
                  Available(log[n][i].uid)'
  PROVE  ReportsTrue'
<1> DEFINE Told(n, i) ==
             /\ ClaimsReady(log[n][i]) => Usable(log[n][i])
             /\ Delivered(log[n][i]) /\ ~log[n][i].deleting =>
                  Available(log[n][i].uid)
<1>1. \A n \in Names : /\ Index(n)' = Index(n)
                      /\ \A i \in Index(n) : Exists(n, i)' <=> Exists(n, i)
  BY DEF Index, Exists
<1>2. ASSUME NEW n \in Names, NEW i \in Index(n), Exists(n, i)
      PROVE  Told(n, i)'
  <2>1. (ClaimsReady(log[n][i]) => Usable(log[n][i]))'
    BY <1>2 DEF Usable
  <2>2. (Delivered(log[n][i]) /\ ~log[n][i].deleting =>
           Available(log[n][i].uid))'
    BY <1>2 DEF Available
  <2> QED
    BY <2>1, <2>2
<1> HIDE DEF Told
<1>3. (\A n \in Names : \A i \in Index(n) : Exists(n, i) => Told(n, i))'
  BY <1>1, <1>2
<1> QED
  BY <1>3 DEF ReportsTrue, Told

\* The garbage collector finds nothing of an AccessKey that is stored.
LEMMA CollectReady ==
  ASSUME Inv, ReadyInv, NEW s \in SecretNames, CollectGarbage(s)
  PROVE  ReadyInv'
<1>0. /\ TypeInv /\ LogInv /\ WorkerInv /\ ReadyLog /\ ReadyJob
      /\ job \in Job /\ EnvOK /\ log \in Log
  BY WorkerFacts DEF Inv, ReadyInv, JobOK
<1>1. /\ UNCHANGED <<log, keys>>
      /\ \A t \in SecretNames \ {s} : secrets'[t] = secrets[t]
      /\ secrets'[s] = NoSecret
      /\ \A n \in Names : stored(n) # NoObject => stored(n).uid # secrets[s].owner
  BY <1>0 DEF CollectGarbage, SecretChanged, garage, EnvOK
<1>2. /\ job'.pc = job.pc /\ job'.name = job.name /\ job'.obj = job.obj
      /\ job'.sec = job.sec
  BY <1>0 DEF CollectGarbage, SecretChanged, Job
<1>3. ASSUME NEW n \in Names, stored(n) # NoObject
      PROVE  Available(stored(n).uid) => Available(stored(n).uid)'
  <2> SUFFICES ASSUME Available(stored(n).uid)
               PROVE  \E t \in SecretNames, k \in keys :
                        /\ k.uid = stored(n).uid
                        /\ secrets'[t] = [exists |-> TRUE, owner |-> stored(n).uid,
                                          id |-> k.id]
    BY <1>1 DEF Available, stored
  <2>1. PICK t \in SecretNames, k \in keys :
          /\ k.uid = stored(n).uid
          /\ secrets[t] = [exists |-> TRUE, owner |-> stored(n).uid, id |-> k.id]
    BY DEF Available
  <2>2. t # s
    BY <1>1, <1>3, <2>1
  <2> QED
    BY <1>1, <2>1, <2>2
<1>4. ASSUME NEW n \in Names, stored(n) # NoObject, NEW o \in Object,
             o.uid = stored(n).uid, Usable(o)
      PROVE  Usable(o)'
  <2>1. secrets[o.secretName].owner = stored(n).uid /\ o.secretName \in SecretNames
    BY <1>4 DEF Usable, Object
  <2>2. o.secretName # s
    BY <1>1, <1>4, <2>1
  <2> QED
    BY <1>1, <1>4, <2>1, <2>2 DEF Usable
<1>5. ASSUME NEW n \in Names, NEW i \in Index(n), Exists(n, i),
             Delivered(log[n][i]), ~log[n][i].deleting
      PROVE  stored(n) # NoObject /\ log[n][i].uid = stored(n).uid
  <2>1. i \in 1 .. i
    BY <1>5, <1>0, IndexFacts
  <2>2. log[n][i].finalizer
    BY <1>0, <1>5, <2>1 DEF ReadyLog, Pinned
  <2> QED
    BY <1>0, <1>5, <2>2 DEF LogInv, Held
<1>6. Statuses' /\ SpecsFollow' /\ Pinned'
  BY <1>0, <1>1 DEF ReadyLog, Statuses, SpecsFollow, Pinned, Exists, Index
<1>7. ReportsTrue'
  <2> SUFFICES ASSUME NEW n \in Names, NEW i \in Index(n), Exists(n, i)
               PROVE  /\ ClaimsReady(log[n][i]) => Usable(log[n][i])'
                      /\ Delivered(log[n][i]) /\ ~log[n][i].deleting =>
                           Available(log[n][i].uid)'
    BY <1>1, SameReports
  <2>1. PICK o \in Object : o = log[n][i]
    BY <1>0, LogFacts DEF Version, Exists
  <2>2. /\ ClaimsReady(o) => Usable(o) /\ Delivered(o) /\ ~o.deleting
        /\ Delivered(o) /\ ~o.deleting => Available(o.uid)
    BY <1>0, <2>1 DEF ReadyLog, ReportsTrue, Statuses, StatusOK, ClaimsReady, Ready
  <2>3. ClaimsReady(o) => Usable(o)'
    BY <1>4, <1>5, <2>1, <2>2
  <2>4. Delivered(o) /\ ~o.deleting => Available(o.uid)'
    <3>1. Delivered(o) /\ ~o.deleting =>
            stored(n) # NoObject /\ o.uid = stored(n).uid
      BY <1>5, <2>1
    <3>2. Available(o.uid) /\ stored(n) # NoObject /\ o.uid = stored(n).uid =>
            Available(stored(n).uid)'
      BY <1>3
    <3>3. UNCHANGED stored(n)
      BY <1>1 DEF stored
    <3> QED
      BY <2>2, <3>1, <3>2, <3>3 DEF Available
  <2> QED
    BY <1>1, <2>1, <2>3, <2>4 DEF Usable, Available
<1>8. PICK r, o : r = job.name /\ o = job.obj
  OBVIOUS
<1>9. job.pc \in EnsurePath =>
        /\ r \in Names /\ stored(r) # NoObject /\ o \in Object
        /\ stored(r).uid = o.uid
  BY <1>0, <1>8, WorkerFacts DEF WorkerInv, Ensuring
<1>10. Following'
  <2>1. job.pc \in EnsurePath /\ Delivered(o) => Available(o.uid)'
    <3>1. UNCHANGED stored(r)
      BY <1>1 DEF stored
    <3>2. job.pc \in EnsurePath /\ Delivered(o) => Available(stored(r).uid)
      BY <1>0, <1>8, <1>9 DEF ReadyJob, Following
    <3> QED
      BY <1>3, <1>9, <3>1, <3>2 DEF Available
  <2>2. stored(r)' = stored(r) /\ Index(r)' = Index(r)
    BY <1>1 DEF stored, Index
  <2>3. Following
    BY <1>0 DEF ReadyJob
  <2>4. job.pc \in EnsurePath =>
          /\ StatusOK(o) /\ SpecFollows(o, stored(r)')
          /\ \A i \in Index(r) :
               ClaimsReady(log[r][i]) =>
                 log[r][i].uid = o.uid /\ log[r][i].secretName = o.secretName
    BY <1>8, <1>9, <2>2, <2>3 DEF Following
  <2>5. job.pc = "AddFinalizer" =>
          \A i \in Index(r) : Exists(r, i) => ~Delivered(log[r][i])
    BY <1>8, <2>3 DEF Following
  <2>6. job.pc = "WriteSecret" =>
          /\ job.pc \in EnsurePath
          /\ \A i \in Index(r) : ~ClaimsReady(log[r][i])
    BY <1>8, <2>3 DEF Following, EnsurePath
  <2>7. /\ job'.pc = job.pc /\ job'.name = r /\ job'.obj = o /\ log' = log
        /\ Index(r)' = Index(r)
    BY <1>1, <1>2, <1>8, <2>2
  <2>8. stored(job.name)' = stored(r)'
    BY <2>7 DEF stored
  <2>9. (job.pc \in EnsurePath =>
            /\ StatusOK(job.obj)
            /\ SpecFollows(job.obj, stored(job.name)))'
    BY <2>4, <2>7, <2>8 DEF StatusOK, SpecFollows, Delivered
  <2>10. (job.pc \in EnsurePath =>
            (Delivered(job.obj) => Available(job.obj.uid)))'
    BY <2>1, <2>7 DEF Delivered, Available
  <2>11. (job.pc \in EnsurePath =>
            \A i \in Index(job.name) :
              ClaimsReady(log[job.name][i]) =>
                /\ log[job.name][i].uid = job.obj.uid
                /\ log[job.name][i].secretName = job.obj.secretName)'
    BY <2>4, <2>7 DEF ClaimsReady, Ready
  <2>12. (job.pc = "AddFinalizer" =>
            \A i \in Index(job.name) :
              Exists(job.name, i) => ~Delivered(log[job.name][i]))'
    BY <2>5, <2>7 DEF Exists, Delivered
  <2>13. (job.pc = "WriteSecret" =>
            \A i \in Index(job.name) : ~ClaimsReady(log[job.name][i]))'
    BY <2>6, <2>7 DEF ClaimsReady, Ready
  <2> QED
    BY <2>9, <2>10, <2>11, <2>12, <2>13 DEF Following
<1>11. Delivering'
  <2>1. job.pc \in EnsurePath /\ Usable(o) => Usable(o)'
    BY <1>4, <1>9
  <2>2. \A t \in SecretNames : secrets'[t].exists => secrets'[t] = secrets[t]
    BY <1>1 DEF NoSecret
  <2>3. job.pc \in EnsurePath => o.secretName \in SecretNames
    BY <1>9 DEF Object
  <2> QED
    BY <1>0, <1>1, <1>2, <1>8, <2>1, <2>2, <2>3
    DEF ReadyJob, Delivering, EnsurePath, Usable
<1> QED
  BY <1>6, <1>7, <1>10, <1>11 DEF ReadyInv, ReadyLog, ReadyJob

\* Neither the versions change nor what they report of.
LEMMA SameReadyLog ==
  ASSUME ReadyLog, UNCHANGED <<log, keys, secrets>>
  PROVE  ReadyLog'
<1>1. Statuses' /\ SpecsFollow' /\ Pinned'
  BY DEF ReadyLog, Statuses, SpecsFollow, Pinned, Exists, Index
<1>2. ReportsTrue'
  <2> SUFFICES ASSUME NEW n \in Names, NEW i \in Index(n), Exists(n, i)
               PROVE  /\ ClaimsReady(log[n][i]) => Usable(log[n][i])'
                      /\ Delivered(log[n][i]) /\ ~log[n][i].deleting =>
                           Available(log[n][i].uid)'
    BY SameReports
  <2>1. /\ ClaimsReady(log[n][i]) => Usable(log[n][i])
        /\ Delivered(log[n][i]) /\ ~log[n][i].deleting =>
             Available(log[n][i].uid)
    BY DEF ReadyLog, ReportsTrue
  <2> QED
    BY <2>1 DEF Usable, Available
<1> QED
  BY <1>1, <1>2 DEF ReadyLog

\* What users, the informer and the garbage collector do.
LEMMA WorldReady ==
  ASSUME Inv, ReadyInv, Tampering = {}, World
  PROVE  ReadyInv'
<1>0. /\ TypeInv /\ LogInv /\ WorkerInv /\ ReadyLog /\ ReadyJob
      /\ log \in Log /\ log' \in Log /\ EnvOK
      /\ \A n \in Names : stored(n) \in Version
      /\ NoObject \in Version
  BY WorkerFacts, WorldType, LogFacts
  DEF Inv, ReadyInv, Version, TypeInv, TypeOK, Log
<1>1. ASSUME NEW n \in Names, Dequeue(n)
      PROVE  ReadyInv'
  <2>1. UNCHANGED <<log, keys, secrets>> /\ job'.pc = "Get"
    BY <1>1 DEF Dequeue, garage, Idle
  <2>2. ReadyLog'
    BY <1>0, <2>1, SameReadyLog
  <2> QED
    BY <2>1, <2>2, NothingInHand DEF ReadyInv, EnsurePath
<1>2. ASSUME NEW n \in Names, Informer(n)
      PROVE  ReadyInv'
  <2>1. PICK d \in [Names -> Nat] : Dropped(d)
    BY <1>0, <1>2, DeliverView DEF Informer
  <2>2. UNCHANGED <<keys, secrets, job>>
    BY <1>2 DEF Informer, garage
  <2>3. \A m \in Names : NoneWritten(m)
    BY <2>1 DEF Dropped, NoneWritten
  <2> QED
    BY <1>0, <2>1, <2>2, <2>3, DropReady, SameReadyJob DEF ReadyInv
<1>3. CASE Crash
  <2>1. PICK d \in [Names -> Nat] : Dropped(d)
    BY <1>0, <1>3, RelistView DEF Crash
  <2>2. UNCHANGED <<keys, secrets>> /\ job'.pc = "idle"
    BY <1>3 DEF Crash, garage, Idle
  <2> QED
    BY <1>0, <2>1, <2>2, DropReady, NothingInHand DEF ReadyInv, EnsurePath
<1>4. ASSUME NEW n \in Names, NEW v \in Version, ObjectWritten(n, v),
             UNCHANGED <<keys, secrets>>, Reports(n, v), ~ClaimsReady(v),
             v # NoObject /\ Delivered(v) => stored(n) # NoObject /\ Delivered(stored(n)),
             stored(n) # NoObject /\ stored(n).finalizer =>
               v \in Object /\ SpecFollows(stored(n), v)
      PROVE  ReadyInv'
  <2>1. Store(n, v)
    BY <1>4 DEF ObjectWritten
  <2>2. ReadyLog'
    BY <1>0, <1>4, <2>1, WriteReady
  <2>3. ReadyJob'
    BY <1>0, <1>4, WriteReadyJob
  <2> QED
    BY <2>2, <2>3 DEF ReadyInv
<1>5. ASSUME NEW n \in Names, stored(n) # NoObject
      PROVE  /\ stored(n) \in Object /\ StatusOK(stored(n))
             /\ Delivered(stored(n)) => stored(n).finalizer
             /\ Delivered(stored(n)) /\ ~stored(n).deleting =>
                  Available(stored(n).uid)
  <2>1. /\ Last(n) \in Index(n) /\ stored(n) = log[n][Last(n)]
        /\ Last(n) \in 1 .. Last(n)
    BY <1>0, IndexFacts
  <2>2. stored(n) \in Object
    BY <1>0, <1>5 DEF Version
  <2> QED
    BY <1>0, <1>5, <2>1, <2>2
    DEF ReadyLog, Statuses, Pinned, ReportsTrue, Exists
<1>6. ASSUME NEW n \in Names, stored(n) # NoObject, NEW v \in Object,
             ObjectWritten(n, v), UNCHANGED <<keys, secrets>>,
             v.uid = stored(n).uid, v.finalizer = stored(n).finalizer,
             v.status = stored(n).status, v.gen = stored(n).gen + 1,
             v.deleting = stored(n).deleting \/ v.deleting
      PROVE  ReadyInv'
  <2>1. stored(n).gen \in Nat /\ stored(n).status.og \in Nat
    BY <1>5, <1>6 DEF Object, Status
  <2>2. stored(n).status.og <= stored(n).gen
    BY <1>5, <1>6 DEF StatusOK
  <2>3. ~ClaimsReady(v)
    BY <1>6, <2>1, <2>2 DEF ClaimsReady
  <2>4. StatusOK(v)
    BY <1>5, <1>6, <2>1 DEF StatusOK, Delivered
  <2>5. SpecFollows(stored(n), v)
    BY <1>6, <2>1 DEF SpecFollows
  <2>6. /\ Delivered(v) => Delivered(stored(n)) /\ v.finalizer
        /\ Delivered(v) /\ ~v.deleting => Available(v.uid)
    BY <1>5, <1>6 DEF Delivered
  <2>7. Reports(n, v)
    BY <1>6, <2>3, <2>4, <2>5, <2>6 DEF Reports
  <2> QED
    BY <1>4, <1>6, <2>3, <2>5, <2>6, <2>7 DEF Version
<1>7. ASSUME NEW n \in Names, NEW s \in SecretNames, UserCreates(n, s)
      PROVE  ReadyInv'
  <2> DEFINE v == [uid |-> nextUID, gen |-> 1, secretName |-> s,
                   deleting |-> FALSE, finalizer |-> FALSE, status |-> NewStatus]
  <2>1. v \in Object
    BY <1>0 DEF EnvOK, Object, NewStatus, Status, NoID, NoName
  <2>2. StatusOK(v) /\ ~Delivered(v) /\ ~ClaimsReady(v)
    BY DEF NewStatus, StatusOK, Delivered, ClaimsReady, Ready
  <2>3. /\ stored(n) = NoObject /\ ObjectWritten(n, v)
        /\ UNCHANGED <<keys, secrets>>
    BY <1>7 DEF UserCreates, garage
  <2>4. Reports(n, v)
    BY <2>1, <2>2, <2>3 DEF Reports
  <2> HIDE DEF v
  <2> QED
    BY <1>4, <2>1, <2>2, <2>3, <2>4 DEF Version
<1>8. ASSUME NEW n \in Names, NEW s \in SecretNames, UserEdits(n, s)
      PROVE  ReadyInv'
  <2> DEFINE v == [stored(n) EXCEPT !.secretName = s, !.gen = @ + 1]
  <2>1. stored(n) \in Object /\ v \in Object /\ stored(n) # NoObject
    BY <1>8, <1>0, ObjectChanged DEF UserEdits, Version
  <2>2. /\ v.uid = stored(n).uid /\ v.finalizer = stored(n).finalizer
        /\ v.status = stored(n).status /\ v.gen = stored(n).gen + 1
        /\ v.deleting = stored(n).deleting
    BY <2>1 DEF Object
  <2>3. ObjectWritten(n, v) /\ UNCHANGED <<keys, secrets>>
    BY <1>8 DEF UserEdits, garage
  <2> HIDE DEF v
  <2> QED
    BY <1>6, <2>1, <2>2, <2>3
<1>9. ASSUME NEW n \in Names, UserDeletes(n)
      PROVE  ReadyInv'
  <2>1. stored(n) \in Object /\ stored(n) # NoObject /\ UNCHANGED <<keys, secrets>>
    BY <1>9, <1>0 DEF UserDeletes, Version, garage
  <2>2. CASE stored(n).finalizer
    <3> DEFINE v == [stored(n) EXCEPT !.deleting = TRUE, !.gen = @ + 1]
    <3>1. v \in Object
      BY <2>1, ObjectChanged
    <3>2. /\ v.uid = stored(n).uid /\ v.finalizer = stored(n).finalizer
          /\ v.status = stored(n).status /\ v.gen = stored(n).gen + 1
          /\ v.deleting
      BY <2>1 DEF Object
    <3>3. ObjectWritten(n, v)
      BY <1>9, <2>2 DEF UserDeletes
    <3> HIDE DEF v
    <3> QED
      BY <1>6, <2>1, <3>1, <3>2, <3>3
  <2>3. CASE ~stored(n).finalizer
    <3>1. ObjectWritten(n, NoObject) /\ Reports(n, NoObject) /\ ~ClaimsReady(NoObject)
      BY <1>9, <2>3 DEF UserDeletes, Reports, ClaimsReady
    <3> QED
      BY <1>0, <1>4, <2>1, <2>3, <3>1
  <2> QED
    BY <2>2, <2>3
<1>10. ~Tamper
  BY DEF Tamper
<1> QED
  BY <1>1, <1>2, <1>3, <1>7, <1>8, <1>9, <1>10, CollectReady DEF World, User
-----------------------------------------------------------------------------
(* The worker ensures the key and the Secret.                               *)

\* Keys are added.
LEMMA KeysReady ==
  ASSUME ReadyLog, UNCHANGED <<log, secrets>>, keys \subseteq keys'
  PROVE  ReadyLog'
<1>1. Statuses' /\ SpecsFollow' /\ Pinned'
  BY DEF ReadyLog, Statuses, SpecsFollow, Pinned, Exists, Index
<1>2. ReportsTrue'
  <2> SUFFICES ASSUME NEW n \in Names, NEW i \in Index(n), Exists(n, i)
               PROVE  /\ ClaimsReady(log[n][i]) => Usable(log[n][i])'
                      /\ Delivered(log[n][i]) /\ ~log[n][i].deleting =>
                           Available(log[n][i].uid)'
    BY SameReports
  <2>1. /\ ClaimsReady(log[n][i]) => Usable(log[n][i])
        /\ Delivered(log[n][i]) /\ ~log[n][i].deleting =>
             Available(log[n][i].uid)
    BY DEF ReadyLog, ReportsTrue
  <2> QED
    BY <2>1 DEF Usable, Available
<1> QED
  BY <1>1, <1>2 DEF ReadyLog

\* Secrets change that no report of Ready is about, and no AccessKey is left
\* without credentials.
LEMMA SecretsReady ==
  ASSUME ReadyLog, UNCHANGED <<log, keys>>,
         \A n \in Names : \A i \in Index(n) :
           Exists(n, i) =>
             /\ ClaimsReady(log[n][i]) =>
                  secrets'[log[n][i].secretName] = secrets[log[n][i].secretName]
             /\ Available(log[n][i].uid) => Available(log[n][i].uid)'
  PROVE  ReadyLog'
<1>1. Statuses' /\ SpecsFollow' /\ Pinned'
  BY DEF ReadyLog, Statuses, SpecsFollow, Pinned, Exists, Index
<1>2. ReportsTrue'
  <2> SUFFICES ASSUME NEW n \in Names, NEW i \in Index(n), Exists(n, i)
               PROVE  /\ ClaimsReady(log[n][i]) => Usable(log[n][i])'
                      /\ Delivered(log[n][i]) /\ ~log[n][i].deleting =>
                           Available(log[n][i].uid)'
    BY SameReports
  <2>1. /\ ClaimsReady(log[n][i]) => Usable(log[n][i])
        /\ Delivered(log[n][i]) /\ ~log[n][i].deleting =>
             Available(log[n][i].uid)
    BY DEF ReadyLog, ReportsTrue
  <2>2. /\ ClaimsReady(log[n][i]) =>
             secrets'[log[n][i].secretName] = secrets[log[n][i].secretName]
        /\ Available(log[n][i].uid) => Available(log[n][i].uid)'
    OBVIOUS
  <2> QED
    BY <2>1, <2>2 DEF Usable
<1> QED
  BY <1>1, <1>2 DEF ReadyLog

\* The same AccessKey with the same spec.
SameSpec(o, p) ==
  /\ p.uid = o.uid /\ p.gen = o.gen
  /\ p.secretName = o.secretName /\ p.deleting = o.deleting

LEMMA ReadyHelperFacts ==
  ASSUME TypeInv, job.pc \in EnsurePath
  PROVE  /\ KeyFailed =>
              /\ job'.pc = "UpdateStatus" /\ job'.name = job.name
              /\ SameSpec(job.obj, job'.obj)
              /\ job'.obj.status = [job.obj.status EXCEPT !.key = "False"]
         /\ \A id \in Nat : KeyFound(id) =>
              /\ job'.pc = "GetSecret" /\ job'.name = job.name
              /\ SameSpec(job.obj, job'.obj)
              /\ job'.obj.status = [job.obj.status EXCEPT !.id = id, !.key = "True"]
         /\ \A r : SecretNotReady(r) =>
              /\ job'.pc = "UpdateStatus" /\ job'.name = job.name
              /\ SameSpec(job.obj, job'.obj)
              /\ job'.obj.status = [job.obj.status EXCEPT !.secret = r]
         /\ SecretWritten =>
              /\ job'.name = job.name
              /\ \/ /\ job'.pc = "DeleteOldSecret" /\ job'.obj = job.obj
                    /\ job.obj.status.secretName \notin {NoName, job.obj.secretName}
                 \/ job'.pc = "UpdateStatus" /\ job'.obj = SecretDone(job.obj)
         /\ SameSpec(job.obj, SecretDone(job.obj))
         /\ SecretDone(job.obj).status =
              [job.obj.status EXCEPT !.secretName = job.obj.secretName,
                                     !.secret = "True"]
<1>1. job \in Job /\ job.obj \in Object /\ job.obj.status \in Status
  BY WorkerFacts DEF JobOK
<1>2. ASSUME KeyFailed
      PROVE  /\ job'.pc = "UpdateStatus" /\ job'.name = job.name
             /\ SameSpec(job.obj, job'.obj)
             /\ job'.obj.status = [job.obj.status EXCEPT !.key = "False"]
  BY <1>1, <1>2 DEF KeyFailed, Job, Object, Status, SameSpec
<1>3. ASSUME NEW id \in Nat, KeyFound(id)
      PROVE  /\ job'.pc = "GetSecret" /\ job'.name = job.name
             /\ SameSpec(job.obj, job'.obj)
             /\ job'.obj.status = [job.obj.status EXCEPT !.id = id, !.key = "True"]
  <2> DEFINE o == [job.obj EXCEPT !.status.id = id, !.status.key = "True"]
  <2>1. /\ SameSpec(job.obj, o)
        /\ o.status = [job.obj.status EXCEPT !.id = id, !.key = "True"]
    BY <1>1 DEF Object, Status, SameSpec
  <2>2. job' = [job EXCEPT !.pc = "GetSecret", !.obj = o]
    BY <1>3 DEF KeyFound
  <2> HIDE DEF o
  <2> QED
    BY <1>1, <2>1, <2>2 DEF Job
<1>4. ASSUME NEW r, SecretNotReady(r)
      PROVE  /\ job'.pc = "UpdateStatus" /\ job'.name = job.name
             /\ SameSpec(job.obj, job'.obj)
             /\ job'.obj.status = [job.obj.status EXCEPT !.secret = r]
  BY <1>1, <1>4 DEF SecretNotReady, Job, Object, Status, SameSpec
<1>5. /\ SameSpec(job.obj, SecretDone(job.obj))
      /\ SecretDone(job.obj).status =
           [job.obj.status EXCEPT !.secretName = job.obj.secretName,
                                  !.secret = "True"]
  BY <1>1 DEF SecretDone, Object, Status, SameSpec
<1>6. ASSUME SecretWritten
      PROVE  /\ job'.name = job.name
             /\ \/ /\ job'.pc = "DeleteOldSecret" /\ job'.obj = job.obj
                   /\ job.obj.status.secretName \notin {NoName, job.obj.secretName}
                \/ job'.pc = "UpdateStatus" /\ job'.obj = SecretDone(job.obj)
  BY <1>1, <1>6 DEF SecretWritten, Job
<1> QED
  BY <1>2, <1>3, <1>4, <1>5, <1>6

\* What the worker knows of its version.
LEMMA InHand ==
  ASSUME ReadyJob, job.pc \in EnsurePath
  PROVE  /\ StatusOK(job.obj)
         /\ Delivered(job.obj) => job.obj.status.id # NoID
         /\ Delivered(job.obj) => Available(job.obj.uid)
<1>1. /\ StatusOK(job.obj)
      /\ Delivered(job.obj) => Available(job.obj.uid)
  BY DEF ReadyJob, Following
<1> QED
  BY <1>1 DEF StatusOK

\* The worker goes on with its version.
LEMMA StayFollowing ==
  ASSUME TypeInv, ReadyJob, job.pc \in EnsurePath, job'.pc \in EnsurePath,
         UNCHANGED log, job'.name = job.name, SameSpec(job.obj, job'.obj),
         NEW u, u = job.obj.uid,
         job'.obj.status.og = job.obj.status.og,
         job'.obj.status.secret = "True" => Delivered(job'.obj),
         Delivered(job'.obj) =>
           job'.obj.status.id # NoID /\ Available(u)',
         job'.pc = "WriteSecret" =>
           \A i \in Index(job.name) : ~ClaimsReady(log[job.name][i])
  PROVE  Following'
<1>1. PICK r \in Names : r = job.name
  BY WorkerFacts
<1>2. /\ StatusOK(job.obj) /\ SpecFollows(job.obj, stored(r))
      /\ \A i \in Index(r) :
            ClaimsReady(log[r][i]) =>
              /\ log[r][i].uid = job.obj.uid
              /\ log[r][i].secretName = job.obj.secretName
  BY <1>1 DEF ReadyJob, Following
<1>3. StatusOK(job'.obj) /\ SpecFollows(job'.obj, stored(r)')
  BY <1>2 DEF StatusOK, SpecFollows, SameSpec, stored
<1>4. /\ Index(r)' = Index(r) /\ log'[r] = log[r]
      /\ job'.pc # "AddFinalizer"
  BY DEF Index, EnsurePath
<1>5. \A i \in Index(r)' :
        ClaimsReady(log'[r][i]) =>
          /\ log'[r][i].uid = job'.obj.uid
          /\ log'[r][i].secretName = job'.obj.secretName
  BY <1>2, <1>4 DEF SameSpec
<1>6. Delivered(job'.obj) => Available(job.obj.uid)'
  BY DEF SameSpec, Available
<1> QED
  BY <1>1, <1>3, <1>4, <1>5, <1>6 DEF Following
\* The key is looked for, or created.
LEMMA KeyReady ==
  ASSUME Inv, ReadyInv, GetKey \/ LookupKey \/ CreateKey
  PROVE  ReadyInv'
<1>0. /\ TypeInv /\ LogInv /\ WorkerInv /\ ReadyLog /\ ReadyJob
      /\ EnvOK /\ job.pc \in EnsurePath /\ job.obj \in Object
      /\ job.obj.status \in Status
  BY WorkerFacts DEF Inv, ReadyInv, GetKey, LookupKey, CreateKey, At, EnsurePath
<1>1. UNCHANGED <<log, secrets>> /\ keys \subseteq keys'
  BY DEF GetKey, LookupKey, CreateKey, garage
<1>2. ReadyLog'
  BY <1>0, <1>1, KeysReady
<1>a. PICK u : u = job.obj.uid
  OBVIOUS
<1>b. Available(u) => Available(u)'
  BY <1>1 DEF Available
<1>3. /\ StatusOK(job.obj)
      /\ Delivered(job.obj) => job.obj.status.id # NoID
      /\ Delivered(job.obj) => Available(u)'
  BY <1>0, <1>a, <1>b, InHand
<1>4. ASSUME KeyFailed
      PROVE  ReadyInv'
  <2>1. /\ job'.pc = "UpdateStatus" /\ job'.name = job.name
        /\ SameSpec(job.obj, job'.obj)
        /\ job'.obj.status = [job.obj.status EXCEPT !.key = "False"]
    BY <1>0, <1>4, ReadyHelperFacts
  <2>2. /\ job'.obj.status.og = job.obj.status.og
        /\ job'.obj.status.id = job.obj.status.id
        /\ job'.obj.status.secret = job.obj.status.secret
        /\ job'.obj.status.secretName = job.obj.status.secretName
        /\ job'.obj.status.key = "False"
    BY <1>0, <2>1 DEF Status
  <2>3. Following'
    BY <1>0, <1>1, <1>a, <1>3, <2>1, <2>2, StayFollowing
    DEF EnsurePath, StatusOK, Delivered
  <2>4. Delivering'
    BY <2>1, <2>2 DEF Delivering, Ready
  <2> QED
    BY <1>2, <2>3, <2>4 DEF ReadyInv, ReadyJob
<1>5. ASSUME NEW id \in Nat \ {NoID}, KeyFound(id),
             [id |-> id, uid |-> job.obj.uid] \in keys'
      PROVE  ReadyInv'
  <2>1. /\ job'.pc = "GetSecret" /\ job'.name = job.name
        /\ SameSpec(job.obj, job'.obj)
        /\ job'.obj.status = [job.obj.status EXCEPT !.id = id, !.key = "True"]
    BY <1>0, <1>5, ReadyHelperFacts
  <2>2. /\ job'.obj.status.og = job.obj.status.og
        /\ job'.obj.status.id = id
        /\ job'.obj.status.secret = job.obj.status.secret
        /\ job'.obj.status.secretName = job.obj.status.secretName
    BY <1>0, <2>1 DEF Status
  <2>3. Following'
    BY <1>0, <1>1, <1>a, <1>3, <1>5, <2>1, <2>2, StayFollowing
    DEF EnsurePath, StatusOK, Delivered
  <2>4. Delivering'
    BY <1>5, <2>1, <2>2 DEF Delivering, SameSpec
  <2> QED
    BY <1>2, <2>3, <2>4 DEF ReadyInv, ReadyJob
<1>6. ASSUME Goto("CreateKey")
      PROVE  ReadyInv'
  <2>1. job'.pc = "CreateKey" /\ job'.name = job.name /\ job'.obj = job.obj
    BY <1>0, <1>6, HelperFacts
  <2>2. Following'
    BY <1>0, <1>1, <1>a, <1>3, <2>1, StayFollowing
    DEF EnsurePath, StatusOK, Delivered, SameSpec
  <2>3. Delivering'
    BY <2>1 DEF Delivering
  <2> QED
    BY <1>2, <2>2, <2>3 DEF ReadyInv, ReadyJob
<1>7. \A k \in keys : /\ k = [id |-> k.id, uid |-> k.uid] /\ k.id \in Nat \ {NoID}
                      /\ k \in keys'
  BY <1>0, <1>1 DEF EnvOK, Key, LogInv, IDsApart
<1>8. CASE GetKey
  <2>1. ASSUME NEW k \in keys, k.id = job.obj.status.id,
               KeyFound(job.obj.status.id)
        PROVE  ReadyInv'
    <3>1. k.uid = job.obj.uid
      BY <1>0, <1>7, <2>1
      DEF WorkerInv, Owning, Holding, Records
    <3> QED
      BY <1>5, <1>7, <2>1, <3>1
  <2> QED
    BY <1>4, <1>6, <1>8, <2>1 DEF GetKey
<1>9. CASE LookupKey
  <2>1. ASSUME NEW k \in keys, KeysOf(job.obj.uid) = {k}, KeyFound(k.id)
        PROVE  ReadyInv'
    <3>1. k.uid = job.obj.uid
      BY <2>1 DEF KeysOf
    <3> QED
      BY <1>5, <1>7, <2>1, <3>1
  <2> QED
    BY <1>4, <1>6, <1>9, <2>1 DEF LookupKey
<1>10. CASE CreateKey
  <2>1. ASSUME keys' = keys \cup {[id |-> nextKey, uid |-> job.obj.uid]},
               KeyFound(nextKey)
        PROVE  ReadyInv'
    BY <1>0, <1>5, <2>1 DEF EnvOK, NoID
  <2> QED
    BY <1>4, <1>10, <2>1 DEF CreateKey
<1> QED
  BY <1>8, <1>9, <1>10

\* The Secret holds the key: what is left is to clean up and to report.
LEMMA WrittenReady ==
  ASSUME TypeInv, IDsApart, ReadyJob, job.pc \in EnsurePath, UNCHANGED log,
         [id |-> job.obj.status.id, uid |-> job.obj.uid] \in keys,
         UNCHANGED keys,
         secrets'[job.obj.secretName] =
           [exists |-> TRUE, owner |-> job.obj.uid, id |-> job.obj.status.id],
         \/ SecretWritten
         \/ job' = [job EXCEPT !.pc = "UpdateStatus", !.obj = SecretDone(job.obj)]
  PROVE  ReadyJob'
<1>0. /\ job \in Job /\ job.obj \in Object /\ job.obj.status \in Status
      /\ job.obj.secretName \in SecretNames /\ NoName \notin SecretNames
  BY WorkerFacts, ConstantsAssumption DEF JobOK, Object, ConstantsAssumption
<1>1. /\ SameSpec(job.obj, SecretDone(job.obj))
      /\ SecretDone(job.obj).status =
           [job.obj.status EXCEPT !.secretName = job.obj.secretName,
                                  !.secret = "True"]
  BY ReadyHelperFacts
<1>2. /\ SecretDone(job.obj).status.og = job.obj.status.og
      /\ SecretDone(job.obj).status.id = job.obj.status.id
      /\ Delivered(SecretDone(job.obj))
  BY <1>0, <1>1 DEF Status, Delivered
<1>3. job.obj.status.id # NoID /\ StatusOK(job.obj)
  BY InHand DEF IDsApart
<1>a. PICK u : u = job.obj.uid
  OBVIOUS
<1>4. Available(u)'
  <2>1. \E t \in SecretNames, k \in keys' :
          k.uid = u /\ secrets'[t] = [exists |-> TRUE, owner |-> u, id |-> k.id]
    BY <1>0, <1>a
  <2> QED
    BY <2>1 DEF Available
<1>5. CASE /\ job'.pc = "DeleteOldSecret" /\ job'.name = job.name
           /\ job'.obj = job.obj
           /\ job.obj.status.secretName \notin {NoName, job.obj.secretName}
  <2>1. Following'
    BY <1>3, <1>a, <1>4, <1>5, StayFollowing DEF EnsurePath, StatusOK, SameSpec
  <2>2. Delivering'
    BY <1>5 DEF Delivering, Delivered, Usable
  <2> QED
    BY <2>1, <2>2 DEF ReadyJob
<1>6. CASE /\ job'.pc = "UpdateStatus" /\ job'.name = job.name
           /\ job'.obj = SecretDone(job.obj)
  <2>1. Following'
    BY <1>1, <1>2, <1>3, <1>a, <1>4, <1>6, StayFollowing DEF EnsurePath
  <2>2. Delivering'
    BY <1>1, <1>2, <1>6 DEF Delivering, Usable, SameSpec
  <2> QED
    BY <2>1, <2>2 DEF ReadyJob
<1>7. ASSUME job' = [job EXCEPT !.pc = "UpdateStatus", !.obj = SecretDone(job.obj)]
      PROVE  /\ job'.pc = "UpdateStatus" /\ job'.name = job.name
             /\ job'.obj = SecretDone(job.obj)
  BY <1>0, <1>7 DEF Job
<1> QED
  BY <1>5, <1>6, <1>7, ReadyHelperFacts

\* The Secret is reported as not ready.
LEMMA NotReady ==
  ASSUME TypeInv, ReadyJob, job.pc \in EnsurePath, UNCHANGED log,
         NEW reason \in {"Failed", "Conflict"}, SecretNotReady(reason),
         NEW u, u = job.obj.uid, Available(u) => Available(u)'
  PROVE  ReadyJob'
<1>0. job.obj \in Object /\ job.obj.status \in Status
  BY WorkerFacts
<1>1. /\ StatusOK(job.obj)
      /\ Delivered(job.obj) => job.obj.status.id # NoID
      /\ Delivered(job.obj) => Available(u)'
  BY InHand
<1>2. /\ job'.pc = "UpdateStatus" /\ job'.name = job.name
      /\ SameSpec(job.obj, job'.obj)
      /\ job'.obj.status = [job.obj.status EXCEPT !.secret = reason]
  BY ReadyHelperFacts
<1>3. /\ job'.obj.status.og = job.obj.status.og
      /\ job'.obj.status.id = job.obj.status.id
      /\ job'.obj.status.secret = reason
      /\ job'.obj.status.secretName = job.obj.status.secretName
  BY <1>0, <1>2 DEF Status
<1>4. Following'
  BY <1>1, <1>2, <1>3, StayFollowing DEF EnsurePath, StatusOK, Delivered
<1>5. Delivering'
  BY <1>2, <1>3 DEF Delivering, Ready
<1> QED
  BY <1>4, <1>5 DEF ReadyJob

\* The Secret of the spec is read.
LEMMA ReadSecretReady ==
  ASSUME Inv, ReadyInv, GetSecret \/ ReadSecret
  PROVE  ReadyInv'
<1>0. /\ TypeInv /\ LogInv /\ WorkerInv /\ ReadyLog /\ ReadyJob
      /\ EnvOK /\ job \in Job /\ job.pc \in EnsurePath /\ job.obj \in Object
      /\ job.obj.status \in Status /\ log \in Log
  BY WorkerFacts DEF Inv, ReadyInv, GetSecret, ReadSecret, At, EnsurePath, JobOK
<1>1. UNCHANGED <<log, keys, secrets>>
  BY DEF GetSecret, ReadSecret, garage
<1>2. ReadyLog'
  BY <1>0, <1>1, SameReadyLog
<1>a. PICK u : u = job.obj.uid
  OBVIOUS
<1>b. Available(u) => Available(u)'
  BY <1>1 DEF Available
<1>3. /\ StatusOK(job.obj)
      /\ Delivered(job.obj) => job.obj.status.id # NoID
      /\ Delivered(job.obj) => Available(u)'
  BY <1>0, <1>a, <1>b, InHand
<1>4. PICK s \in SecretNames : s = job.obj.secretName
  BY <1>0 DEF Object
<1>5. PICK r \in Names : r = job.name
  BY <1>0, WorkerFacts
<1>6. [id |-> job.obj.status.id, uid |-> job.obj.uid] \in keys
  BY <1>0 DEF GetSecret, ReadSecret, At, ReadyJob, Delivering
<1>7. ASSUME NEW reason \in {"Failed", "Conflict"}, SecretNotReady(reason)
      PROVE  ReadyInv'
  BY <1>0, <1>1, <1>2, <1>7, <1>a, <1>b, NotReady DEF ReadyInv
<1>8. CASE GetSecret
  <2>1. ASSUME ~secrets[s].exists \/ ControlledBy(secrets[s], job.obj),
               Goto("ReadSecret")
        PROVE  ReadyInv'
    <3>1. job'.pc = "ReadSecret" /\ job'.name = job.name /\ job'.obj = job.obj
      BY <1>0, <2>1, HelperFacts
    <3>2. Following'
      BY <1>0, <1>1, <1>a, <1>3, <3>1, StayFollowing
      DEF EnsurePath, StatusOK, Delivered, SameSpec
    <3>3. Delivering'
      BY <1>1, <1>4, <1>6, <2>1, <3>1 DEF Delivering, ControlledBy
    <3> QED
      BY <1>2, <3>2, <3>3 DEF ReadyInv, ReadyJob
  <2> QED
    BY <1>4, <1>7, <1>8, <2>1 DEF GetSecret
<1>9. CASE ReadSecret
  <2>0. secrets[s].exists => secrets[s].owner = job.obj.uid
    BY <1>0, <1>4, <1>9 DEF ReadSecret, At, ReadyJob, Delivering
  <2>1. ASSUME secrets[s].exists, secrets[s].id = job.obj.status.id
        PROVE  Usable(job.obj)
    <3>1. secrets[s] = [exists |-> TRUE, owner |-> job.obj.uid,
                        id |-> job.obj.status.id]
      BY <1>0, <2>0, <2>1 DEF EnvOK, Secret
    <3> QED
      BY <1>4, <1>6, <3>1 DEF Usable
  <2>2. ASSUME Usable(job.obj), SecretWritten
        PROVE  ReadyInv'
    <3>1. ReadyJob'
      BY <1>0, <1>1, <1>6, <2>2, WrittenReady DEF LogInv, Usable
    <3> QED
      BY <1>2, <3>1 DEF ReadyInv
  <2>3. ASSUME ~secrets[s].exists \/ secrets[s].id # job.obj.status.id,
               job' = [job EXCEPT !.pc = "WriteSecret", !.sec = secrets[s],
                                  !.secCurrent = TRUE]
        PROVE  ReadyInv'
    <3>1. /\ job'.pc = "WriteSecret" /\ job'.name = job.name
          /\ job'.obj = job.obj /\ job'.sec = secrets[s]
      BY <1>0, <2>3 DEF Job
    <3>2. ASSUME NEW i \in Index(r), ClaimsReady(log[r][i])
          PROVE  FALSE
      <4>1. /\ log[r][i].uid = job.obj.uid
            /\ log[r][i].secretName = s
        BY <1>0, <1>4, <1>5, <3>2 DEF ReadyJob, Following
      <4>2. Usable(log[r][i])
        BY <1>0, <3>2 DEF ReadyLog, ReportsTrue, ClaimsReady, Exists
      <4>3. PICK k, l \in keys :
              /\ k = [id |-> log[r][i].status.id, uid |-> job.obj.uid]
              /\ l = [id |-> job.obj.status.id, uid |-> job.obj.uid]
        BY <1>6, <4>1, <4>2 DEF Usable
      <4>4. k = l
        BY <1>0, <4>3 DEF LogInv, KeyUnique
      <4> QED
        BY <2>3, <4>1, <4>2, <4>3, <4>4 DEF Usable
    <3>3. Following'
      BY <1>0, <1>1, <1>a, <1>3, <1>5, <3>1, <3>2, StayFollowing
      DEF EnsurePath, StatusOK, Delivered, SameSpec
    <3>4. Delivering'
      BY <1>1, <1>4, <1>6, <2>0, <3>1 DEF Delivering
    <3> QED
      BY <1>2, <3>3, <3>4 DEF ReadyInv, ReadyJob
  <2> QED
    BY <1>4, <1>7, <1>9, <2>1, <2>2, <2>3 DEF ReadSecret
<1> QED
  BY <1>8, <1>9
\* The Secret of the spec is written: no report of Ready is about it yet, and
\* whatever it held was the AccessKey's own.
LEMMA WriteSecretReady ==
  ASSUME Inv, ReadyInv, WriteSecret
  PROVE  ReadyInv'
<1>0. /\ TypeInv /\ LogInv /\ WorkerInv /\ ReadyLog /\ ReadyJob
      /\ EnvOK /\ job \in Job /\ job.pc = "WriteSecret" /\ job.pc \in EnsurePath
      /\ job.obj \in Object /\ Holding /\ IDsApart
  BY WorkerFacts DEF Inv, ReadyInv, WriteSecret, At, EnsurePath, JobOK, LogInv
<1>1. UNCHANGED <<log, keys>>
  BY DEF WriteSecret, garage
<1>2. PICK s, u, r : s = job.obj.secretName /\ u = job.obj.uid /\ r = job.name
  OBVIOUS
<1>3. /\ s \in SecretNames /\ [id |-> job.obj.status.id, uid |-> u] \in keys
      /\ secrets[s].exists => secrets[s].owner = u
      /\ job.sec.exists => job.sec.owner = u
      /\ \A i \in Index(r) : ~ClaimsReady(log[r][i])
      /\ \A n \in Names : \A i \in Index(n) :
           Exists(n, i) /\ log[n][i].uid = u => n = r
  BY <1>0, <1>2
  DEF Object, ReadyJob, Delivering, Following, WorkerInv, Owning
<1> DEFINE new == [exists |-> TRUE, owner |-> u, id |-> job.obj.status.id]
<1>4. ASSUME secrets' = [secrets EXCEPT ![s] = new]
      PROVE  ReadyLog' /\ Available(u)' /\ secrets'[s] = new
  <2>1. /\ secrets'[s] = new
        /\ \A t \in SecretNames \ {s} : secrets'[t] = secrets[t]
    BY <1>0, <1>3, <1>4 DEF EnvOK
  <2>2. Available(u)'
    <3>1. \E t \in SecretNames, k \in keys' :
            k.uid = u /\ secrets'[t] = [exists |-> TRUE, owner |-> u, id |-> k.id]
      BY <1>1, <1>3, <2>1
    <3> QED
      BY <3>1 DEF Available
  <2>3. ASSUME NEW n \in Names, NEW i \in Index(n), Exists(n, i)
        PROVE  /\ ClaimsReady(log[n][i]) =>
                    secrets'[log[n][i].secretName] = secrets[log[n][i].secretName]
               /\ Available(log[n][i].uid) => Available(log[n][i].uid)'
    <3>1. PICK o : o = log[n][i]
      OBVIOUS
    <3>2. o \in Object
      BY <1>0, <2>3, <3>1, WorkerFacts, LogFacts DEF Version, Exists
    <3>3. ASSUME ClaimsReady(o)
          PROVE  secrets'[o.secretName] = secrets[o.secretName]
      <4>1. Usable(o)
        BY <1>0, <2>3, <3>1, <3>3 DEF ReadyLog, ReportsTrue
      <4>2. o.secretName # s
        BY <1>3, <2>3, <3>1, <3>3, <4>1 DEF Usable
      <4> QED
        BY <2>1, <3>2, <4>2 DEF Object
    <3>4. ASSUME Available(o.uid)
          PROVE  Available(o.uid)'
      <4>1. PICK t \in SecretNames, k \in keys :
              /\ k.uid = o.uid
              /\ secrets[t] = [exists |-> TRUE, owner |-> o.uid, id |-> k.id]
        BY <3>4 DEF Available
      <4>2. CASE t = s
        BY <1>3, <2>2, <4>1, <4>2
      <4>3. CASE t # s
        BY <1>1, <2>1, <4>1, <4>3 DEF Available
      <4> QED
        BY <4>2, <4>3
    <3> QED
      BY <1>1, <3>1, <3>3, <3>4 DEF Available
  <2>4. ReadyLog'
    BY <1>0, <1>1, <2>3, SecretsReady
  <2> QED
    BY <2>1, <2>2, <2>4
<1>5. [secrets EXCEPT ![job.obj.secretName] =
         [exists |-> TRUE, id |-> job.obj.status.id,
          owner |-> IF job.sec.exists THEN job.sec.owner ELSE job.obj.uid]]
      = [secrets EXCEPT ![s] = new]
  BY <1>2, <1>3
<1>6. ASSUME secrets' = [secrets EXCEPT ![s] = new], SecretWritten
      PROVE  ReadyInv'
  <2>1. ReadyJob'
    BY <1>0, <1>1, <1>2, <1>3, <1>4, <1>6, WrittenReady
  <2> QED
    BY <1>4, <1>6, <2>1 DEF ReadyInv
<1>7. ASSUME secrets' = secrets \/ secrets' = [secrets EXCEPT ![s] = new],
             SecretNotReady("Failed")
      PROVE  ReadyInv'
  <2>1. ReadyLog' /\ (Available(u) => Available(u)')
    <3>1. CASE secrets' = secrets
      BY <1>0, <1>1, <3>1, SameReadyLog DEF Available
    <3> QED
      BY <1>4, <1>7, <3>1
  <2>2. ReadyJob'
    BY <1>0, <1>1, <1>2, <1>7, <2>1, NotReady
  <2> QED
    BY <2>1, <2>2 DEF ReadyInv
<1> HIDE DEF new
<1>8. \/ secrets' = [secrets EXCEPT ![s] = new] /\ SecretWritten
      \/ /\ secrets' = secrets \/ secrets' = [secrets EXCEPT ![s] = new]
         /\ SecretNotReady("Failed")
  BY <1>5 DEF WriteSecret
<1> QED
  BY <1>6, <1>7, <1>8

\* The Secret of an earlier spec is deleted, and it is nobody else's.
LEMMA DeleteOldSecretReady ==
  ASSUME Inv, ReadyInv, NoSharedSecret, DeleteOldSecret
  PROVE  ReadyInv'
<1>0. /\ TypeInv /\ LogInv /\ WorkerInv /\ ReadyLog /\ ReadyJob
      /\ EnvOK /\ job \in Job /\ job.pc = "DeleteOldSecret" /\ job.pc \in EnsurePath
      /\ job.obj \in Object /\ Holding /\ IDsApart
  BY WorkerFacts
  DEF Inv, ReadyInv, DeleteOldSecret, At, EnsurePath, JobOK, LogInv
<1>1. UNCHANGED <<log, keys>>
  BY DEF DeleteOldSecret, garage
<1>2. PICK s, u, r, old : /\ s = job.obj.secretName /\ u = job.obj.uid
                          /\ r = job.name /\ old = job.obj.status.secretName
  OBVIOUS
<1>3. /\ s \in SecretNames /\ s # old
      /\ [id |-> job.obj.status.id, uid |-> u] \in keys
      /\ secrets[s] = [exists |-> TRUE, owner |-> u, id |-> job.obj.status.id]
      /\ secrets[old].exists => secrets[old].owner = u
      /\ \A i \in Index(r) :
           ClaimsReady(log[r][i]) => log[r][i].secretName = s
      /\ \A n \in Names : \A i \in Index(n) :
           Exists(n, i) /\ log[n][i].uid = u => n = r
  BY <1>0, <1>2
  DEF Object, ReadyJob, Delivering, Following, Usable, WorkerInv, Owning,
      NoSharedSecret
<1>4. ASSUME secrets' = [secrets EXCEPT ![old] = NoSecret]
      PROVE  ReadyLog' /\ Available(u)' /\ secrets'[s] = secrets[s]
  <2>1. \A t \in SecretNames \ {old} : secrets'[t] = secrets[t]
    BY <1>0, <1>4 DEF EnvOK
  <2>2. Available(u)'
    <3>1. \E t \in SecretNames, k \in keys' :
            k.uid = u /\ secrets'[t] = [exists |-> TRUE, owner |-> u, id |-> k.id]
      BY <1>1, <1>3, <2>1
    <3> QED
      BY <3>1 DEF Available
  <2>3. ASSUME NEW n \in Names, NEW i \in Index(n), Exists(n, i)
        PROVE  /\ ClaimsReady(log[n][i]) =>
                    secrets'[log[n][i].secretName] = secrets[log[n][i].secretName]
               /\ Available(log[n][i].uid) => Available(log[n][i].uid)'
    <3>1. PICK o : o = log[n][i]
      OBVIOUS
    <3>2. o \in Object
      BY <1>0, <2>3, <3>1, WorkerFacts, LogFacts DEF Version, Exists
    <3>3. ASSUME ClaimsReady(o)
          PROVE  secrets'[o.secretName] = secrets[o.secretName]
      <4>1. Usable(o)
        BY <1>0, <2>3, <3>1, <3>3 DEF ReadyLog, ReportsTrue
      <4>2. o.secretName # old
        BY <1>3, <2>3, <3>1, <3>3, <4>1 DEF Usable
      <4> QED
        BY <2>1, <3>2, <4>2 DEF Object
    <3>4. ASSUME Available(o.uid)
          PROVE  Available(o.uid)'
      <4>1. PICK t \in SecretNames, k \in keys :
              /\ k.uid = o.uid
              /\ secrets[t] = [exists |-> TRUE, owner |-> o.uid, id |-> k.id]
        BY <3>4 DEF Available
      <4>2. CASE t = old
        BY <1>3, <2>2, <4>1, <4>2
      <4>3. CASE t # old
        BY <1>1, <2>1, <4>1, <4>3 DEF Available
      <4> QED
        BY <4>2, <4>3
    <3> QED
      BY <1>1, <3>1, <3>3, <3>4 DEF Available
  <2>4. ReadyLog'
    BY <1>0, <1>1, <2>3, SecretsReady
  <2> QED
    BY <1>3, <2>1, <2>2, <2>4
<1>5. CASE /\ secrets' = [secrets EXCEPT ![old] = NoSecret]
           /\ job' = [job EXCEPT !.pc = "UpdateStatus", !.obj = SecretDone(job.obj)]
  <2>1. ReadyJob'
    BY <1>0, <1>1, <1>2, <1>3, <1>4, <1>5, WrittenReady
  <2> QED
    BY <1>4, <1>5, <2>1 DEF ReadyInv
<1>6. CASE /\ secrets' = secrets \/ secrets' = [secrets EXCEPT ![old] = NoSecret]
           /\ SecretNotReady("Failed")
  <2>1. ReadyLog' /\ (Available(u) => Available(u)')
    <3>1. CASE secrets' = secrets
      BY <1>0, <1>1, <3>1, SameReadyLog DEF Available
    <3> QED
      BY <1>4, <1>6, <3>1
  <2>2. ReadyJob'
    BY <1>0, <1>1, <1>2, <1>6, <2>1, NotReady
  <2> QED
    BY <2>1, <2>2 DEF ReadyInv
<1> QED
  BY <1>2, <1>5, <1>6 DEF DeleteOldSecret
-----------------------------------------------------------------------------
(* The worker begins with a version, and ends.                              *)

\* What the cache holds goes with every report of Ready still to come.
LEMMA GetReady ==
  ASSUME Inv, ReadyInv, Get
  PROVE  ReadyInv'
<1>0. /\ TypeInv /\ LogInv /\ WorkerInv /\ ReadyLog /\ ReadyJob
      /\ job \in Job /\ job.pc = "Get" /\ job.name \in Names /\ log \in Log
  BY WorkerFacts DEF Inv, ReadyInv, Get, At, JobOK
<1>1. UNCHANGED <<log, keys, secrets>>
  BY DEF Get, garage
<1>2. ReadyLog'
  BY <1>0, <1>1, SameReadyLog
<1>3. WorkerInv'
  BY <1>0, GetKeeps
<1>4. PICK r \in Names, o \in Version : r = job.name /\ o = cached(job.name)
  BY <1>0, LogFacts
<1>5. /\ 1 \in Index(r) /\ Last(r) \in Index(r) /\ 1 <= Last(r)
      /\ o = log[r][1] /\ stored(r) = log[r][Last(r)]
      /\ \A i \in Index(r) : i \in Nat /\ 1 <= i /\ 1 \in 1 .. i
  <2>1. \A i \in Index(r) : i \in Nat /\ 1 <= i
    BY <1>0, IndexFacts
  <2> QED
    BY <1>0, <1>4, <2>1, IndexFacts
<1>6. ASSUME NEW i \in Index(r), Exists(r, i), Delivered(log[r][i])
      PROVE  /\ o # NoObject /\ o.uid = log[r][i].uid /\ o.finalizer
             /\ ClaimsReady(log[r][i]) => o.gen = log[r][i].gen
  BY <1>0, <1>5, <1>6 DEF ReadyLog, Pinned, Exists
<1>7. CASE o # NoObject /\ ~o.deleting /\ ~o.finalizer /\ Goto("AddFinalizer")
  <2>1. job'.pc = "AddFinalizer" /\ job'.name = r
    BY <1>0, <1>4, <1>7 DEF Goto, Job
  <2>2. Following'
    BY <1>1, <1>6, <1>7, <2>1 DEF Following, EnsurePath, Exists, Index
  <2>3. Delivering'
    BY <2>1 DEF Delivering
  <2> QED
    BY <1>2, <2>2, <2>3 DEF ReadyInv, ReadyJob
<1>8. ASSUME o # NoObject, ~o.deleting, o.finalizer, NEW c,
             BeginReconcile(o, c)
      PROVE  ReadyInv'
  <2>1. /\ job'.name = r /\ job'.obj = o
        /\ job'.pc \in {"UpdateStatus", "GetKey", "LookupKey"}
        /\ job'.pc = "UpdateStatus" => UpToDate(o)
    BY <1>0, <1>4, <1>8 DEF BeginReconcile, Job
  <2>2. StatusOK(o)
    BY <1>0, <1>5, <1>8 DEF ReadyLog, Statuses, Exists
  <2>3. /\ Delivered(o) => Available(o.uid)
        /\ ClaimsReady(o) => Usable(o)
    BY <1>0, <1>5, <1>8 DEF ReadyLog, ReportsTrue, Exists
  <2>4. SpecFollows(o, stored(r))
    <3>1. stored(r) # NoObject /\ stored(r).uid = o.uid
      BY <1>1, <1>3, <2>1 DEF WorkerInv, Ensuring, EnsurePath, stored
    <3> QED
      BY <1>0, <1>5, <1>8, <3>1 DEF ReadyLog, SpecsFollow, Exists
  <2>5. ASSUME NEW i \in Index(r), ClaimsReady(log[r][i])
        PROVE  log[r][i].uid = o.uid /\ log[r][i].secretName = o.secretName
    <3>1. Exists(r, i) /\ Delivered(log[r][i])
      BY <1>0, <2>5 DEF ClaimsReady, Ready, Exists, ReadyLog, Statuses, StatusOK
    <3>2. o.uid = log[r][i].uid /\ o.gen = log[r][i].gen
      BY <1>6, <2>5, <3>1
    <3>3. SpecFollows(o, log[r][i])
      BY <1>0, <1>5, <1>8, <3>1, <3>2 DEF ReadyLog, SpecsFollow, Exists
    <3> QED
      BY <3>2, <3>3 DEF SpecFollows
  <2>6. /\ Index(r)' = Index(r) /\ log'[r] = log[r] /\ stored(r)' = stored(r)
        /\ Available(o.uid) => Available(o.uid)'
        /\ Usable(o) => Usable(o)'
    BY <1>1 DEF Index, stored, Available, Usable
  <2>7. Following'
    <3>1. Delivered(job'.obj) => Available(job.obj.uid)'
      BY <2>1, <2>3, <2>6 DEF Available
    <3> QED
      BY <2>1, <2>2, <2>4, <2>5, <2>6, <3>1 DEF Following
  <2>8. Delivering'
    <3>1. job'.pc = "UpdateStatus" /\ Ready(o.status) => ClaimsReady(o)
      BY <1>8, <2>1 DEF UpToDate, ClaimsReady
    <3> QED
      BY <1>1, <2>1, <2>3, <3>1 DEF Delivering, Usable
  <2> QED
    BY <1>2, <2>7, <2>8 DEF ReadyInv, ReadyJob
<1>9. CASE Return(FALSE)
  BY <1>2, <1>9, NothingInHand DEF Return, Idle, EnsurePath, ReadyInv
<1>10. CASE \E id, p : p \in DeletePath /\ job' = [job EXCEPT !.obj = o,
                !.current = fresh(r), !.ext = id, !.pc = p]
  <2>1. job'.pc \in DeletePath
    BY <1>0, <1>10 DEF Job
  <2> QED
    BY <1>2, <2>1, NothingInHand DEF DeletePath, EnsurePath, ReadyInv
<1> QED
  BY <1>4, <1>7, <1>8, <1>9, <1>10 DEF Get, DeletePath

\* Nothing was delivered before the finalizer is there.
LEMMA AddFinalizerReady ==
  ASSUME Inv, ReadyInv, AddFinalizer
  PROVE  ReadyInv'
<1>0. /\ TypeInv /\ LogInv /\ ReadyLog /\ ReadyJob
      /\ job \in Job /\ job.name \in Names /\ job.pc = "AddFinalizer"
      /\ log \in Log /\ log' \in Log
  BY WorkerFacts, StepLog DEF Inv, ReadyInv, AddFinalizer, At, JobOK, Step
<1>1. UNCHANGED <<keys, secrets>>
  BY DEF AddFinalizer, garage
<1>2. PICK r \in Names : r = job.name
  BY <1>0
<1>3. \A i \in Index(r) : Exists(r, i) => ~Delivered(log[r][i])
  BY <1>0, <1>2 DEF ReadyJob, Following
<1> DEFINE v == [stored(r) EXCEPT !.finalizer = TRUE]
<1>4. ASSUME UNCHANGED log, job' = Idle
      PROVE  ReadyInv'
  BY <1>0, <1>1, <1>4, SameReadyLog, NothingInHand DEF ReadyInv, Idle, EnsurePath
<1>5. ASSUME stored(r) # NoObject, Store(r, v),
             job' = Idle \/ BeginReconcile(v, TRUE)
      PROVE  ReadyInv'
  <2>1. Last(r) \in Index(r) /\ stored(r) = log[r][Last(r)]
    BY <1>0, IndexFacts
  <2>2. stored(r) \in Object
    BY <1>0, <1>5, LogFacts DEF Version
  <2>3. /\ v \in Object /\ v.uid = stored(r).uid /\ v.status = stored(r).status
        /\ SameSpec(stored(r), v) /\ v.gen \in Nat
    BY <2>2 DEF Object, SameSpec
  <2>4. StatusOK(stored(r)) /\ ~Delivered(stored(r))
    BY <1>0, <1>3, <1>5, <2>1 DEF ReadyLog, Statuses, Exists
  <2> HIDE DEF v
  <2>5. /\ StatusOK(v) /\ ~Delivered(v) /\ ~Ready(v.status)
        /\ SpecFollows(stored(r), v) /\ SpecFollows(v, v)
    BY <2>3, <2>4 DEF StatusOK, Delivered, Ready, SpecFollows, SameSpec
  <2>6. Reports(r, v) /\ v \in Version
    BY <1>5, <2>3, <2>5 DEF Reports, ClaimsReady, Version
  <2>7. ReadyLog'
    BY <1>0, <1>1, <1>5, <2>6, WriteReady
  <2>8. CASE BeginReconcile(v, TRUE)
    <3>1. /\ job'.name = r /\ job'.obj = v
          /\ job'.pc \in {"UpdateStatus", "GetKey", "LookupKey"}
      BY <1>0, <1>2, <2>8 DEF BeginReconcile, Job
    <3>2. /\ stored(r)' = v
          /\ \A i \in Index(r)' :
               (i \in Index(r) /\ log'[r][i] = log[r][i]) \/ log'[r][i] = v
      BY <1>0, <1>5, <2>6, StoreView
    <3>3. \A i \in Index(r)' : ~ClaimsReady(log'[r][i])
      <4>1. ASSUME NEW i \in Index(r) PROVE ~ClaimsReady(log[r][i])
        BY <1>0, <1>3
        DEF ReadyLog, Statuses, StatusOK, ClaimsReady, Ready, Exists
      <4> QED
        BY <2>5, <3>2, <4>1 DEF ClaimsReady
    <3>4. Following'
      BY <2>5, <3>1, <3>2, <3>3 DEF Following
    <3>5. Delivering'
      BY <2>5, <3>1 DEF Delivering
    <3> QED
      BY <2>7, <3>4, <3>5 DEF ReadyInv, ReadyJob
  <2>9. CASE job' = Idle
    <3>1. ReadyJob'
      BY <2>9, NothingInHand DEF Idle, EnsurePath
    <3> QED
      BY <2>7, <3>1 DEF ReadyInv
  <2> QED
    BY <1>5, <2>8, <2>9
<1> QED
  BY <1>2, <1>4, <1>5 DEF AddFinalizer, Return

\* The status is written on what the cache and the API server agree on.
LEMMA UpdateStatusReady ==
  ASSUME Inv, ReadyInv, UpdateStatus
  PROVE  ReadyInv'
<1>0. /\ TypeInv /\ LogInv /\ WorkerInv /\ ReadyLog /\ ReadyJob
      /\ job.name \in Names /\ job.pc = "UpdateStatus" /\ job.pc \in EnsurePath
      /\ job.obj \in Object /\ job.obj.status \in Status /\ log \in Log
  BY WorkerFacts DEF Inv, ReadyInv, UpdateStatus, At, EnsurePath
<1>1. UNCHANGED <<keys, secrets>> /\ job' = Idle
  BY DEF UpdateStatus, garage, Return
<1>2. ReadyJob'
  BY <1>1, NothingInHand DEF Idle, EnsurePath
<1>3. PICK r \in Names, o \in Object : r = job.name /\ o = job.obj
  BY <1>0
<1> DEFINE st == UpdateAccessKeyCondition(o)
           v  == [stored(r) EXCEPT !.status = st]
<1>4. ASSUME Store(r, v), fresh(r)
      PROVE  ReadyInv'
  <2>1. /\ stored(r) # NoObject /\ stored(r).uid = o.uid /\ stored(r).finalizer
        /\ StatusOK(o) /\ SpecFollows(o, stored(r))
        /\ Delivered(o) => Available(o.uid)
        /\ Ready(o.status) => Usable(o)
    BY <1>0, <1>3 DEF WorkerInv, Ensuring, ReadyJob, Following, Delivering
  <2>2. stored(r) \in Object /\ o.status \in Status /\ o.gen \in Nat
    BY <1>0, <1>3, <2>1, LogFacts DEF Version, Object
  <2>3. /\ st \in Status /\ st.id = o.status.id
        /\ st.secretName = o.status.secretName
        /\ st.key = o.status.key /\ st.secret = o.status.secret
        /\ st.og <= o.gen
        /\ Ready(st) => st.og = o.gen
    <3> DEFINE og == IF Ready(o.status)
                        \/ (o.status.key # "False" /\ o.status.secret = "Conflict")
                     THEN o.gen ELSE o.status.og
    <3>1. st = [o.status EXCEPT !.og = og, !.seen = o.gen]
      BY <2>2 DEF UpdateAccessKeyCondition, Status
    <3>2. /\ og \in Nat /\ og <= o.gen
          /\ Ready(o.status) => og = o.gen
      BY <2>1, <2>2 DEF Status, StatusOK
    <3> HIDE DEF og
    <3>3. /\ st \in Status /\ st.id = o.status.id
          /\ st.secretName = o.status.secretName
          /\ st.key = o.status.key /\ st.secret = o.status.secret
          /\ st.og = og
      BY <2>2, <3>1, <3>2 DEF Status
    <3> QED
      BY <3>2, <3>3 DEF Ready
  <2> HIDE DEF st
  <2>4. /\ v \in Object /\ v.status = st /\ v.finalizer
        /\ SameSpec(stored(r), v)
    BY <2>1, <2>2, <2>3 DEF Object, SameSpec
  <2> HIDE DEF v
  <2>5. /\ StatusOK(v) /\ SpecFollows(stored(r), v)
    BY <2>1, <2>2, <2>3, <2>4
    DEF StatusOK, SpecFollows, Delivered, SameSpec, Object, Status
  <2>6. ClaimsReady(v) => Usable(v)
    <3>1. ASSUME ClaimsReady(v)
          PROVE  Ready(o.status) /\ v.secretName = o.secretName
      BY <2>1, <2>3, <2>4, <3>1 DEF ClaimsReady, Ready, SpecFollows, SameSpec
    <3> QED
      BY <2>1, <2>3, <2>4, <3>1 DEF Usable, SameSpec
  <2>7. /\ Delivered(v) => Available(v.uid)
        /\ v.uid = stored(r).uid /\ v.gen = stored(r).gen
    BY <2>1, <2>3, <2>4 DEF Delivered, SameSpec
  <2>8. Reports(r, v)
    BY <1>4, <2>1, <2>4, <2>5, <2>6, <2>7 DEF Reports
  <2>9. ReadyLog'
    BY <1>0, <1>1, <1>4, <2>4, <2>8, WriteReady DEF Version
  <2> QED
    BY <1>2, <2>9 DEF ReadyInv
<1>5. CASE UNCHANGED log
  BY <1>0, <1>1, <1>2, <1>5, SameReadyLog DEF ReadyInv
<1>6. UNCHANGED log \/ (Store(r, v) /\ fresh(r))
  BY <1>3 DEF UpdateStatus
<1> QED
  BY <1>4, <1>5, <1>6

\* The key of an AccessKey goes when every version left is being deleted.
LEMMA DeleteReady ==
  ASSUME Inv, ReadyInv, LookupForDelete \/ DeleteKey \/ RemoveFinalizer
  PROVE  ReadyInv'
<1>0. /\ TypeInv /\ LogInv /\ WorkerInv /\ ReadyLog
      /\ job \in Job /\ job.name \in Names /\ job.pc \in DeletePath /\ Holding
      /\ job.obj \in Object /\ log \in Log
  BY WorkerFacts
  DEF Inv, ReadyInv, LookupForDelete, DeleteKey, RemoveFinalizer, At,
      DeletePath, JobOK
<1>1. UNCHANGED secrets
  BY DEF LookupForDelete, DeleteKey, RemoveFinalizer
<1>2. job'.pc \in DeletePath \cup {"idle"}
  <2>1. ASSUME NEW k, job' = [job EXCEPT !.ext = k.id, !.pc = "DeleteKey"]
        PROVE  job'.pc = "DeleteKey"
    BY <1>0, <2>1 DEF Job
  <2>2. Goto("RemoveFinalizer") => job'.pc = "RemoveFinalizer"
    BY <1>0 DEF Goto, Job
  <2>3. \A err : Return(err) => job'.pc = "idle"
    BY DEF Return, Idle
  <2> QED
    BY <2>1, <2>2, <2>3
    DEF LookupForDelete, DeleteKey, RemoveFinalizer, DeletePath
<1>3. ReadyJob'
  BY <1>2, NothingInHand DEF DeletePath, EnsurePath
<1>4. CASE LookupForDelete
  <2>1. UNCHANGED <<log, keys>>
    BY <1>4 DEF LookupForDelete, garage
  <2> QED
    BY <1>0, <1>1, <1>3, <2>1, SameReadyLog DEF ReadyInv
<1>5. CASE RemoveFinalizer
  <2>1. UNCHANGED keys /\ (UNCHANGED log \/ Store(job.name, NoObject))
    BY <1>5 DEF RemoveFinalizer, garage
  <2>2. Reports(job.name, NoObject) /\ NoObject \in Version
    BY DEF Reports, Version
  <2> QED
    BY <1>0, <1>1, <1>3, <2>1, <2>2, SameReadyLog, WriteReady DEF ReadyInv
<1>6. CASE DeleteKey
  <2>1. UNCHANGED log
    BY <1>6 DEF DeleteKey
  <2>2. \A k \in keys : k.uid # job.obj.uid => k \in keys'
    BY <1>6 DEF DeleteKey, At, WorkerInv, Deleting, Inv
  <2>3. Statuses' /\ SpecsFollow' /\ Pinned'
    BY <1>0, <2>1 DEF ReadyLog, Statuses, SpecsFollow, Pinned, Exists, Index
  <2>4. ASSUME NEW n \in Names, NEW i \in Index(n), Exists(n, i),
               ~log[n][i].deleting
        PROVE  /\ ClaimsReady(log[n][i]) => Usable(log[n][i])'
               /\ Delivered(log[n][i]) => Available(log[n][i].uid)'
    <3>1. PICK o : o = log[n][i]
      OBVIOUS
    <3>2. o.uid # job.obj.uid
      <4>1. i \in 1 .. i
        BY <1>0, IndexFacts
      <4> QED
        BY <1>0, <2>4, <3>1, <4>1 DEF WorkerInv, Owning, Deleting
    <3>3. /\ ClaimsReady(o) => Usable(o)
          /\ Delivered(o) => Available(o.uid)
      BY <1>0, <2>4, <3>1 DEF ReadyLog, ReportsTrue
    <3>4. ClaimsReady(o) => Usable(o)'
      BY <1>1, <2>2, <3>2, <3>3 DEF Usable
    <3>5. Delivered(o) => Available(o.uid)'
      BY <1>1, <2>2, <3>2, <3>3 DEF Available
    <3> QED
      BY <2>1, <3>1, <3>4, <3>5 DEF Usable, Available
  <2>5. ReportsTrue'
    <3> SUFFICES ASSUME NEW n \in Names, NEW i \in Index(n), Exists(n, i)
                 PROVE  /\ ClaimsReady(log[n][i]) => Usable(log[n][i])'
                        /\ Delivered(log[n][i]) /\ ~log[n][i].deleting =>
                             Available(log[n][i].uid)'
      BY <2>1 DEF ReportsTrue, Exists, Index, Usable, Available
    <3> QED
      BY <2>4 DEF ClaimsReady
  <2> QED
    BY <1>3, <2>3, <2>5 DEF ReadyInv, ReadyLog
<1> QED
  BY <1>4, <1>5, <1>6
-----------------------------------------------------------------------------
(* Ready tells the truth.                                                   *)

LEMMA InitReady == Init => ReadyInv
<1> SUFFICES ASSUME Init PROVE ReadyInv
  OBVIOUS
<1>1. \A n \in Names : \A i \in Index(n) : ~Exists(n, i)
  BY DEF Init, KubeInit, Exists, Index
<1>2. ReadyLog
  BY <1>1 DEF ReadyLog, Statuses, SpecsFollow, Pinned, ReportsTrue
<1>3. ReadyJob
  BY DEF Init, Idle, ReadyJob, Following, Delivering, EnsurePath
<1> QED
  BY <1>2, <1>3 DEF ReadyInv

LEMMA NextReady ==
  ASSUME Tampering = {}
  PROVE  Inv /\ ReadyInv /\ NoSharedSecret /\ [Next]_vars => ReadyInv'
<1> SUFFICES ASSUME Inv, ReadyInv, NoSharedSecret, [Next]_vars PROVE ReadyInv'
  OBVIOUS
<1>1. CASE UNCHANGED vars
  <2>1. UNCHANGED <<log, keys, secrets, job>>
    BY <1>1 DEF vars, garage
  <2>2. \A n \in Names : NoneWritten(n)
    BY <2>1 DEF NoneWritten, stored, Index
  <2> QED
    BY <2>1, <2>2, SameReadyLog, SameReadyJob DEF ReadyInv, Inv
<1>2. CASE Step
  BY <1>2, GetReady, AddFinalizerReady, KeyReady, ReadSecretReady,
     WriteSecretReady, DeleteOldSecretReady, UpdateStatusReady, DeleteReady
  DEF Step
<1> QED
  BY <1>1, <1>2, WorldReady DEF Next, World

\* What the stored version says follows from the invariants.
LEMMA ReadyFollows ==
  ASSUME Inv, ReadyInv
  PROVE  ReadyUsable /\ KeepsCredentials
<1>1. /\ TypeInv /\ LogInv /\ ReadyLog /\ log \in Log
  BY WorkerFacts DEF Inv, ReadyInv
<1> SUFFICES ASSUME NEW n \in Names, NEW o, o = stored(n), o # NoObject
             PROVE  /\ ClaimsReady(o) => Usable(o)
                    /\ o.status.secretName # NoName /\ ~o.deleting =>
                         \E s \in SecretNames :
                           secrets[s] = [exists |-> TRUE, owner |-> o.uid,
                                         id |-> o.status.id]
  BY DEF ReadyUsable, KeepsCredentials, Usable, ClaimsReady
<1>2. Last(n) \in Index(n) /\ o = log[n][Last(n)]
  BY <1>1, IndexFacts
<1>3. /\ StatusOK(o) /\ Records(o)
      /\ ClaimsReady(o) => Usable(o)
      /\ Delivered(o) /\ ~o.deleting => Available(o.uid)
  BY <1>1, <1>2 DEF ReadyLog, Statuses, ReportsTrue, LogInv, Recorded, Exists
<1> QED
  BY <1>3 DEF Delivered, Available, Records, StatusOK

\* While nobody else writes Secrets or deletes keys, and no AccessKey takes the
\* name of a Secret that another one is about to clean up, every status between
\* API server and cache that reports Ready reports a key and a Secret that are
\* there: reconcileAccessKey writes what it then reports, and a status is only
\* written while the cache is up to date.
THEOREM ReadyTellsTheTruth ==
  ASSUME Tampering = {}
  PROVE  Spec /\ []NoSharedSecret => []ReadyUsable
<1>1. "deleteKey" \notin Tampering
  OBVIOUS
<1>2. Spec => []Inv
  BY <1>1, Invariant
<1>3. Inv /\ ReadyInv /\ NoSharedSecret /\ [Next]_vars => ReadyInv'
  BY NextReady
<1>4. Inv /\ ReadyInv => ReadyUsable
  BY ReadyFollows
<1> QED
  BY <1>2, <1>3, <1>4, InitReady, PTL DEF Spec

\* Under the same conditions an AccessKey that once delivered a Secret always
\* has one with its key: the old Secret goes when the new one is written.
THEOREM CredentialsKept ==
  ASSUME Tampering = {}
  PROVE  Spec /\ []NoSharedSecret => []KeepsCredentials
<1>1. "deleteKey" \notin Tampering
  OBVIOUS
<1>2. Spec => []Inv
  BY <1>1, Invariant
<1>3. Inv /\ ReadyInv /\ NoSharedSecret /\ [Next]_vars => ReadyInv'
  BY NextReady
<1>4. Inv /\ ReadyInv => KeepsCredentials
  BY ReadyFollows
<1> QED
  BY <1>2, <1>3, <1>4, InitReady, PTL DEF Spec
-----------------------------------------------------------------------------
(* One name for AccessKeys: nobody else has a Secret it recorded.           *)

\* Secrets disappear, or become the worker's AccessKey's.
LEMMA EnsureRecords ==
  ASSUME Inv, RecordedOwn, \A m, n \in Names : m = n,
         job.pc \in EnsurePath, UNCHANGED log,
         \A t \in SecretNames : secrets'[t].exists =>
           \/ secrets[t].exists /\ secrets'[t].owner = secrets[t].owner
           \/ secrets'[t].owner = job.obj.uid,
         job'.pc \in EnsurePath =>
           /\ job'.obj.uid = job.obj.uid
           /\ \/ job'.obj.status.secretName = job.obj.status.secretName
              \/ /\ job'.obj.status.secretName = job.obj.secretName
                 /\ secrets'[job.obj.secretName].owner = job.obj.uid
  PROVE  RecordedOwn'
<1>0. /\ TypeInv /\ WorkerInv /\ log \in Log /\ job.obj \in Object
      /\ job.obj.status \in Status /\ job.name \in Names
  BY WorkerFacts DEF Inv
<1>1. PICK r \in Names : r = job.name
  BY <1>0
<1>2. stored(r) # NoObject /\ stored(r).uid = job.obj.uid
  BY <1>0, <1>1 DEF WorkerInv, Ensuring
<1>3. ASSUME NEW n \in Names, NEW i \in Index(n), Exists(n, i),
             stored(n) # NoObject, log[n][i].uid = stored(n).uid
      PROVE  RecordsOwnSecret(log[n][i])'
  <2>1. PICK o \in Object : o = log[n][i]
    BY <1>0, <1>3, LogFacts DEF Version, Exists
  <2>2. RecordsOwnSecret(o)
    BY <1>3, <2>1 DEF RecordedOwn, RecordedLog
  <2>3. o.uid = job.obj.uid
    BY <1>2, <1>3, <2>1
  <2>4. Delivered(o) => o.status.secretName \in SecretNames
    BY DEF Object, Status, Delivered
  <2>5. RecordsOwnSecret(o)'
    BY <2>2, <2>3, <2>4 DEF RecordsOwnSecret
  <2> QED
    BY <2>1, <2>5 DEF RecordsOwnSecret
<1>4. ASSUME job'.pc \in EnsurePath
      PROVE  RecordsOwnSecret(job.obj)'
  <2>1. RecordsOwnSecret(job.obj)
    BY DEF RecordedOwn
  <2>2. Delivered(job.obj) => job.obj.status.secretName \in SecretNames
    BY <1>0 DEF Object, Status, Delivered
  <2> QED
    BY <1>4, <2>1, <2>2 DEF RecordsOwnSecret, Delivered
<1>5. UNCHANGED stored(r) /\ \A n \in Names : Index(n)' = Index(n) /\ stored(n)' = stored(n)
  BY DEF stored, Index
<1> QED
  BY <1>3, <1>4, <1>5 DEF RecordedOwn, RecordedLog, Exists, RecordsOwnSecret

LEMMA EnsureRecorded ==
  ASSUME Inv, ReadyInv, RecordedOwn, \A m, n \in Names : m = n,
         \/ GetKey \/ LookupKey \/ CreateKey \/ GetSecret \/ ReadSecret
         \/ WriteSecret \/ DeleteOldSecret
  PROVE  RecordedOwn'
<1>0. /\ TypeInv /\ WorkerInv /\ ReadyJob /\ EnvOK /\ job \in Job
      /\ job.pc \in EnsurePath /\ job.obj \in Object /\ job.obj.status \in Status
      /\ job.obj.secretName \in SecretNames
  BY WorkerFacts
  DEF Inv, ReadyInv, GetKey, LookupKey, CreateKey, GetSecret, ReadSecret,
      WriteSecret, DeleteOldSecret, At, EnsurePath, JobOK, Object
<1>1. UNCHANGED log
  BY DEF GetKey, LookupKey, CreateKey, GetSecret, ReadSecret, WriteSecret,
         DeleteOldSecret
<1> DEFINE Kept == /\ job'.obj.uid = job.obj.uid
                   /\ job'.obj.status.secretName = job.obj.status.secretName
           Done == /\ job'.obj.uid = job.obj.uid
                   /\ job'.obj.status.secretName = job.obj.secretName
<1>2. /\ KeyFailed => Kept
      /\ \A id \in Nat : KeyFound(id) => Kept
      /\ \A reason \in {"Failed", "Conflict"} : SecretNotReady(reason) => Kept
      /\ \A p : Goto(p) => Kept
      /\ SecretWritten => Kept \/ Done
  <2>1. KeyFailed => Kept
    BY <1>0, ReadyHelperFacts DEF SameSpec, Status
  <2>2. \A id \in Nat : KeyFound(id) => Kept
    BY <1>0, ReadyHelperFacts DEF SameSpec, Status
  <2>3. \A reason \in {"Failed", "Conflict"} : SecretNotReady(reason) => Kept
    BY <1>0, ReadyHelperFacts DEF SameSpec, Status
  <2>4. \A p : Goto(p) => Kept
    BY <1>0, HelperFacts
  <2>5. SecretWritten => Kept \/ Done
    <3> SUFFICES ASSUME SecretWritten
                 PROVE  Kept \/ Done
      OBVIOUS
    <3>1. \/ job'.obj = job.obj
          \/ job'.obj = SecretDone(job.obj)
      BY <1>0, ReadyHelperFacts
    <3>2. SecretDone(job.obj).uid = job.obj.uid
      BY <1>0, ReadyHelperFacts DEF SameSpec
    <3>3. SecretDone(job.obj).status.secretName = job.obj.secretName
      BY <1>0, ReadyHelperFacts DEF Status
    <3> QED
      BY <3>1, <3>2, <3>3
  <2> QED
    BY <2>1, <2>2, <2>3, <2>4, <2>5
<1> HIDE DEF Kept, Done
<1>3. ASSUME UNCHANGED secrets, Kept
      PROVE  RecordedOwn'
  BY <1>0, <1>1, <1>3, EnsureRecords DEF Kept
<1>4. CASE GetKey \/ LookupKey \/ CreateKey \/ GetSecret
  <2>1. UNCHANGED secrets
    BY <1>4 DEF GetKey, LookupKey, CreateKey, GetSecret
  <2>2. \A k \in keys : k.id \in Nat
    BY <1>0 DEF EnvOK, Key
  <2>3. nextKey \in Nat /\ job.obj.status.id \in Nat
    BY <1>0 DEF EnvOK, Status
  <2>4. Kept
    BY <1>2, <1>4, <2>2, <2>3 DEF GetKey, LookupKey, CreateKey, GetSecret
  <2> QED
    BY <1>3, <2>1, <2>4
<1>5. CASE ReadSecret
  <2>1. UNCHANGED secrets
    BY <1>5 DEF ReadSecret
  <2>2. secrets[job.obj.secretName].exists =>
          secrets[job.obj.secretName].owner = job.obj.uid
    BY <1>0, <1>5 DEF ReadSecret, At, ReadyJob, Delivering
  <2>3. ASSUME job' = [job EXCEPT !.pc = "WriteSecret",
                                  !.sec = secrets[job.obj.secretName],
                                  !.secCurrent = TRUE]
        PROVE  Kept
    BY <1>0, <2>3 DEF Job, Kept
  <2>4. Kept \/ (Done /\ secrets[job.obj.secretName].exists)
    BY <1>2, <1>5, <2>3 DEF ReadSecret
  <2> QED
    BY <1>0, <1>1, <1>3, <2>1, <2>2, <2>4, EnsureRecords DEF Done
<1>6. CASE WriteSecret
  <2>0. PICK s \in SecretNames : s = job.obj.secretName
    BY <1>0
  <2>1. job.sec.exists => job.sec.owner = job.obj.uid
    BY <1>0, <1>6 DEF WriteSecret, At, ReadyJob, Delivering
  <2>2. ASSUME secrets' = [secrets EXCEPT ![s] =
                 [exists |-> TRUE, id |-> job.obj.status.id,
                  owner |-> IF job.sec.exists THEN job.sec.owner
                                              ELSE job.obj.uid]]
        PROVE  /\ secrets'[s].owner = job.obj.uid
               /\ \A t \in SecretNames \ {s} : secrets'[t] = secrets[t]
    BY <1>0, <2>1, <2>2 DEF EnvOK
  <2>3. Kept \/ Done
    BY <1>2, <1>6 DEF WriteSecret
  <2>4. CASE UNCHANGED secrets /\ Kept
    BY <1>3, <2>4
  <2>5. CASE /\ secrets'[s].owner = job.obj.uid
             /\ \A t \in SecretNames \ {s} : secrets'[t] = secrets[t]
    BY <1>0, <1>1, <2>0, <2>3, <2>5, EnsureRecords DEF Kept, Done
  <2> QED
    BY <1>2, <1>6, <2>0, <2>2, <2>4, <2>5 DEF WriteSecret
<1>7. CASE DeleteOldSecret
  <2>1. /\ secrets[job.obj.secretName].owner = job.obj.uid
        /\ job.obj.status.secretName # job.obj.secretName
    BY <1>0, <1>7 DEF DeleteOldSecret, At, ReadyJob, Delivering, Usable
  <2>2. \/ UNCHANGED secrets
        \/ secrets' = [secrets EXCEPT ![job.obj.status.secretName] = NoSecret]
    BY <1>7 DEF DeleteOldSecret
  <2>3. /\ \A t \in SecretNames : secrets'[t].exists => secrets'[t] = secrets[t]
        /\ secrets'[job.obj.secretName] = secrets[job.obj.secretName]
    BY <1>0, <2>1, <2>2 DEF EnvOK, NoSecret
  <2>4. ASSUME job' = [job EXCEPT !.pc = "UpdateStatus", !.obj = SecretDone(job.obj)]
        PROVE  Done
    BY <1>0, <2>4, ReadyHelperFacts DEF Job, SameSpec, Status, Done
  <2>5. Kept \/ Done
    BY <1>2, <1>7, <2>4 DEF DeleteOldSecret
  <2> QED
    BY <1>0, <1>1, <2>1, <2>3, <2>5, EnsureRecords DEF Kept, Done
<1> QED
  BY <1>4, <1>5, <1>6, <1>7
\* The versions and Secrets that are left are ones that were there.
LEMMA DropRecorded ==
  ASSUME TypeInv, RecordedLog, log' \in Log,
         NEW d \in [Names -> Nat], Dropped(d),
         \A t \in SecretNames : secrets'[t].exists => secrets'[t] = secrets[t]
  PROVE  RecordedLog'
<1> SUFFICES ASSUME NEW n \in Names, NEW i \in Index(n)', log'[n][i] # NoObject,
                    stored(n)' # NoObject, log'[n][i].uid = stored(n)'.uid
             PROVE  RecordsOwnSecret(log[n][i])'
  BY DEF RecordedLog, Exists
<1>1. PICK j \in Index(n) : log'[n][i] = log[n][j] /\ stored(n)' = stored(n)
  BY DEF Dropped
<1>2. log[n][j] \in Object
  BY <1>1, WorkerFacts, LogFacts DEF Version
<1>3. RecordsOwnSecret(log[n][j])
  BY <1>1 DEF RecordedLog, Exists
<1>4. Delivered(log[n][j]) => log[n][j].status.secretName \in SecretNames
  BY <1>2 DEF Object, Status, Delivered
<1> QED
  BY <1>1, <1>3, <1>4 DEF RecordsOwnSecret, Delivered

\* A version of the AccessKey is written, of a new one, or none.
LEMMA WriteRecorded ==
  ASSUME TypeInv, LogInv, RecordedLog, NEW n \in Names, NEW v \in Version,
         Store(n, v), log' \in Log, UNCHANGED secrets,
         v # NoObject => /\ RecordsOwnSecret(v)
                         /\ \/ stored(n) # NoObject /\ v.uid = stored(n).uid
                            \/ v.uid = nextUID
  PROVE  RecordedLog'
<1>0. /\ log \in Log /\ nextUID \in Nat
      /\ \A m \in Names : stored(m)' = IF m = n THEN v ELSE stored(m)
      /\ \A m \in Names : \A i \in Index(m)' :
           \/ i \in Index(m) /\ log'[m][i] = log[m][i]
           \/ m = n /\ log'[m][i] = v
  BY WorkerFacts, StoreView DEF EnvOK
<1> SUFFICES ASSUME NEW m \in Names, NEW i \in Index(m)', log'[m][i] # NoObject,
                    stored(m)' # NoObject, log'[m][i].uid = stored(m)'.uid
             PROVE  RecordsOwnSecret(log[m][i])'
  BY DEF RecordedLog, Exists
<1>1. PICK o : o = log'[m][i]
  OBVIOUS
<1>2. CASE o = v
  BY <1>1, <1>2 DEF RecordsOwnSecret, Delivered
<1>3. CASE i \in Index(m) /\ o = log[m][i]
  <2>1. o \in Object /\ o.uid # nextUID
    <3>1. o \in Object /\ o.uid < nextUID
      BY <1>0, <1>1, <1>3, LogFacts DEF Version, LogInv, UIDsApart, Exists
    <3> QED
      BY <1>0, <3>1 DEF Object
  <2>2. stored(m) # NoObject /\ o.uid = stored(m).uid
    BY <1>0, <1>1, <2>1
  <2>3. RecordsOwnSecret(o)
    BY <1>1, <1>3, <2>2 DEF RecordedLog, Exists
  <2> QED
    BY <1>1, <2>3 DEF RecordsOwnSecret, Delivered
<1> QED
  BY <1>0, <1>1, <1>2, <1>3

\* The worker takes a version from the log.
LEMMA TakeRecorded ==
  ASSUME Inv', RecordedLog', NEW n \in Names, n = job'.name,
         NEW i \in Index(n)', job'.pc \in EnsurePath => job'.obj = log'[n][i]
  PROVE  RecordedOwn'
<1> SUFFICES ASSUME job'.pc \in EnsurePath PROVE RecordsOwnSecret(job.obj)'
  BY DEF RecordedOwn
<1>1. job'.obj \in Object /\ stored(n)' # NoObject /\ stored(n)'.uid = job'.obj.uid
  BY DEF Inv, TypeInv, Working, Holding, WorkerInv, Ensuring
<1>2. RecordsOwnSecret(log[n][i])'
  BY <1>1, NoObjectAssumption DEF RecordedLog, Exists
<1> QED
  BY <1>2 DEF RecordsOwnSecret
\* A user writes an AccessKey, or the informer delivers: the worker goes on.
LEMMA WorldRecorded ==
  ASSUME Inv, RecordedOwn, Inv', Tampering = {}, World
  PROVE  RecordedOwn'
<1>0. /\ TypeInv /\ LogInv /\ WorkerInv /\ RecordedLog
      /\ job \in Job /\ log \in Log /\ log' \in Log /\ EnvOK
      /\ NoObject \in Version
  BY WorkerFacts, WorldType
  DEF Inv, RecordedOwn, JobOK, Version, TypeInv, TypeOK, Log
<1>1. ASSUME \A t \in SecretNames : secrets'[t].exists => secrets'[t] = secrets[t],
             \/ job'.pc \notin EnsurePath
             \/ job'.pc = job.pc /\ job'.obj = job.obj
      PROVE  job'.pc \in EnsurePath => RecordsOwnSecret(job.obj)'
  <2> SUFFICES ASSUME job.pc \in EnsurePath, job'.obj = job.obj
               PROVE  RecordsOwnSecret(job.obj)'
    BY <1>1
  <2>1. RecordsOwnSecret(job.obj)
    BY DEF RecordedOwn
  <2>2. Delivered(job.obj) => job.obj.status.secretName \in SecretNames
    BY <1>0, WorkerFacts DEF Status, Delivered
  <2> QED
    BY <1>1, <2>1, <2>2 DEF RecordsOwnSecret, Delivered
<1>2. ASSUME UNCHANGED log,
             \A t \in SecretNames : secrets'[t].exists => secrets'[t] = secrets[t],
             \/ job'.pc \notin EnsurePath
             \/ job'.pc = job.pc /\ job'.obj = job.obj
      PROVE  RecordedOwn'
  <2>1. PICK d : d = [m \in Names |-> 0]
    OBVIOUS
  <2>2. d \in [Names -> Nat] /\ Dropped(d)
    BY <1>0, <1>2, <2>1, IndexFacts DEF Dropped, Index, stored
  <2> QED
    BY <1>0, <1>1, <1>2, <2>2, DropRecorded DEF RecordedOwn
<1>3. ASSUME NEW n \in Names, NEW v \in Version, ObjectWritten(n, v),
             UNCHANGED secrets,
             v # NoObject => /\ RecordsOwnSecret(v)
                             /\ \/ stored(n) # NoObject /\ v.uid = stored(n).uid
                                \/ v.uid = nextUID
      PROVE  RecordedOwn'
  <2>1. Store(n, v) /\ job'.pc = job.pc /\ job'.obj = job.obj
    BY <1>0, <1>3 DEF ObjectWritten, Job
  <2>2. RecordedLog'
    BY <1>0, <1>3, <2>1, WriteRecorded
  <2> QED
    BY <1>1, <1>3, <2>1, <2>2 DEF RecordedOwn
<1>4. ASSUME NEW n \in Names, stored(n) # NoObject
      PROVE  stored(n) \in Object /\ RecordsOwnSecret(stored(n))
  BY <1>0, <1>4, IndexFacts, LogFacts DEF Version, RecordedLog, Exists
<1>5. ASSUME NEW n \in Names, Dequeue(n)
      PROVE  RecordedOwn'
  <2>1. UNCHANGED <<log, secrets>> /\ job'.pc \notin EnsurePath
    BY <1>5 DEF Dequeue, Idle, EnsurePath
  <2> QED
    BY <1>2, <2>1
<1>6. ASSUME NEW n \in Names, Informer(n)
      PROVE  RecordedOwn'
  <2>1. PICK d \in [Names -> Nat] : Dropped(d)
    BY <1>0, <1>6, DeliverView DEF Informer
  <2>2. UNCHANGED <<secrets, job>>
    BY <1>6 DEF Informer
  <2> QED
    BY <1>0, <1>1, <2>1, <2>2, DropRecorded DEF RecordedOwn
<1>7. CASE Crash
  <2>1. PICK d \in [Names -> Nat] : Dropped(d)
    BY <1>0, <1>7, RelistView DEF Crash
  <2>2. UNCHANGED secrets /\ job'.pc \notin EnsurePath
    BY <1>7 DEF Crash, Idle, EnsurePath
  <2> QED
    BY <1>0, <2>1, <2>2, DropRecorded DEF RecordedOwn
<1>8. ASSUME NEW n \in Names, NEW s \in SecretNames, UserCreates(n, s)
      PROVE  RecordedOwn'
  <2> DEFINE v == [uid |-> nextUID, gen |-> 1, secretName |-> s,
                   deleting |-> FALSE, finalizer |-> FALSE, status |-> NewStatus]
  <2>1. v \in Object /\ v.uid = nextUID /\ RecordsOwnSecret(v)
    BY <1>0 DEF EnvOK, Object, NewStatus, Status, NoID, NoName,
                RecordsOwnSecret, Delivered
  <2>2. ObjectWritten(n, v) /\ UNCHANGED secrets
    BY <1>8 DEF UserCreates
  <2> HIDE DEF v
  <2> QED
    BY <1>3, <2>1, <2>2 DEF Version
<1>9. ASSUME NEW n \in Names, NEW s \in SecretNames, UserEdits(n, s)
      PROVE  RecordedOwn'
  <2> DEFINE v == [stored(n) EXCEPT !.secretName = s, !.gen = @ + 1]
  <2>1. /\ stored(n) # NoObject /\ stored(n) \in Object /\ v \in Object
        /\ RecordsOwnSecret(stored(n))
    BY <1>4, <1>9, ObjectChanged DEF UserEdits
  <2>2. v.uid = stored(n).uid /\ v.status = stored(n).status
    BY <2>1 DEF Object
  <2>3. ObjectWritten(n, v) /\ UNCHANGED secrets
    BY <1>9 DEF UserEdits
  <2> HIDE DEF v
  <2>4. RecordsOwnSecret(v)
    BY <2>1, <2>2 DEF RecordsOwnSecret, Delivered
  <2> QED
    BY <1>3, <2>1, <2>2, <2>3, <2>4 DEF Version
<1>10. ASSUME NEW n \in Names, UserDeletes(n)
       PROVE  RecordedOwn'
  <2>1. /\ stored(n) # NoObject /\ stored(n) \in Object
        /\ RecordsOwnSecret(stored(n)) /\ UNCHANGED secrets
    BY <1>4, <1>10 DEF UserDeletes
  <2>2. CASE stored(n).finalizer
    <3> DEFINE v == [stored(n) EXCEPT !.deleting = TRUE, !.gen = @ + 1]
    <3>1. v \in Object
      BY <2>1, ObjectChanged
    <3>2. v.uid = stored(n).uid /\ v.status = stored(n).status
      BY <2>1 DEF Object
    <3>3. ObjectWritten(n, v)
      BY <1>10, <2>2 DEF UserDeletes
    <3> HIDE DEF v
    <3>4. RecordsOwnSecret(v)
      BY <2>1, <3>2 DEF RecordsOwnSecret, Delivered
    <3> QED
      BY <1>3, <2>1, <3>1, <3>2, <3>3, <3>4 DEF Version
  <2>3. CASE ~stored(n).finalizer
    <3>1. ObjectWritten(n, NoObject)
      BY <1>10, <2>3 DEF UserDeletes
    <3> QED
      BY <1>0, <1>3, <2>1, <3>1
  <2> QED
    BY <2>2, <2>3
<1>11. ASSUME NEW s \in SecretNames, CollectGarbage(s)
       PROVE  RecordedOwn'
  <2>1. /\ UNCHANGED log /\ job'.pc = job.pc /\ job'.obj = job.obj
        /\ \A t \in SecretNames : secrets'[t].exists => secrets'[t] = secrets[t]
    BY <1>0, <1>11 DEF CollectGarbage, SecretChanged, EnvOK, Job, NoSecret
  <2> QED
    BY <1>2, <2>1
<1>12. ~Tamper
  BY DEF Tamper
<1> QED
  BY <1>5, <1>6, <1>7, <1>8, <1>9, <1>10, <1>11, <1>12 DEF World, User

LEMMA NextRecorded ==
  ASSUME Tampering = {}, \A m, n \in Names : m = n
  PROVE  Inv /\ ReadyInv /\ RecordedOwn /\ [Next]_vars => RecordedOwn'
<1> SUFFICES ASSUME Inv, ReadyInv, RecordedOwn, [Next]_vars PROVE RecordedOwn'
  OBVIOUS
<1>0. /\ Inv' /\ TypeInv /\ LogInv /\ WorkerInv /\ ReadyInv /\ RecordedLog
      /\ log \in Log /\ job \in Job /\ EnvOK
      /\ (log \in Log)'
  <2>1. Inv'
    BY NextInv
  <2> QED
    BY <2>1, WorkerFacts DEF Inv, RecordedOwn, JobOK, TypeInv, TypeOK, Log, Version
<1>1. ASSUME UNCHANGED <<log, secrets>>
      PROVE  RecordedLog'
  BY <1>0, <1>1 DEF RecordedLog, RecordsOwnSecret, Exists, Index, stored
<1>2. CASE UNCHANGED vars
  <2>1. UNCHANGED <<log, secrets, job>>
    BY <1>2 DEF vars
  <2> QED
    BY <1>1, <2>1 DEF RecordedOwn, RecordsOwnSecret
<1>3. CASE World
  BY <1>0, <1>3, WorldRecorded
<1>4. CASE Get
  <2>1. PICK r \in Names : r = job.name
    BY <1>0, <1>4, WorkerFacts DEF Get, At
  <2>2. UNCHANGED <<log, secrets>>
    BY <1>4 DEF Get
  <2>3. 1 \in Index(r)' /\ log'[r][1] = cached(r)
    BY <1>0, <2>2, IndexFacts DEF Index
  <2>4. job'.pc \in EnsurePath => job'.name = r /\ job'.obj = cached(r)
    <3>0. PICK o, c : o = cached(r) /\ c = fresh(r)
      OBVIOUS
    <3>1. BeginReconcile(o, c) => job'.name = r /\ job'.obj = o
      BY <1>0, <2>1 DEF BeginReconcile, Job
    <3>2. Goto("AddFinalizer") => job'.pc \notin EnsurePath
      BY <1>0 DEF Goto, Job, EnsurePath
    <3>3. Return(FALSE) => job'.pc \notin EnsurePath
      BY DEF Return, Idle, EnsurePath
    <3>4. job' = [job EXCEPT !.obj = o, !.current = c, !.ext = o.status.id,
                    !.pc = IF o.status.id # NoID THEN "DeleteKey"
                           ELSE "LookupForDelete"]
          => job'.pc \notin EnsurePath
      BY <1>0 DEF Job, EnsurePath
    <3>5. \/ Return(FALSE) \/ Goto("AddFinalizer") \/ BeginReconcile(o, c)
          \/ job' = [job EXCEPT !.obj = o, !.current = c, !.ext = o.status.id,
                       !.pc = IF o.status.id # NoID THEN "DeleteKey"
                              ELSE "LookupForDelete"]
      BY <1>4, <2>1, <3>0 DEF Get
    <3> QED
      BY <3>0, <3>1, <3>2, <3>3, <3>4, <3>5
  <2> QED
    BY <1>0, <1>1, <2>2, <2>3, <2>4, TakeRecorded DEF RecordedOwn
<1>5. CASE AddFinalizer
  <2>1. PICK r \in Names : r = job.name
    BY <1>0, <1>5, WorkerFacts DEF AddFinalizer, At
  <2> DEFINE v == [stored(r) EXCEPT !.finalizer = TRUE]
  <2>2. ASSUME stored(r) # NoObject, Store(r, v)
        PROVE  RecordedLog' /\ stored(r)' = v
    <3>1. stored(r) \in Object /\ RecordsOwnSecret(stored(r))
      BY <1>0, <2>2, IndexFacts, LogFacts DEF Version, RecordedLog, Exists
    <3>2. v \in Object /\ v.uid = stored(r).uid /\ v.status = stored(r).status
      BY <3>1 DEF Object
    <3> HIDE DEF v
    <3>3. RecordsOwnSecret(v) /\ v \in Version
      BY <3>1, <3>2 DEF RecordsOwnSecret, Delivered, Version
    <3>4. UNCHANGED secrets
      BY <1>5 DEF AddFinalizer
    <3> QED
      BY <1>0, <2>2, <3>2, <3>3, <3>4, WriteRecorded, StoreView
  <2>3. CASE job' = Idle
    <3>1. UNCHANGED log \/ (stored(r) # NoObject /\ Store(r, v))
      BY <1>5, <2>1 DEF AddFinalizer
    <3>2. UNCHANGED secrets
      BY <1>5 DEF AddFinalizer
    <3> QED
      BY <1>1, <2>2, <2>3, <3>1, <3>2 DEF RecordedOwn, Idle, EnsurePath
  <2>4. CASE stored(r) # NoObject /\ Store(r, v) /\ BeginReconcile(v, TRUE)
    <3>1. job'.name = r /\ job'.obj = v
      BY <1>0, <2>1, <2>4 DEF BeginReconcile, Job
    <3>2. PICK i \in Index(r)' : stored(r)' = log'[r][i]
      <4>1. Len(log'[r]) \in Index(r)'
        <5>1. log'[r] \in Seq(Version) \ {<<>>}
          BY <1>0 DEF Log
        <5> QED
          BY <5>1 DEF Index
      <4> QED
        BY <4>1 DEF stored
    <3> QED
      BY <1>0, <2>2, <2>4, <3>1, <3>2, TakeRecorded
  <2> QED
    BY <1>5, <2>1, <2>3, <2>4 DEF AddFinalizer, Return
<1>6. CASE UpdateStatus
  <2>1. PICK r \in Names, o \in Object : r = job.name /\ o = job.obj
    BY <1>0, <1>6, WorkerFacts DEF UpdateStatus, At, EnsurePath
  <2> DEFINE st == UpdateAccessKeyCondition(o)
             v  == [stored(r) EXCEPT !.status = st]
  <2>2. job' = Idle /\ UNCHANGED secrets /\ (UNCHANGED log \/ Store(r, v))
    BY <1>6, <2>1 DEF UpdateStatus, Return
  <2>3. ASSUME Store(r, v)
        PROVE  RecordedLog'
    <3>1. /\ stored(r) # NoObject /\ stored(r).uid = o.uid
          /\ RecordsOwnSecret(o)
      BY <1>0, <1>6, <2>1
      DEF UpdateStatus, At, EnsurePath, WorkerInv, Ensuring, RecordedOwn
    <3>2. stored(r) \in Object /\ o.status \in Status /\ o.gen \in Nat
      BY <1>0, <3>1, LogFacts DEF Version, Object
    <3>3. st \in Status /\ st.secretName = o.status.secretName
      BY <3>2 DEF UpdateAccessKeyCondition, Status
    <3> HIDE DEF st
    <3>4. v \in Object /\ v.uid = o.uid /\ v.status = st
      BY <3>1, <3>2, <3>3 DEF Object
    <3> HIDE DEF v
    <3>5. RecordsOwnSecret(v) /\ v \in Version
      BY <3>1, <3>3, <3>4 DEF RecordsOwnSecret, Delivered, Version
    <3> QED
      BY <1>0, <2>2, <2>3, <3>1, <3>4, <3>5, WriteRecorded
  <2> QED
    BY <1>1, <2>2, <2>3 DEF RecordedOwn, Idle, EnsurePath
<1>7. CASE LookupForDelete \/ DeleteKey \/ RemoveFinalizer
  <2>1. job'.pc \notin EnsurePath
    <3>1. ASSUME NEW k, job' = [job EXCEPT !.ext = k.id, !.pc = "DeleteKey"]
          PROVE  job'.pc = "DeleteKey"
      BY <1>0, <3>1 DEF Job
    <3>2. Goto("RemoveFinalizer") => job'.pc = "RemoveFinalizer"
      BY <1>0 DEF Goto, Job
    <3>3. \A err : Return(err) => job'.pc = "idle"
      BY DEF Return, Idle
    <3> QED
      BY <1>7, <3>1, <3>2, <3>3
      DEF LookupForDelete, DeleteKey, RemoveFinalizer, EnsurePath
  <2>2. UNCHANGED secrets
    BY <1>7 DEF LookupForDelete, DeleteKey, RemoveFinalizer
  <2>3. UNCHANGED log \/ (job.name \in Names /\ Store(job.name, NoObject))
    BY <1>7, WorkerFacts, <1>0
    DEF LookupForDelete, DeleteKey, RemoveFinalizer, At
  <2>4. RecordedLog'
    BY <1>0, <1>1, <2>2, <2>3, WriteRecorded DEF Version
  <2> QED
    BY <2>1, <2>4 DEF RecordedOwn
<1> QED
  BY <1>0, <1>2, <1>3, <1>4, <1>5, <1>6, <1>7, EnsureRecorded
  DEF Next, Step, World
LEMMA InitRecorded == Init => RecordedOwn
BY DEF Init, KubeInit, Idle, RecordedOwn, RecordedLog, Exists, Index, EnsurePath

\* The Secret the worker cleans up is one the AccessKey recorded.
LEMMA CleansUpOwn ==
  ASSUME RecordedOwn, ReadyInv
  PROVE  NoSharedSecret
BY DEF RecordedOwn, RecordsOwnSecret, NoSharedSecret, EnsurePath, ReadyInv,
       ReadyJob, Delivering

\* With one AccessKey at a time nothing has to be assumed of what it cleans up:
\* Ready tells the truth, and credentials stay, over any number of edits,
\* deletions, new AccessKeys of that name, failing calls and restarts.
THEOREM ReadyOfOneName ==
  ASSUME Tampering = {}, \A m, n \in Names : m = n
  PROVE  Spec => []ReadyUsable /\ []KeepsCredentials
<1>1. "deleteKey" \notin Tampering
  OBVIOUS
<1>2. Spec => []Inv
  BY <1>1, Invariant
<1>3. Inv /\ ReadyInv /\ RecordedOwn /\ [Next]_vars => ReadyInv' /\ RecordedOwn'
  BY NextReady, NextRecorded, CleansUpOwn
<1>4. Inv /\ ReadyInv => ReadyUsable /\ KeepsCredentials
  BY ReadyFollows
<1> QED
  BY <1>2, <1>3, <1>4, InitReady, InitRecorded, PTL DEF Spec
-----------------------------------------------------------------------------
(* No AccessKey is forgotten, whatever others do to its key and its Secret.  *)

\* The conditions with which reconcileAccessKey calls a generation observed.
Concluded(st) ==
  st.key = "True" /\ st.id # NoID /\ st.secret \in {"True", "Conflict"}

\* What versions say of their generation, and that a deleting one waits for
\* its finalizer.
Observed(o) ==
  /\ o.status.og <= o.gen
  /\ o.status.og = o.gen => Concluded(o.status)
  /\ o.deleting => o.finalizer

\* Versions of an AccessKey count its generations up.
Observing ==
  \A n \in Names : \A i \in Index(n) : Exists(n, i) =>
    /\ Observed(log[n][i])
    /\ log[n][i].uid < nextUID
    /\ stored(n) # NoObject /\ log[n][i].uid = stored(n).uid =>
         log[n][i].gen <= stored(n).gen

\* What the worker's copy o says of its generation before call pc, on the way
\* to updateStatus.
OnTheWay(o, pc, failed) ==
  /\ o.status.og <= o.gen
  /\ pc = "GetKey" => o.status.id # NoID
  /\ pc # "UpdateStatus" => o.status.og < o.gen
  /\ pc \in {"GetSecret", "ReadSecret", "WriteSecret", "DeleteOldSecret"} =>
       o.status.key = "True" /\ o.status.id # NoID
  /\ pc = "UpdateStatus" =>
       \/ Concluded(o.status)
       \/ /\ failed /\ o.status.og < o.gen
          /\ o.status.key = "False" \/ o.status.secret = "Failed"

Concluding ==
  job.pc \in EnsurePath =>
    /\ job.obj.gen <= stored(job.name).gen
    /\ OnTheWay(job.obj, job.pc, job.failed)

\* Nothing is on its way to the worker about n.
Quiet(n) == fresh(n) /\ n \notin queue

\* Then the worker has, or is about to read, what is stored.
InStep ==
  job.name \in Names /\ Quiet(job.name) =>
    /\ job.pc = "AddFinalizer" =>
         stored(job.name) # NoObject /\ ~stored(job.name).deleting
    /\ job.pc \in EnsurePath =>
         /\ SameSpec(job.obj, stored(job.name)) /\ ~job.obj.deleting
         /\ stored(job.name).status = job.orig

RestInv == Observing /\ Concluding /\ InStep /\ NothingForgotten
-----------------------------------------------------------------------------
(* A written version counts on.                                             *)

Grows(n, v) ==
  v # NoObject =>
    /\ Observed(v) /\ v.uid < nextUID'
    /\ \/ stored(n) = NoObject /\ v.uid = nextUID
       \/ /\ stored(n) # NoObject /\ v.uid = stored(n).uid
          /\ stored(n).gen <= v.gen

LEMMA StoredObserved ==
  ASSUME log \in Log, Observing, NEW n \in Names, stored(n) # NoObject
  PROVE  /\ stored(n) \in Object /\ Observed(stored(n))
         /\ stored(n).uid < nextUID
BY IndexFacts, LogFacts DEF Observing, Exists, Version

\* updateAccessKeyCondition counts a generation as observed exactly with the
\* conditions it is concluded with.
LEMMA ConditionFacts ==
  ASSUME NEW o \in Object
  PROVE  LET st == UpdateAccessKeyCondition(o) IN
         /\ st \in Status
         /\ st.key = o.status.key /\ st.id = o.status.id
         /\ st.secret = o.status.secret
         /\ Concluded(o.status) => st.og = o.gen
         /\ o.status.key = "False" \/ o.status.secret = "Failed" =>
              st.og = o.status.og
<1> DEFINE st == UpdateAccessKeyCondition(o)
<1>1. o.status \in Status /\ o.gen \in Nat
  BY DEF Object
<1>2. \E g \in Nat : st = [o.status EXCEPT !.og = g, !.seen = o.gen]
  BY <1>1 DEF UpdateAccessKeyCondition, Status
<1>3. /\ st \in Status /\ st.key = o.status.key /\ st.id = o.status.id
      /\ st.secret = o.status.secret
  BY <1>1, <1>2 DEF Status
<1>4. st.og = IF Ready(o.status)
                 \/ (o.status.key # "False" /\ o.status.secret = "Conflict")
              THEN o.gen ELSE o.status.og
  BY <1>1 DEF UpdateAccessKeyCondition, Status
<1> QED
  BY <1>3, <1>4 DEF Ready, Concluded

LEMMA StepWrites ==
  ASSUME TypeInv, OwnInv, Observing, Concluding, Step
  PROVE  /\ nextUID' = nextUID
         /\ \/ UNCHANGED log
            \/ \E n \in Names, v \in Version : Store(n, v) /\ Grows(n, v)
<1>0. /\ log \in Log /\ (job.pc # "idle" => job.name \in Names)
      /\ nextUID \in Nat
  BY WorkerFacts DEF JobOK, EnvOK
<1>1. nextUID' = nextUID
  BY DEF Step, Get, AddFinalizer, GetKey, LookupKey, CreateKey, GetSecret,
         ReadSecret, WriteSecret, DeleteOldSecret, UpdateStatus,
         LookupForDelete, DeleteKey, RemoveFinalizer, env
<1>2. CASE AddFinalizer
  <2>1. PICK n \in Names : n = job.name
    BY <1>0, <1>2 DEF AddFinalizer, At
  <2> DEFINE v == [stored(n) EXCEPT !.finalizer = TRUE]
  <2>2. UNCHANGED log \/ (stored(n) # NoObject /\ Store(n, v))
    BY <1>2, <2>1 DEF AddFinalizer
  <2>3. ASSUME stored(n) # NoObject
        PROVE  v \in Object /\ Grows(n, v)
    <3>1. /\ stored(n) \in Object /\ Observed(stored(n))
          /\ stored(n).uid < nextUID
      BY <1>0, <2>3, StoredObserved
    <3>2. /\ v \in Object /\ v.uid = stored(n).uid /\ v.gen = stored(n).gen
          /\ v.status = stored(n).status /\ v.finalizer /\ v.gen \in Nat
      BY <3>1 DEF Object
    <3> HIDE DEF v
    <3> QED
      BY <1>1, <2>3, <3>1, <3>2 DEF Grows, Observed
  <2> HIDE DEF v
  <2> QED
    BY <1>1, <2>2, <2>3 DEF Version
<1>3. CASE UpdateStatus
  <2>1. PICK n \in Names : n = job.name
    BY <1>0, <1>3 DEF UpdateStatus, At
  <2> DEFINE o  == job.obj
             st == UpdateAccessKeyCondition(o)
             v  == [stored(n) EXCEPT !.status = st]
  <2>2. UNCHANGED log \/ Store(n, v)
    BY <1>3, <2>1 DEF UpdateStatus
  <2>3. /\ job.pc = "UpdateStatus" /\ job.pc \in EnsurePath /\ o \in Object
        /\ o.gen \in Nat /\ o.status.og \in Nat
    BY <1>3, WorkerFacts DEF UpdateStatus, At, EnsurePath, Object, Status
  <2>4. stored(n) # NoObject
    BY <2>1, <2>3 DEF OwnInv, OwnJob, EnsuresStored
  <2>5. /\ stored(n) \in Object /\ Observed(stored(n))
        /\ stored(n).uid < nextUID
    BY <1>0, <2>4, StoredObserved
  <2>6. /\ st \in Status /\ st.key = o.status.key /\ st.id = o.status.id
        /\ st.secret = o.status.secret
        /\ Concluded(o.status) => st.og = o.gen
        /\ o.status.key = "False" \/ o.status.secret = "Failed" =>
             st.og = o.status.og
    BY <2>3, ConditionFacts
  <2>7. /\ o.gen <= stored(n).gen
        /\ \/ Concluded(o.status)
           \/ /\ o.status.og < o.gen
              /\ o.status.key = "False" \/ o.status.secret = "Failed"
    BY <2>1, <2>3 DEF Concluding, OnTheWay
  <2>8. /\ v \in Object /\ v.uid = stored(n).uid /\ v.gen = stored(n).gen
        /\ v.status = st /\ v.deleting = stored(n).deleting
        /\ v.finalizer = stored(n).finalizer /\ v.gen \in Nat
    BY <2>5, <2>6 DEF Object
  <2> HIDE DEF o, st, v
  <2>9. st.og <= v.gen /\ (st.og = v.gen => Concluded(st))
    BY <2>3, <2>6, <2>7, <2>8 DEF Concluded
  <2>10. Grows(n, v)
    BY <1>1, <2>4, <2>5, <2>8, <2>9 DEF Grows, Observed
  <2> QED
    BY <1>1, <2>2, <2>8, <2>10 DEF Version
<1>4. CASE RemoveFinalizer
  <2>1. job.name \in Names
    BY <1>0, <1>4 DEF RemoveFinalizer, At
  <2>2. UNCHANGED log \/ Store(job.name, NoObject)
    BY <1>4 DEF RemoveFinalizer
  <2> QED
    BY <1>1, <2>1, <2>2 DEF Grows, Version
<1>5. CASE \/ Get \/ GetKey \/ LookupKey \/ CreateKey \/ GetSecret \/ ReadSecret
           \/ WriteSecret \/ DeleteOldSecret \/ LookupForDelete \/ DeleteKey
  BY <1>1, <1>5
  DEF Get, GetKey, LookupKey, CreateKey, GetSecret, ReadSecret, WriteSecret,
      DeleteOldSecret, LookupForDelete, DeleteKey
<1> QED
  BY <1>2, <1>3, <1>4, <1>5 DEF Step

LEMMA WorldWrites ==
  ASSUME TypeInv, Observing, World
  PROVE  /\ nextUID' \in {nextUID, nextUID + 1}
         /\ \/ UNCHANGED log
            \/ \A n \in Names : NoneWritten(n)
            \/ \E n \in Names, v \in Version : Store(n, v) /\ Grows(n, v)
<1>0. /\ log \in Log /\ nextUID \in Nat /\ NewStatus \in Status
      /\ \A n \in Names : stored(n) \in Version
  BY WorkerFacts, LogFacts DEF EnvOK, NewStatus, Status, NoID, NoName
<1>1. nextUID' \in {nextUID, nextUID + 1}
  BY DEF World, Dequeue, Informer, User, UserCreates, UserEdits, UserDeletes,
         Tamper, Crash, CollectGarbage, env
<1>2. ASSUME NEW n \in Names, Informer(n)
      PROVE  \A m \in Names : NoneWritten(m)
  <2>1. PICK d \in [Names -> Nat] : Dropped(d)
    BY <1>0, <1>2, DeliverView DEF Informer
  <2> QED
    BY <2>1 DEF Dropped, NoneWritten
<1>3. CASE Crash
  <2>1. PICK d \in [Names -> Nat] : Dropped(d)
    BY <1>0, <1>3, RelistView DEF Crash
  <2> QED
    BY <1>1, <2>1 DEF Dropped, NoneWritten
<1>4. CASE \/ Tamper \/ \E n \in Names : Dequeue(n)
           \/ \E s \in SecretNames : CollectGarbage(s)
  BY <1>1, <1>4 DEF Tamper, Dequeue, CollectGarbage
<1>5. ASSUME NEW n \in Names, NEW s \in SecretNames, UserCreates(n, s)
      PROVE  \E v \in Version : Store(n, v) /\ Grows(n, v)
  <2> DEFINE v == [uid |-> nextUID, gen |-> 1, secretName |-> s,
                   deleting |-> FALSE, finalizer |-> FALSE, status |-> NewStatus]
  <2>1. stored(n) = NoObject /\ Store(n, v) /\ nextUID' = nextUID + 1
    BY <1>5 DEF UserCreates, ObjectWritten
  <2>2. /\ v \in Version /\ v.status.og = 0 /\ v.gen = 1 /\ ~v.deleting
        /\ v.uid = nextUID
    BY <1>0 DEF Version, Object, NewStatus
  <2> HIDE DEF v
  <2>3. Grows(n, v)
    BY <1>0, <2>1, <2>2 DEF Grows, Observed
  <2> QED
    BY <2>1, <2>2, <2>3
<1>6. ASSUME NEW n \in Names, NEW v \in Object, Store(n, v), UNCHANGED nextUID,
             stored(n) # NoObject, v.uid = stored(n).uid,
             v.gen = stored(n).gen + 1, v.status = stored(n).status,
             v.finalizer = stored(n).finalizer,
             v.deleting => stored(n).deleting \/ v.finalizer
      PROVE  \E w \in Version : Store(n, w) /\ Grows(n, w)
  <2>1. /\ stored(n) \in Object /\ Observed(stored(n))
        /\ stored(n).uid < nextUID
    BY <1>0, <1>6, StoredObserved
  <2>2. stored(n).gen \in Nat /\ v.status.og \in Nat
    BY <1>6, <2>1 DEF Object, Status
  <2>3. v.status.og < v.gen /\ stored(n).gen <= v.gen
    BY <1>6, <2>1, <2>2 DEF Observed
  <2>4. v.deleting => v.finalizer
    BY <1>6, <2>1 DEF Observed
  <2>5. Grows(n, v)
    BY <1>6, <2>1, <2>2, <2>3, <2>4 DEF Grows, Observed
  <2> QED
    BY <1>6, <2>5 DEF Version
<1>7. ASSUME NEW n \in Names, NEW s \in SecretNames, UserEdits(n, s)
      PROVE  \E v \in Version : Store(n, v) /\ Grows(n, v)
  <2> DEFINE v == [stored(n) EXCEPT !.secretName = s, !.gen = @ + 1]
  <2>1. /\ stored(n) # NoObject /\ stored(n) \in Object
        /\ Store(n, v) /\ UNCHANGED nextUID
    BY <1>0, <1>7 DEF UserEdits, ObjectWritten, Version, env
  <2>2. /\ v \in Object /\ v.uid = stored(n).uid /\ v.gen = stored(n).gen + 1
        /\ v.status = stored(n).status /\ v.finalizer = stored(n).finalizer
        /\ v.deleting = stored(n).deleting
    BY <2>1, ObjectChanged DEF Object
  <2> HIDE DEF v
  <2> QED
    BY <1>6, <2>1, <2>2
<1>8. ASSUME NEW n \in Names, UserDeletes(n)
      PROVE  \E v \in Version : Store(n, v) /\ Grows(n, v)
  <2>1. /\ stored(n) # NoObject /\ stored(n) \in Object /\ UNCHANGED nextUID
    BY <1>0, <1>8 DEF UserDeletes, Version, env
  <2>2. CASE stored(n).finalizer
    <3> DEFINE v == [stored(n) EXCEPT !.deleting = TRUE, !.gen = @ + 1]
    <3>1. Store(n, v)
      BY <1>8, <2>2 DEF UserDeletes, ObjectWritten
    <3>2. /\ v \in Object /\ v.uid = stored(n).uid /\ v.gen = stored(n).gen + 1
          /\ v.status = stored(n).status /\ v.finalizer = stored(n).finalizer
      BY <2>1, ObjectChanged DEF Object
    <3> HIDE DEF v
    <3> QED
      BY <1>6, <2>1, <2>2, <3>1, <3>2
  <2>3. CASE ~stored(n).finalizer
    BY <1>8, <2>3 DEF UserDeletes, ObjectWritten, Grows, Version
  <2> QED
    BY <2>2, <2>3
<1> QED
  BY <1>1, <1>2, <1>3, <1>4, <1>5, <1>7, <1>8 DEF World, User

LEMMA NextWrites ==
  ASSUME TypeInv, OwnInv, Observing, Concluding, Next
  PROVE  /\ nextUID' \in {nextUID, nextUID + 1}
         /\ \/ \A n \in Names : NoneWritten(n)
            \/ \E n \in Names, v \in Version : Store(n, v) /\ Grows(n, v)
<1>1. UNCHANGED log => \A n \in Names : NoneWritten(n)
  BY DEF NoneWritten, stored, Index
<1> QED
  BY <1>1, StepWrites, WorldWrites DEF Next, World

LEMMA ObservingKept ==
  ASSUME TypeInv, TypeInv', OwnInv, Observing, Concluding, Next
  PROVE  Observing'
<1>0. /\ log \in Log /\ log' \in Log /\ nextUID \in Nat
      /\ nextUID' \in {nextUID, nextUID + 1}
  BY TypeParts, NextWrites DEF TypeInv, TypeOK, Log, Version
<1>1. ASSUME NEW n \in Names, NEW i \in Index(n), Exists(n, i)
      PROVE  /\ Observed(log[n][i]) /\ log[n][i].uid < nextUID'
             /\ log[n][i].uid < nextUID
             /\ log[n][i] \in Object /\ log[n][i].gen \in Nat
             /\ log[n][i].uid \in Nat
             /\ stored(n) # NoObject /\ log[n][i].uid = stored(n).uid =>
                  log[n][i].gen <= stored(n).gen
  <2>1. log[n][i] \in Object
    BY <1>0, <1>1, LogFacts DEF Exists, Version
  <2>2. log[n][i].gen \in Nat /\ log[n][i].uid \in Nat
    BY <2>1 DEF Object
  <2>3. /\ Observed(log[n][i]) /\ log[n][i].uid < nextUID
        /\ stored(n) # NoObject /\ log[n][i].uid = stored(n).uid =>
             log[n][i].gen <= stored(n).gen
    BY <1>1 DEF Observing
  <2>4. log[n][i].uid < nextUID'
    BY <1>0, <2>2, <2>3
  <2> QED
    BY <2>1, <2>2, <2>3, <2>4
<1>2. CASE \A n \in Names : NoneWritten(n)
  <2> SUFFICES ASSUME NEW n \in Names, NEW i \in Index(n)', Exists(n, i)'
               PROVE  /\ Observed(log'[n][i]) /\ log'[n][i].uid < nextUID'
                      /\ stored(n)' # NoObject /\ log'[n][i].uid = stored(n)'.uid =>
                           log'[n][i].gen <= stored(n)'.gen
    BY DEF Observing, Observed, Concluded
  <2>1. PICK j \in Index(n) : log'[n][i] = log[n][j]
    BY <1>2 DEF NoneWritten
  <2>2. Exists(n, j) /\ stored(n)' = stored(n)
    BY <1>2, <2>1 DEF Exists, NoneWritten
  <2> QED
    BY <1>1, <2>1, <2>2
<1>3. ASSUME NEW m \in Names, NEW v \in Version, Store(m, v), Grows(m, v)
      PROVE  Observing'
  <2> SUFFICES ASSUME NEW n \in Names, NEW i \in Index(n)', Exists(n, i)'
               PROVE  /\ Observed(log'[n][i]) /\ log'[n][i].uid < nextUID'
                      /\ stored(n)' # NoObject /\ log'[n][i].uid = stored(n)'.uid =>
                           log'[n][i].gen <= stored(n)'.gen
    BY DEF Observing, Observed, Concluded
  <2>1. stored(n)' = IF n = m THEN v ELSE stored(n)
    BY <1>0, <1>3, StoreView
  <2>2. \/ i \in Index(n) /\ log'[n][i] = log[n][i]
        \/ n = m /\ log'[n][i] = v
    BY <1>0, <1>3, StoreView
  <2>3. v # NoObject => v \in Object /\ v.gen \in Nat
    BY DEF Version, Object
  <2>4. stored(m) # NoObject => stored(m) \in Object /\ stored(m).gen \in Nat
    BY <1>0, StoredObserved DEF Object
  <2>5. CASE n = m /\ log'[n][i] = v
    BY <1>3, <2>1, <2>3, <2>5 DEF Grows, Exists
  <2>6. CASE i \in Index(n) /\ log'[n][i] = log[n][i]
    <3>1. Exists(n, i)
      BY <2>6 DEF Exists
    <3>2. CASE n # m
      BY <1>1, <2>1, <2>6, <3>1, <3>2
    <3>3. ASSUME n = m, v # NoObject, log[n][i].uid = v.uid
          PROVE  log[n][i].gen <= v.gen
      <4>1. /\ log[n][i].gen \in Nat /\ log[n][i].uid < nextUID
            /\ log[n][i].uid \in Nat
            /\ stored(n) # NoObject /\ log[n][i].uid = stored(n).uid =>
                 log[n][i].gen <= stored(n).gen
        BY <1>1, <2>6, <3>1
      <4>2. v.uid # nextUID
        BY <1>0, <3>3, <4>1
      <4>3. /\ stored(n) # NoObject /\ v.uid = stored(n).uid
            /\ stored(n).gen <= v.gen
        BY <1>3, <3>3, <4>2 DEF Grows
      <4> QED
        BY <2>3, <2>4, <3>3, <4>1, <4>3
    <3>4. CASE n = m
      BY <1>1, <2>1, <2>6, <3>1, <3>3, <3>4
    <3> QED
      BY <3>2, <3>4
  <2> QED
    BY <2>2, <2>5, <2>6
<1> QED
  BY <1>2, <1>3, NextWrites

\* An AccessKey that stays stored keeps or raises its generation.
LEMMA StoredGrows ==
  ASSUME TypeInv, OwnInv, Observing, Concluding, Next, NEW n \in Names,
         stored(n) # NoObject, stored(n)' # NoObject,
         stored(n)'.uid = stored(n).uid
  PROVE  stored(n).gen <= stored(n)'.gen
<1>0. log \in Log
  BY WorkerFacts
<1>1. /\ stored(n) \in Object /\ stored(n).uid < nextUID
      /\ stored(n).uid \in Nat /\ stored(n).gen \in Nat /\ nextUID \in Nat
  BY <1>0, StoredObserved, WorkerFacts DEF Object, EnvOK
<1>2. CASE \A m \in Names : NoneWritten(m)
  BY <1>1, <1>2 DEF NoneWritten
<1>3. ASSUME NEW m \in Names, NEW v \in Version, Store(m, v), Grows(m, v)
      PROVE  stored(n).gen <= stored(n)'.gen
  <2>1. stored(n)' = IF n = m THEN v ELSE stored(n)
    BY <1>0, <1>3, StoreFacts DEF stored
  <2> QED
    BY <1>1, <1>3, <2>1 DEF Grows
<1> QED
  BY <1>2, <1>3, NextWrites
-----------------------------------------------------------------------------
(* The worker's copy.                                                       *)

\* The worker goes on with its request and the spec of its copy.
Continues ==
  /\ job'.pc \in EnsurePath /\ job'.name = job.name /\ job'.orig = job.orig
  /\ SameSpec(job.obj, job'.obj)
  /\ job'.obj.status.og = job.obj.status.og

\* Where the helpers of reconcileAccessKey leave it.
LEMMA HelpersContinue ==
  ASSUME TypeInv, job.pc \in EnsurePath
  PROVE  /\ KeyFailed =>
              /\ Continues /\ job'.pc = "UpdateStatus" /\ job'.failed
              /\ job'.obj.status.key = "False"
         /\ \A id \in Nat : KeyFound(id) =>
              /\ Continues /\ job'.pc = "GetSecret"
              /\ job'.obj.status.key = "True" /\ job'.obj.status.id = id
         /\ SecretNotReady("Failed") =>
              /\ Continues /\ job'.pc = "UpdateStatus" /\ job'.failed
              /\ job'.obj.status.secret = "Failed"
         /\ SecretNotReady("Conflict") =>
              /\ Continues /\ job'.pc = "UpdateStatus"
              /\ job'.obj.status = [job.obj.status EXCEPT !.secret = "Conflict"]
         /\ SecretWritten =>
              /\ Continues
              /\ \/ job'.pc = "DeleteOldSecret" /\ job'.obj = job.obj
                 \/ /\ job'.pc = "UpdateStatus"
                    /\ job'.obj.status.key = job.obj.status.key
                    /\ job'.obj.status.id = job.obj.status.id
                    /\ job'.obj.status.secret = "True"
         /\ job' = [job EXCEPT !.pc = "UpdateStatus", !.obj = SecretDone(job.obj)] =>
              /\ Continues /\ job'.pc = "UpdateStatus"
              /\ job'.obj.status.key = job.obj.status.key
              /\ job'.obj.status.id = job.obj.status.id
              /\ job'.obj.status.secret = "True"
         /\ \A p \in EnsurePath : Goto(p) =>
              Continues /\ job'.pc = p /\ job'.obj = job.obj
<1>1. job \in Job /\ job.obj \in Object /\ job.obj.status \in Status
  BY WorkerFacts DEF JobOK
<1>2. /\ "UpdateStatus" \in EnsurePath /\ "GetSecret" \in EnsurePath
      /\ "DeleteOldSecret" \in EnsurePath
  BY DEF EnsurePath
<1>3. ASSUME KeyFailed
      PROVE  /\ Continues /\ job'.pc = "UpdateStatus" /\ job'.failed
             /\ job'.obj.status.key = "False"
  <2>1. /\ job'.pc = "UpdateStatus" /\ job'.name = job.name
        /\ SameSpec(job.obj, job'.obj)
        /\ job'.obj.status = [job.obj.status EXCEPT !.key = "False"]
    BY <1>3, ReadyHelperFacts
  <2>2. job'.orig = job.orig /\ job'.failed
    BY <1>1, <1>3 DEF KeyFailed, Job
  <2> QED
    BY <1>1, <1>2, <2>1, <2>2 DEF Continues, Status
<1>4. ASSUME NEW id \in Nat, KeyFound(id)
      PROVE  /\ Continues /\ job'.pc = "GetSecret"
             /\ job'.obj.status.key = "True" /\ job'.obj.status.id = id
  <2>1. /\ job'.pc = "GetSecret" /\ job'.name = job.name
        /\ SameSpec(job.obj, job'.obj)
        /\ job'.obj.status = [job.obj.status EXCEPT !.id = id, !.key = "True"]
    BY <1>4, ReadyHelperFacts
  <2>2. job'.orig = job.orig
    BY <1>1, <1>4 DEF KeyFound, Job
  <2> QED
    BY <1>1, <1>2, <2>1, <2>2 DEF Continues, Status
<1>5. ASSUME NEW r, SecretNotReady(r)
      PROVE  /\ Continues /\ job'.pc = "UpdateStatus"
             /\ job'.failed <=> r # "Conflict"
             /\ job'.obj.status = [job.obj.status EXCEPT !.secret = r]
  <2>1. /\ job'.pc = "UpdateStatus" /\ job'.name = job.name
        /\ SameSpec(job.obj, job'.obj)
        /\ job'.obj.status = [job.obj.status EXCEPT !.secret = r]
    BY <1>5, ReadyHelperFacts
  <2>2. job'.orig = job.orig /\ (job'.failed <=> r # "Conflict")
    BY <1>1, <1>5 DEF SecretNotReady, Job
  <2> QED
    BY <1>1, <1>2, <2>1, <2>2 DEF Continues, Status
<1>6. SecretNotReady("Failed") =>
        /\ Continues /\ job'.pc = "UpdateStatus" /\ job'.failed
        /\ job'.obj.status.secret = "Failed"
  <2> SUFFICES ASSUME SecretNotReady("Failed")
               PROVE  /\ Continues /\ job'.pc = "UpdateStatus" /\ job'.failed
                      /\ job'.obj.status.secret = "Failed"
    OBVIOUS
  <2>1. /\ Continues /\ job'.pc = "UpdateStatus" /\ job'.failed
        /\ job'.obj.status = [job.obj.status EXCEPT !.secret = "Failed"]
    BY <1>5
  <2> QED
    BY <1>1, <2>1 DEF Status
<1>7. ASSUME job' = [job EXCEPT !.pc = "UpdateStatus", !.obj = SecretDone(job.obj)]
      PROVE  /\ Continues /\ job'.pc = "UpdateStatus"
             /\ job'.obj.status.key = job.obj.status.key
             /\ job'.obj.status.id = job.obj.status.id
             /\ job'.obj.status.secret = "True"
  <2>1. /\ SameSpec(job.obj, SecretDone(job.obj))
        /\ SecretDone(job.obj).status =
             [job.obj.status EXCEPT !.secretName = job.obj.secretName,
                                    !.secret = "True"]
    BY ReadyHelperFacts
  <2>2. /\ SecretDone(job.obj).status.og = job.obj.status.og
        /\ SecretDone(job.obj).status.key = job.obj.status.key
        /\ SecretDone(job.obj).status.id = job.obj.status.id
        /\ SecretDone(job.obj).status.secret = "True"
    BY <1>1, <2>1 DEF Status
  <2>3. /\ job'.pc = "UpdateStatus" /\ job'.name = job.name
        /\ job'.orig = job.orig /\ job'.obj = SecretDone(job.obj)
    BY <1>1, <1>7 DEF Job
  <2> QED
    BY <1>2, <2>1, <2>2, <2>3 DEF Continues
<1>8. ASSUME NEW p \in EnsurePath, Goto(p)
      PROVE  Continues /\ job'.pc = p /\ job'.obj = job.obj
  <2>1. /\ job'.pc = p /\ job'.name = job.name /\ job'.obj = job.obj
        /\ job'.orig = job.orig
    BY <1>1, <1>8 DEF Goto, Job
  <2> QED
    BY <2>1 DEF Continues, SameSpec
<1>9. ASSUME job' = [job EXCEPT !.pc = "DeleteOldSecret"]
      PROVE  Continues /\ job'.pc = "DeleteOldSecret" /\ job'.obj = job.obj
  BY <1>2, <1>8, <1>9 DEF Goto
<1>10. SecretWritten =>
         /\ Continues
         /\ \/ job'.pc = "DeleteOldSecret" /\ job'.obj = job.obj
            \/ /\ job'.pc = "UpdateStatus"
               /\ job'.obj.status.key = job.obj.status.key
               /\ job'.obj.status.id = job.obj.status.id
               /\ job'.obj.status.secret = "True"
  BY <1>7, <1>9 DEF SecretWritten
<1> QED
  BY <1>3, <1>4, <1>5, <1>6, <1>7, <1>8, <1>10

\* The worker goes on with the same copy of an AccessKey that may have changed.
LEMMA SameConcluding ==
  ASSUME TypeInv, TypeInv', OwnInv, OwnInv', Observing, Concluding, Next,
         job'.pc = job.pc, job'.name = job.name, job'.obj = job.obj,
         job'.failed = job.failed
  PROVE  Concluding'
<1> SUFFICES ASSUME job.pc \in EnsurePath PROVE Concluding'
  BY DEF Concluding
<1>1. PICK r \in Names : r = job.name
  BY WorkerFacts
<1>2. stored(r) # NoObject /\ stored(r).uid = job.obj.uid
  BY <1>1 DEF OwnInv, OwnJob, EnsuresStored
<1>3. stored(r)' # NoObject /\ stored(r)'.uid = job.obj.uid
  BY <1>1 DEF OwnInv, OwnJob, EnsuresStored, stored
<1>4. stored(r).gen <= stored(r)'.gen
  BY <1>2, <1>3, StoredGrows
<1>5. stored(r).gen \in Nat /\ stored(r)'.gen \in Nat /\ job.obj.gen \in Nat
  <2>1. log \in Log /\ log' \in Log /\ job.obj \in Object
    BY WorkerFacts, TypeParts DEF TypeInv, TypeOK, Log, Version
  <2>2. stored(r) \in Version /\ stored(r)' \in Version
    BY <2>1, LogFacts DEF stored, Log
  <2> QED
    BY <1>2, <1>3, <2>1, <2>2 DEF Version, Object
<1>6. job.obj.gen <= stored(r).gen
  BY <1>1 DEF Concluding
<1>7. (job.obj.gen <= stored(job.name).gen)'
  BY <1>1, <1>4, <1>5, <1>6 DEF stored
<1>8. OnTheWay(job.obj, job.pc, job.failed)'
  BY DEF Concluding, OnTheWay, Concluded
<1> QED
  BY <1>7, <1>8 DEF Concluding

\* ensureExternalKey and ensureSecret.
LEMMA EnsureConcludes ==
  ASSUME TypeInv, OwnInv, Concluding,
         \/ GetKey \/ LookupKey \/ CreateKey \/ GetSecret \/ ReadSecret
         \/ WriteSecret \/ DeleteOldSecret
  PROVE  UNCHANGED <<log, queue>> /\ Continues /\ Concluding'
<1>0. /\ job.pc \in EnsurePath /\ job \in Job /\ EnvOK
      /\ OnTheWay(job.obj, job.pc, job.failed)
      /\ job.obj.gen <= stored(job.name).gen
      /\ job.obj.status.og < job.obj.gen /\ job.obj.status.id \in Nat
      /\ UNCHANGED <<log, queue>>
  BY WorkerFacts
  DEF Concluding, OnTheWay, EnsurePath, JobOK, GetKey, LookupKey, CreateKey,
      GetSecret, ReadSecret, WriteSecret, DeleteOldSecret, At, Status
<1> DEFINE Way == OnTheWay(job.obj, job.pc, job.failed)
           KeyKnown == job.obj.status.key = "True" /\ job.obj.status.id # NoID
<1>1. Continues => job'.obj.gen = job.obj.gen
                   /\ job'.obj.status.og < job'.obj.gen
                   /\ job'.obj.status.og <= job'.obj.gen
  <2>1. job.obj.gen \in Nat /\ job.obj.status.og \in Nat
    BY <1>0, WorkerFacts DEF Object, Status
  <2> QED
    BY <1>0, <2>1 DEF Continues, SameSpec
<1>2. KeyFailed => Continues /\ Way'
  BY <1>0, <1>1, HelpersContinue DEF OnTheWay
<1>3. \A id \in Nat : id # NoID /\ KeyFound(id) => Continues /\ Way'
  BY <1>0, <1>1, HelpersContinue DEF OnTheWay
<1>4. SecretNotReady("Failed") => Continues /\ Way'
  BY <1>0, <1>1, HelpersContinue DEF OnTheWay
<1>5. KeyKnown /\ SecretNotReady("Conflict") => Continues /\ Way'
  <2> SUFFICES ASSUME KeyKnown, SecretNotReady("Conflict")
               PROVE  Continues /\ Way'
    OBVIOUS
  <2>1. /\ Continues /\ job'.pc = "UpdateStatus"
        /\ job'.obj.status = [job.obj.status EXCEPT !.secret = "Conflict"]
    BY <1>0, HelpersContinue
  <2>2. Concluded(job'.obj.status)
    BY <1>0, <2>1, WorkerFacts DEF Concluded, Status
  <2> QED
    BY <1>1, <2>1, <2>2 DEF OnTheWay, Concluded
<1>6. KeyKnown /\ SecretWritten => Continues /\ Way'
  <2> SUFFICES ASSUME KeyKnown, SecretWritten
               PROVE  Continues /\ Way'
    OBVIOUS
  <2>1. /\ Continues
        /\ \/ job'.pc = "DeleteOldSecret" /\ job'.obj = job.obj
           \/ /\ job'.pc = "UpdateStatus"
              /\ job'.obj.status.key = job.obj.status.key
              /\ job'.obj.status.id = job.obj.status.id
              /\ job'.obj.status.secret = "True"
    BY <1>0, HelpersContinue
  <2> QED
    BY <1>1, <2>1 DEF OnTheWay, Concluded
<1>7. ASSUME KeyKnown,
             job' = [job EXCEPT !.pc = "UpdateStatus", !.obj = SecretDone(job.obj)]
      PROVE  Continues /\ Way'
  <2>1. /\ Continues /\ job'.pc = "UpdateStatus"
        /\ job'.obj.status.key = job.obj.status.key
        /\ job'.obj.status.id = job.obj.status.id
        /\ job'.obj.status.secret = "True"
    BY <1>0, <1>7, HelpersContinue
  <2> QED
    BY <1>1, <1>7, <2>1 DEF OnTheWay, Concluded
<1>8. Goto("CreateKey") => Continues /\ Way'
  <2>1. Goto("CreateKey") => Continues /\ job'.pc = "CreateKey"
    BY <1>0, HelpersContinue DEF EnsurePath
  <2> QED
    BY <1>1, <2>1 DEF OnTheWay
<1>9. KeyKnown /\ Goto("ReadSecret") => Continues /\ Way'
  <2>1. Goto("ReadSecret") =>
          Continues /\ job'.pc = "ReadSecret" /\ job'.obj = job.obj
    BY <1>0, HelpersContinue DEF EnsurePath
  <2> QED
    BY <1>1, <2>1 DEF OnTheWay
<1>10. job.pc \in {"GetSecret", "ReadSecret", "WriteSecret", "DeleteOldSecret"} =>
         KeyKnown
  BY <1>0 DEF OnTheWay
<1>11. job.pc = "GetKey" => job.obj.status.id # NoID
  BY <1>0 DEF OnTheWay
<1>12. \A k \in keys : k.id \in Nat /\ k.id # NoID
  BY <1>0 DEF OwnInv, OwnLog, IDsApart, EnvOK, Key
<1>13. nextKey \in Nat /\ nextKey # NoID
  BY <1>0 DEF EnvOK, NoID
<1> HIDE DEF Way, KeyKnown
<1>14. Continues /\ Way'
  <2>1. CASE GetKey
    BY <1>0, <1>2, <1>3, <1>8, <1>11, <2>1 DEF GetKey, At
  <2>2. CASE LookupKey
    <3>1. \A k : KeysOf(job.obj.uid) = {k} => k \in keys
      BY DEF KeysOf
    <3> QED
      BY <1>2, <1>3, <1>8, <1>12, <2>2, <3>1 DEF LookupKey
  <2>3. CASE CreateKey
    BY <1>2, <1>3, <1>13, <2>3 DEF CreateKey
  <2>4. CASE GetSecret
    BY <1>4, <1>5, <1>9, <1>10, <2>4 DEF GetSecret, At
  <2>5. CASE ReadSecret
    <3>1. KeyKnown
      BY <1>10, <2>5 DEF ReadSecret, At
    <3>2. ASSUME NEW s, job' = [job EXCEPT !.pc = "WriteSecret", !.sec = s,
                                           !.secCurrent = TRUE]
          PROVE  Continues /\ Way'
      <4>1. /\ job'.pc = "WriteSecret" /\ job'.name = job.name
            /\ job'.obj = job.obj /\ job'.orig = job.orig
        BY <1>0, <3>2 DEF Job
      <4>2. Continues
        BY <4>1 DEF Continues, SameSpec, EnsurePath
      <4> QED
        BY <1>1, <3>1, <4>1, <4>2 DEF Way, KeyKnown, OnTheWay
    <3> QED
      BY <1>4, <1>6, <2>5, <3>1, <3>2 DEF ReadSecret
  <2>6. CASE WriteSecret
    <3>1. KeyKnown
      BY <1>10, <2>6 DEF WriteSecret, At
    <3> QED
      BY <1>4, <1>6, <2>6, <3>1 DEF WriteSecret
  <2>7. CASE DeleteOldSecret
    <3>1. KeyKnown
      BY <1>10, <2>7 DEF DeleteOldSecret, At
    <3> QED
      BY <1>4, <1>7, <2>7, <3>1 DEF DeleteOldSecret
  <2> QED
    BY <2>1, <2>2, <2>3, <2>4, <2>5, <2>6, <2>7
<1>15. (job.obj.gen <= stored(job.name).gen)'
  BY <1>0, <1>1, <1>14 DEF Continues, stored
<1> QED
  BY <1>0, <1>14, <1>15 DEF Way, Concluding
\* The steps of the helpers.
Ensures ==
  \/ GetKey \/ LookupKey \/ CreateKey \/ GetSecret \/ ReadSecret
  \/ WriteSecret \/ DeleteOldSecret

\* The first lines of reconcileAccessKey.
LEMMA BeginConcludes ==
  ASSUME job \in Job, NEW o \in Object, NEW c, Observed(o), BeginReconcile(o, c)
  PROVE  /\ job'.pc \in EnsurePath /\ job'.name = job.name
         /\ job'.obj = o /\ job'.orig = o.status
         /\ OnTheWay(o, job'.pc, job'.failed)
<1>1. /\ job'.name = job.name /\ job'.obj = o /\ job'.orig = o.status
      /\ job'.pc = IF UpToDate(o) THEN "UpdateStatus"
                   ELSE IF o.status.id # NoID THEN "GetKey" ELSE "LookupKey"
  BY DEF BeginReconcile, Job
<1>2. o.status.og \in Nat /\ o.gen \in Nat
  BY DEF Object, Status
<1>3. UpToDate(o) <=> o.status.og = o.gen
  BY DEF UpToDate, Observed, Concluded
<1>4. o.status.og <= o.gen /\ (UpToDate(o) => Concluded(o.status))
  BY <1>3 DEF Observed
<1>5. ~UpToDate(o) => o.status.og < o.gen
  BY <1>2, <1>3, <1>4
<1> QED
  BY <1>1, <1>4, <1>5 DEF OnTheWay, EnsurePath

\* What Get makes of the cached version.
LEMMA GetView ==
  ASSUME job \in Job, Get
  PROVE  LET o == cached(job.name) IN
         \/ /\ o = NoObject \/ (o.deleting /\ ~o.finalizer)
            /\ job'.pc = "idle" /\ UNCHANGED queue
         \/ job'.pc \in {"DeleteKey", "LookupForDelete"} /\ job'.name = job.name
         \/ /\ o # NoObject /\ ~o.deleting
            /\ job'.pc = "AddFinalizer" /\ job'.name = job.name
         \/ /\ o # NoObject /\ ~o.deleting /\ o.finalizer
            /\ BeginReconcile(o, fresh(job.name))
<1>1. PICK o : o = cached(job.name)
  OBVIOUS
<1>2. CASE o = NoObject \/ (o # NoObject /\ o.deleting /\ ~o.finalizer)
  <2>1. Return(FALSE)
    BY <1>1, <1>2 DEF Get
  <2> QED
    BY <1>1, <1>2, <2>1 DEF Return, Idle
<1>3. CASE o # NoObject /\ o.deleting /\ o.finalizer
  <2>1. job' = [job EXCEPT !.obj = o, !.current = fresh(job.name),
                  !.ext = o.status.id,
                  !.pc = IF o.status.id # NoID THEN "DeleteKey"
                         ELSE "LookupForDelete"]
    BY <1>1, <1>3 DEF Get
  <2>2. job'.pc \in {"DeleteKey", "LookupForDelete"} /\ job'.name = job.name
    BY <2>1 DEF Job
  <2> QED
    BY <2>2
<1>4. CASE o # NoObject /\ ~o.deleting /\ ~o.finalizer
  <2>1. Goto("AddFinalizer")
    BY <1>1, <1>4 DEF Get
  <2> QED
    BY <1>1, <1>4, <2>1 DEF Goto, Job
<1>5. CASE o # NoObject /\ ~o.deleting /\ o.finalizer
  <2>1. BeginReconcile(o, fresh(job.name))
    BY <1>1, <1>5 DEF Get
  <2> QED
    BY <1>1, <1>5, <2>1
<1> QED
  BY <1>2, <1>3, <1>4, <1>5

\* What the worker reads is not ahead of what is stored.
LEMMA GetConcludes ==
  ASSUME TypeInv, TypeInv', OwnInv', Observing, Get
  PROVE  Concluding'
<1>0. /\ job \in Job /\ log \in Log /\ UNCHANGED log
  BY WorkerFacts DEF JobOK, Get
<1> SUFFICES ASSUME job'.pc \in EnsurePath
             PROVE  Concluding'
  BY DEF Concluding
<1>1. PICK r \in Names : r = job.name
  BY WorkerFacts DEF Get, At
<1>2. PICK o : o = cached(r)
  OBVIOUS
<1>3. /\ o # NoObject /\ ~o.deleting /\ o.finalizer
      /\ BeginReconcile(o, fresh(r))
  BY <1>0, <1>1, <1>2, GetView DEF EnsurePath
<1>4. /\ o \in Object /\ Observed(o) /\ 1 \in Index(r) /\ o = log[r][1]
      /\ stored(r) # NoObject /\ o.uid = stored(r).uid => o.gen <= stored(r).gen
  BY <1>0, <1>2, <1>3, IndexFacts, LogFacts DEF Observing, Exists, Version
<1>5. /\ job'.name = r /\ job'.obj = o
      /\ OnTheWay(o, job'.pc, job'.failed)
  BY <1>0, <1>1, <1>3, <1>4, BeginConcludes
<1>6. stored(r) # NoObject /\ stored(r).uid = o.uid
  BY <1>0, <1>5 DEF OwnInv, OwnJob, EnsuresStored, stored
<1>7. (job.obj.gen <= stored(job.name).gen)'
  BY <1>0, <1>4, <1>5, <1>6 DEF stored
<1> QED
  BY <1>5, <1>7 DEF Concluding

LEMMA AddFinalizerConcludes ==
  ASSUME TypeInv, Observing, AddFinalizer
  PROVE  Concluding'
<1>0. job \in Job /\ log \in Log
  BY WorkerFacts DEF JobOK
<1> SUFFICES ASSUME job'.pc \in EnsurePath
             PROVE  Concluding'
  BY DEF Concluding
<1>1. PICK r \in Names : r = job.name
  BY WorkerFacts DEF AddFinalizer, At
<1> DEFINE v == [stored(r) EXCEPT !.finalizer = TRUE]
<1>2. stored(r) # NoObject /\ Store(r, v) /\ BeginReconcile(v, TRUE)
  <2>1. \A e : ~Return(e)
    BY DEF Return, Idle, EnsurePath
  <2> QED
    BY <1>1, <2>1 DEF AddFinalizer
<1>3. stored(r) \in Object /\ Observed(stored(r))
  BY <1>0, <1>2, StoredObserved
<1>4. /\ v \in Object /\ v.gen = stored(r).gen /\ v.status = stored(r).status
      /\ v.finalizer /\ v.gen \in Nat
  BY <1>3 DEF Object
<1> HIDE DEF v
<1>5. Observed(v)
  BY <1>3, <1>4 DEF Observed
<1>6. /\ job'.name = r /\ job'.obj = v /\ OnTheWay(v, job'.pc, job'.failed)
  BY <1>0, <1>1, <1>2, <1>4, <1>5, BeginConcludes
<1>7. log'[r][Len(log'[r])] = v
  BY <1>0, <1>2, <1>4, StoreFacts DEF stored, Version
<1>8. (job.obj.gen <= stored(job.name).gen)'
  BY <1>4, <1>6, <1>7 DEF stored
<1> QED
  BY <1>6, <1>8 DEF Concluding

\* Steps after which the worker is not on its way to updateStatus.
LEMMA NotEnsuring ==
  ASSUME job \in Job,
         \/ UpdateStatus \/ LookupForDelete \/ DeleteKey \/ RemoveFinalizer
         \/ Crash \/ \E n \in Names : Dequeue(n)
  PROVE  job'.pc \in {"idle", "Get", "DeleteKey", "RemoveFinalizer"}
<1>1. \A e : Return(e) => job'.pc = "idle"
  BY DEF Return, Idle
<1>2. CASE LookupForDelete \/ DeleteKey \/ RemoveFinalizer
  <2>1. Goto("RemoveFinalizer") => job'.pc = "RemoveFinalizer"
    BY DEF Goto, Job
  <2>2. \A i : job' = [job EXCEPT !.ext = i, !.pc = "DeleteKey"] =>
                job'.pc = "DeleteKey"
    BY DEF Job
  <2> QED
    BY <1>1, <1>2, <2>1, <2>2 DEF LookupForDelete, DeleteKey, RemoveFinalizer
<1>3. CASE UpdateStatus
  BY <1>1, <1>3 DEF UpdateStatus
<1>4. CASE Crash
  BY <1>4 DEF Crash, Idle
<1>5. ASSUME NEW n \in Names, Dequeue(n)
      PROVE  job'.pc = "Get"
  BY <1>5 DEF Dequeue, Idle
<1> QED
  BY <1>2, <1>3, <1>4, <1>5

\* Steps that leave the worker to its request.
LEMMA OthersKeepJob ==
  ASSUME job \in Job,
         \/ Tamper \/ User \/ \E n \in Names : Informer(n)
         \/ \E s \in SecretNames : CollectGarbage(s)
  PROVE  /\ job'.pc = job.pc /\ job'.name = job.name /\ job'.obj = job.obj
         /\ job'.orig = job.orig /\ job'.failed = job.failed
BY DEF Tamper, User, UserCreates, UserEdits, UserDeletes, Informer,
       CollectGarbage, ObjectWritten, SecretChanged, Job

LEMMA ConcludingKept ==
  ASSUME TypeInv, TypeInv', OwnInv, OwnInv', Observing, Concluding, Next
  PROVE  Concluding'
<1>0. job \in Job
  BY WorkerFacts DEF JobOK
<1>1. CASE Ensures
  BY <1>1, EnsureConcludes DEF Ensures
<1>2. CASE Get
  BY <1>2, GetConcludes
<1>3. CASE AddFinalizer
  BY <1>3, AddFinalizerConcludes
<1>4. CASE \/ UpdateStatus \/ LookupForDelete \/ DeleteKey \/ RemoveFinalizer
           \/ Crash \/ \E n \in Names : Dequeue(n)
  BY <1>0, <1>4, NotEnsuring DEF Concluding, EnsurePath
<1>5. CASE \/ Tamper \/ User \/ \E n \in Names : Informer(n)
           \/ \E s \in SecretNames : CollectGarbage(s)
  BY <1>0, <1>5, OthersKeepJob, SameConcluding
<1> QED
  BY <1>1, <1>2, <1>3, <1>4, <1>5 DEF Next, Step, Ensures
-----------------------------------------------------------------------------
(* What is not on its way to the worker.                                    *)

\* A version that is cached and stored was not written just now.
LEMMA FreshAfterStore ==
  ASSUME log \in Log, NEW m \in Names, NEW v, Store(m, v),
         NEW n \in Names, fresh(n)'
  PROVE  fresh(n) /\ stored(n)' = stored(n) /\ (m = n => v = stored(n))
<1> DEFINE V == Version \cup {v}
<1>1. log \in Logs(V)
  <2>1. \A k \in Names : log[k] \in Seq(Version) /\ log[k] # <<>>
    BY DEF Log
  <2>2. ASSUME NEW s \in Seq(Version) PROVE s \in Seq(V)
    <3>1. s \in [1 .. Len(s) -> Version] /\ Len(s) \in Nat
      OBVIOUS
    <3> QED
      BY <3>1
  <2> QED
    BY <2>1, <2>2 DEF Log, Logs
<1> HIDE DEF V
<1>2. /\ stored(n)' = IF n = m THEN v ELSE stored(n)
      /\ fresh(n)' => fresh(n)
      /\ v # stored(m) => ~fresh(m)'
  <2>1. v \in V
    BY DEF V
  <2> QED
    BY <1>1, <2>1, StoreEffect
<1> QED
  BY <1>2

\* Only a write, an event, a list or the worker's own taking it changes that.
LEMMA QuietView ==
  ASSUME TypeInv, Next, NEW n \in Names, Quiet(n)'
  PROVE  /\ Crash => stored(n)' = NoObject
         /\ \/ Quiet(n) /\ stored(n)' = stored(n)
            \/ Dequeue(n) \/ Crash
<1>0. log \in Log /\ job.name \in Names \cup {NoName} /\ EnvOK
  BY WorkerFacts DEF JobOK, Job
<1>1. ASSUME Crash
      PROVE  stored(n)' = NoObject
  <2>1. queue' = {m \in Names : stored(m) # NoObject}
    BY <1>1 DEF Crash, Relist
  <2>2. stored(n) = NoObject
    BY <2>1 DEF Quiet
  <2>3. stored(n)' = stored(n)
    BY <1>0, <1>1, RelistFacts DEF Crash
  <2> QED
    BY <2>2, <2>3
<1> SUFFICES (Quiet(n) /\ stored(n)' = stored(n)) \/ Dequeue(n) \/ Crash
  BY <1>1
<1>2. ASSUME queue \subseteq queue',
             UNCHANGED log \/ \E m \in Names : \E v : Store(m, v)
      PROVE  Quiet(n) /\ stored(n)' = stored(n)
  <2>1. n \notin queue
    BY <1>2 DEF Quiet
  <2>2. CASE UNCHANGED log
    BY <2>1, <2>2 DEF Quiet, fresh, stored
  <2>3. ASSUME NEW m \in Names, NEW v, Store(m, v)
        PROVE  Quiet(n) /\ stored(n)' = stored(n)
    BY <1>0, <2>1, <2>3, FreshAfterStore DEF Quiet
  <2> QED
    BY <1>2, <2>2, <2>3
<1>3. \A e : Return(e) => queue \subseteq queue'
  BY DEF Return
<1>4. CASE Step
  <2>1. queue \subseteq queue'
    BY <1>3, <1>4
    DEF Step, Get, AddFinalizer, GetKey, LookupKey, CreateKey, GetSecret,
        ReadSecret, WriteSecret, DeleteOldSecret, UpdateStatus,
        LookupForDelete, DeleteKey, RemoveFinalizer
  <2>2. UNCHANGED log \/ \E v : Store(job.name, v)
    BY <1>4
    DEF Step, Get, AddFinalizer, GetKey, LookupKey, CreateKey, GetSecret,
        ReadSecret, WriteSecret, DeleteOldSecret, UpdateStatus,
        LookupForDelete, DeleteKey, RemoveFinalizer
  <2>3. job.name \in Names
    BY <1>4, WorkerFacts
    DEF Step, Get, AddFinalizer, GetKey, LookupKey, CreateKey, GetSecret,
        ReadSecret, WriteSecret, DeleteOldSecret, UpdateStatus,
        LookupForDelete, DeleteKey, RemoveFinalizer, At
  <2> QED
    BY <1>2, <2>1, <2>2, <2>3
<1>5. CASE User \/ Tamper \/ \E s \in SecretNames : CollectGarbage(s)
  <2>1. UNCHANGED queue
    BY <1>5 DEF User, UserCreates, UserEdits, UserDeletes, Tamper, CollectGarbage
  <2>2. UNCHANGED log \/ \E m \in Names : \E v : Store(m, v)
    BY <1>5 DEF User, UserCreates, UserEdits, UserDeletes, Tamper,
                CollectGarbage, ObjectWritten
  <2> QED
    BY <1>2, <2>1, <2>2
<1>6. ASSUME NEW m \in Names, Dequeue(m)
      PROVE  (Quiet(n) /\ stored(n)' = stored(n)) \/ Dequeue(n)
  BY <1>6 DEF Dequeue, Quiet, fresh, stored
<1>7. ASSUME NEW m \in Names, Informer(m)
      PROVE  Quiet(n) /\ stored(n)' = stored(n)
  <2>1. log \in Logs(Version) /\ Deliver(m)
    BY <1>0, <1>7 DEF Log, Logs, Informer
  <2>2. queue' = queue \cup {m}
    BY <2>1 DEF Deliver
  <2>3. n # m /\ n \notin queue
    BY <2>2 DEF Quiet
  <2> QED
    BY <2>1, <2>3, DeliverEffect DEF Quiet
<1> QED
  BY <1>4, <1>5, <1>6, <1>7 DEF Next
\* The worker has what is stored, unless there is more to come.
LEMMA InStepKept ==
  ASSUME TypeInv, OwnInv, Observing, Concluding, InStep, Next
  PROVE  InStep'
<1>0. job \in Job /\ log \in Log
  BY WorkerFacts DEF JobOK
<1> SUFFICES ASSUME NEW n \in Names, n = job'.name, Quiet(n)'
             PROVE  /\ job'.pc = "AddFinalizer" =>
                         stored(n)' # NoObject /\ ~stored(n)'.deleting
                    /\ job'.pc \in EnsurePath =>
                         /\ SameSpec(job'.obj, stored(n)') /\ ~job'.obj.deleting
                         /\ stored(n)'.status = job'.orig
  BY DEF InStep, Quiet, stored, fresh, SameSpec
<1>1. CASE Ensures
  <2>1. UNCHANGED <<log, queue>> /\ Continues
    BY <1>1, EnsureConcludes DEF Ensures
  <2>2. job.pc \in EnsurePath
    BY <1>1 DEF Ensures, GetKey, LookupKey, CreateKey, GetSecret, ReadSecret,
                WriteSecret, DeleteOldSecret, At, EnsurePath
  <2>3. job.name = n /\ Quiet(n) /\ stored(n)' = stored(n)
    BY <2>1 DEF Continues, Quiet, fresh, stored
  <2>4. /\ SameSpec(job.obj, stored(n)) /\ ~job.obj.deleting
        /\ stored(n).status = job.orig
    BY <2>2, <2>3 DEF InStep
  <2>5. job'.pc # "AddFinalizer"
    BY <2>1 DEF Continues, EnsurePath
  <2> QED
    BY <2>1, <2>3, <2>4, <2>5 DEF Continues, SameSpec
<1>2. CASE Get
  <2>1. UNCHANGED log /\ cached(n) = stored(n) /\ stored(n)' = stored(n)
    BY <1>2 DEF Get, Quiet, fresh, cached, stored
  <2>2. \A o, c : BeginReconcile(o, c) =>
          /\ job'.pc # "AddFinalizer" /\ job'.name = job.name
          /\ job'.obj = o /\ job'.orig = o.status
    BY <1>0 DEF BeginReconcile, Job
  <2>3. \/ job'.pc \in {"idle", "DeleteKey", "LookupForDelete"}
        \/ /\ job'.pc = "AddFinalizer" /\ job'.name = job.name
           /\ cached(job.name) # NoObject /\ ~cached(job.name).deleting
        \/ /\ job'.pc # "AddFinalizer" /\ job'.name = job.name
           /\ job'.obj = cached(job.name) /\ ~cached(job.name).deleting
           /\ job'.orig = cached(job.name).status
           /\ cached(job.name) # NoObject
    BY <1>0, <1>2, <2>2, GetView
  <2> QED
    BY <2>1, <2>3 DEF EnsurePath, SameSpec
<1>3. CASE AddFinalizer
  <2> SUFFICES ASSUME job'.pc \in EnsurePath \cup {"AddFinalizer"}
               PROVE  /\ job'.pc # "AddFinalizer"
                      /\ SameSpec(job'.obj, stored(n)') /\ ~job'.obj.deleting
                      /\ stored(n)'.status = job'.orig
    OBVIOUS
  <2> DEFINE v == [stored(job.name) EXCEPT !.finalizer = TRUE]
  <2>1. \A e : ~Return(e)
    BY DEF Return, Idle, EnsurePath
  <2>2. /\ stored(job.name) # NoObject /\ Store(job.name, v)
        /\ BeginReconcile(v, TRUE) /\ UNCHANGED queue
    BY <1>3, <2>1 DEF AddFinalizer
  <2>3. job.name \in Names /\ job.pc = "AddFinalizer"
    BY <1>3, WorkerFacts DEF AddFinalizer, At
  <2> HIDE DEF v
  <2>4. /\ job'.pc # "AddFinalizer" /\ job'.name = job.name
        /\ job'.obj = v /\ job'.orig = v.status
    BY <1>0, <2>2 DEF BeginReconcile, Job
  <2>5. fresh(n) /\ stored(n)' = stored(n) /\ v = stored(n)
    BY <1>0, <2>2, <2>3, <2>4, FreshAfterStore DEF Quiet
  <2>6. Quiet(n) /\ job.name = n
    BY <2>2, <2>4, <2>5 DEF Quiet
  <2> QED
    BY <2>3, <2>4, <2>5, <2>6 DEF InStep, SameSpec
<1>4. CASE \/ UpdateStatus \/ LookupForDelete \/ DeleteKey \/ RemoveFinalizer
           \/ Crash \/ \E m \in Names : Dequeue(m)
  BY <1>0, <1>4, NotEnsuring DEF EnsurePath
<1>5. CASE \/ Tamper \/ User \/ \E m \in Names : Informer(m)
           \/ \E s \in SecretNames : CollectGarbage(s)
  <2>1. /\ job'.pc = job.pc /\ job'.name = job.name /\ job'.obj = job.obj
        /\ job'.orig = job.orig
    BY <1>0, <1>5, OthersKeepJob
  <2>2. CASE Quiet(n) /\ stored(n)' = stored(n)
    BY <2>1, <2>2 DEF InStep
  <2>3. CASE Dequeue(n) \/ Crash
    BY <1>0, <2>3, NotEnsuring DEF EnsurePath
  <2> QED
    BY <2>2, <2>3, QuietView
<1> QED
  BY <1>1, <1>2, <1>3, <1>4, <1>5 DEF Next, Step, Ensures
\* A reconcile that ends without an error, and with nothing to come, leaves
\* its AccessKey settled.
LEMMA UpdateStatusSettles ==
  ASSUME TypeInv, OwnInv, Concluding, InStep, UpdateStatus,
         NEW n \in Names, n = job.name, Quiet(n), fresh(n)', n \notin queue'
  PROVE  Settled(stored(n))
<1> DEFINE o  == job.obj
           st == UpdateAccessKeyCondition(o)
<1>0. /\ log \in Log /\ job.pc = "UpdateStatus" /\ job.pc \in EnsurePath
      /\ job.name \in Names /\ o \in Object /\ o.gen \in Nat
      /\ o.status.og \in Nat
  BY WorkerFacts DEF UpdateStatus, At, EnsurePath, Object, Status
<1>1. /\ SameSpec(o, stored(n)) /\ ~o.deleting /\ stored(n).status = job.orig
  BY <1>0 DEF InStep
<1>2. /\ st.key = o.status.key /\ st.secret = o.status.secret
      /\ Concluded(o.status) => st.og = o.gen
  BY <1>0, ConditionFacts
<1>3. ~job.failed => Concluded(o.status)
  BY <1>0 DEF Concluding, OnTheWay
<1>4. \A e : Return(e) => ~e
  BY DEF Return
<1>5. stored(n) \in Object
  BY <1>0, LogFacts DEF OwnInv, OwnJob, EnsuresStored, Version
<1>6. [stored(n) EXCEPT !.status = st].status = st
  BY <1>5 DEF Object
<1>7. ASSUME st # job.orig, Store(n, [stored(n) EXCEPT !.status = st])
      PROVE  FALSE
  <2>1. [stored(n) EXCEPT !.status = st] = stored(n)
    BY <1>0, <1>7, FreshAfterStore
  <2> QED
    BY <1>1, <1>6, <1>7, <2>1
<1>8. st = job.orig /\ ~job.failed
  BY <1>4, <1>7 DEF UpdateStatus, Quiet
<1> HIDE DEF o, st
<1> QED
  BY <1>1, <1>2, <1>3, <1>8 DEF Settled, SameSpec, Concluded, Ready

LEMMA StepSettles ==
  ASSUME TypeInv, OwnInv, RestInv, Step, NEW n \in Names, n = job.name,
         Quiet(n), Quiet(n)', stored(n)' = stored(n),
         job'.pc = "idle" \/ job'.name # n
  PROVE  Settled(stored(n))
<1>0. job \in Job /\ log \in Log
  BY WorkerFacts DEF JobOK
<1>1. \A e : Return(e) => ~e
  BY DEF Return, Quiet
<1>2. CASE Ensures
  <2>1. job'.pc \in EnsurePath /\ job'.name = job.name
    BY <1>2, EnsureConcludes DEF Ensures, RestInv, Continues
  <2> QED
    BY <2>1 DEF EnsurePath
<1>3. CASE Get
  <2>1. cached(n) = stored(n)
    BY DEF Quiet, fresh, cached, stored
  <2>2. \A o, c : BeginReconcile(o, c) =>
          job'.pc # "idle" /\ job'.name = job.name
    BY <1>0 DEF BeginReconcile, Job
  <2>3. \/ stored(n) = NoObject
        \/ stored(n).deleting /\ ~stored(n).finalizer
    BY <1>0, <1>3, <2>1, <2>2, GetView
  <2> QED
    BY <1>0, <2>3, StoredObserved DEF RestInv, Observed, Settled
<1>4. CASE AddFinalizer
  <2>1. \A o, c : BeginReconcile(o, c) =>
          job'.pc # "idle" /\ job'.name = job.name
    BY <1>0 DEF BeginReconcile, Job
  <2> QED
    BY <1>1, <1>4, <2>1 DEF AddFinalizer
<1>5. CASE UpdateStatus
  BY <1>5, UpdateStatusSettles DEF RestInv, Quiet
<1>6. CASE LookupForDelete \/ DeleteKey
  <2>1. \A p \in {"RemoveFinalizer"} : Goto(p) =>
          job'.pc # "idle" /\ job'.name = job.name
    BY <1>0 DEF Goto, Job
  <2>2. \A i : job' = [job EXCEPT !.ext = i, !.pc = "DeleteKey"] =>
                job'.pc # "idle" /\ job'.name = job.name
    BY <1>0 DEF Job
  <2> QED
    BY <1>1, <1>6, <2>1, <2>2 DEF LookupForDelete, DeleteKey
<1>7. CASE RemoveFinalizer
  <2>1. Store(n, NoObject)
    BY <1>1, <1>7 DEF RemoveFinalizer
  <2> QED
    BY <1>0, <2>1, FreshAfterStore DEF Quiet, Settled
<1> QED
  BY <1>2, <1>3, <1>4, <1>5, <1>6, <1>7 DEF Step, Ensures

LEMMA NothingForgottenKept ==
  ASSUME TypeInv, OwnInv, RestInv, Next
  PROVE  NothingForgotten'
<1> SUFFICES ASSUME NEW n \in Names, Quiet(n)', job'.pc = "idle" \/ job'.name # n
             PROVE  Settled(stored(n)')
  BY DEF NothingForgotten, Quiet, At, Settled, Ready, fresh, stored
<1>0. job \in Job
  BY WorkerFacts DEF JobOK
<1>1. CASE Crash
  <2>1. stored(n)' = NoObject
    BY <1>1, QuietView
  <2> QED
    BY <2>1 DEF Settled
<1>2. CASE Dequeue(n)
  BY <1>2 DEF Dequeue, Idle
<1>3. CASE Quiet(n) /\ stored(n)' = stored(n) /\ ~Crash
  <2>1. CASE job.pc = "idle" \/ job.name # n
    BY <1>3, <2>1 DEF RestInv, NothingForgotten, Quiet, At
  <2>2. CASE job.pc # "idle" /\ job.name = n
    <3>1. CASE Step
      BY <1>3, <2>2, <3>1, StepSettles
    <3>2. CASE \E m \in Names : Dequeue(m)
      BY <2>2, <3>2 DEF Dequeue, At
    <3>3. CASE \/ Tamper \/ User \/ \E m \in Names : Informer(m)
               \/ \E s \in SecretNames : CollectGarbage(s)
      <4>1. job'.pc = job.pc /\ job'.name = job.name
        BY <1>0, <3>3, OthersKeepJob
      <4> QED
        BY <2>2, <4>1
    <3> QED
      BY <1>3, <3>1, <3>2, <3>3 DEF Next
  <2> QED
    BY <2>1, <2>2
<1> QED
  BY <1>1, <1>2, <1>3, QuietView
-----------------------------------------------------------------------------
(* The theorem.                                                             *)

LEMMA InitRest == Init => RestInv
<1> SUFFICES ASSUME Init PROVE RestInv
  OBVIOUS
<1>1. ASSUME NEW n \in Names
      PROVE  stored(n) = NoObject /\ \A i \in Index(n) : log[n][i] = NoObject
  <2>1. log[n] = <<NoObject>>
    BY DEF Init, KubeInit
  <2>2. Len(log[n]) = 1 /\ log[n][1] = NoObject
    BY <2>1
  <2> QED
    BY <2>2 DEF stored, Index
<1>2. job = Idle
  BY DEF Init
<1>3. Observing
  BY <1>1 DEF Observing, Exists
<1>4. Concluding /\ InStep
  BY <1>2 DEF Concluding, InStep, Idle, EnsurePath
<1>5. NothingForgotten
  BY <1>1 DEF NothingForgotten, Settled
<1> QED
  BY <1>3, <1>4, <1>5 DEF RestInv

LEMMA NextRest ==
  TypeInv /\ TypeInv' /\ OwnInv /\ OwnInv' /\ RestInv /\ [Next]_vars => RestInv'
<1> SUFFICES ASSUME TypeInv, TypeInv', OwnInv, OwnInv', RestInv, [Next]_vars
             PROVE  RestInv'
  OBVIOUS
<1>1. CASE Next
  <2>1. Observing' /\ Concluding'
    BY <1>1, ObservingKept, ConcludingKept DEF RestInv
  <2>2. InStep'
    BY <1>1, InStepKept DEF RestInv
  <2> QED
    BY <1>1, <2>1, <2>2, NothingForgottenKept DEF RestInv
<1>2. CASE UNCHANGED vars
  <2>1. Observing' /\ Concluding'
    BY <1>2 DEF RestInv, Observing, Concluding, OnTheWay, Observed, Concluded,
                Exists, Index, stored, vars, env
  <2>2. InStep'
    BY <1>2 DEF RestInv, InStep, Quiet, SameSpec, fresh, stored, vars
  <2>3. NothingForgotten'
    BY <1>2 DEF RestInv, NothingForgotten, Settled, Ready, At, fresh, stored,
                vars
  <2> QED
    BY <2>1, <2>2, <2>3 DEF RestInv
<1> QED
  BY <1>1, <1>2

\* What NothingForgotten rests on, whatever others do (Tampering).
THEOREM RestInvariant == Spec => []RestInv
<1>1. TypeInv /\ OwnInv /\ TypeInv' /\ OwnInv' /\ RestInv /\ [Next]_vars
        => RestInv'
  BY NextRest
<1> QED
  BY <1>1, InitRest, TypeCorrect, OwnInvariant, PTL DEF Spec

\* No AccessKey is forgotten: one whose worker, queue and events are done is
\* settled (the ends of Reconcile that return no error, and the swallowed
\* conflict of updateStatus), whatever others did to its key and its Secret.
THEOREM NoneForgotten == Spec => []NothingForgotten
<1>1. RestInv => NothingForgotten
  BY DEF RestInv
<1> QED
  BY <1>1, RestInvariant, PTL

-----------------------------------------------------------------------------
(* The AccessKey controller implements the safety part of KeyCustody, for   *)
(* any number of names, AccessKeys, edits, failures and restarts, while     *)
(* nobody else deletes keys in Garage.                                      *)

\* An AccessKey that is being deleted has the finalizer: without it the API
\* server would have removed it.
DeletingHeld ==
  \A n \in Names : \A i \in Index(n) :
    Exists(n, i) /\ log[n][i].deleting => log[n][i].finalizer

-----------------------------------------------------------------------------
(* How the mapped state changes.                                            *)

\* The worker's way to the ensuring calls leads through Get.
SameCalls ==
  job'.pc \in EnsureCalls => job'.name = job.name /\ job.pc \in EnsureCalls

\* What the mapping reads of each log.
SameStored == \A n \in Names : stored(n)' = stored(n)
SameCached == \A n \in Names : cached(n)' = cached(n)

\* A stored UID and a cached one are of the same name.
LEMMA OneName ==
  ASSUME TypeInv, LogInv, NEW m \in Names, NEW n \in Names,
         stored(m) # NoObject, cached(n) # NoObject,
         stored(m).uid = cached(n).uid
  PROVE  m = n
BY WorkerFacts, IndexFacts DEF LogInv, UIDsApart, Exists

\* So are two stored ones.
LEMMA OneOwner ==
  ASSUME TypeInv, LogInv, NEW m \in Names, NEW n \in Names,
         stored(m) # NoObject, stored(n) # NoObject,
         stored(m).uid = stored(n).uid
  PROVE  m = n
BY WorkerFacts, IndexFacts DEF LogInv, UIDsApart, Exists

\* Learning of deletions is all that a step with the same keys and owners
\* does.
LEMMA MoreClosing ==
  ASSUME UNCHANGED keys, Owners' = Owners, Closing \subseteq Closing'
  PROVE  [Custody!Next]_Custody!vars
<1> DEFINE S == Closing' \ Closing
<1>1. Closing' \subseteq Owners /\ Closing \subseteq Owners
  BY DEF Closing
<1>2. S \in SUBSET Closing' /\ S \subseteq Owners \ Closing
  BY <1>1
<1>3. Closing' = Closing \cup S
  OBVIOUS
<1>4. Custody!Close(S)
  BY <1>2, <1>3 DEF Custody!Close
<1> QED
  BY <1>2, <1>4 DEF Custody!Next

LEMMA OwnersSame ==
  ASSUME \A n \in Names : Owned(n)' <=> Owned(n),
         \A n \in Names : Owned(n) => stored(n)'.uid = stored(n).uid
  PROVE  Owners' = Owners
BY DEF Owners

LEMMA ClosingGrows ==
  ASSUME Owners' = Owners,
         \A n \in Names : Known(n) /\ cached(n).uid \in Owners =>
                            Known(n)' /\ cached(n)'.uid = cached(n).uid
  PROVE  Closing \subseteq Closing'
BY DEF Closing

\* Steps of the others, and of the worker between two ensuring calls.
LEMMA SameView ==
  ASSUME UNCHANGED keys, Owners' = Owners, SameCached, SameCalls
  PROVE  [Custody!Next]_Custody!vars
<1>1. \A n \in Names : Known(n) => Known(n)' /\ cached(n)' = cached(n)
  BY DEF SameCached, SameCalls, Known
<1> QED
  BY <1>1, ClosingGrows, MoreClosing

\* The cache catches up.
LEMMA DropView ==
  ASSUME TypeInv, TypeInv', LogInv, NEW d \in [Names -> Nat], Dropped(d),
         UNCHANGED keys, SameCalls
  PROVE  [Custody!Next]_Custody!vars
<1>0. log \in Log /\ log' \in Log
  BY TypeParts DEF TypeInv, TypeOK, Log, Version
<1>1. SameStored
  BY DEF Dropped, SameStored
<1>2. Owners' = Owners
  BY <1>1, OwnersSame DEF SameStored, Owned
<1>3. ASSUME NEW n \in Names, Known(n), cached(n).uid \in Owners
      PROVE  Known(n)' /\ cached(n)'.uid = cached(n).uid
  <2>1. PICK m \in Names : Owned(m) /\ stored(m).uid = cached(n).uid
    BY <1>3 DEF Owners
  <2>2. m = n
    BY <1>3, <2>1, OneName DEF Owned, Known
  <2>3. PICK j \in Index(n) : cached(n)' = log[n][j]
    <3>1. 1 \in Index(n)' /\ cached(n)' = log'[n][1]
      <4>1. log'[n] \in Seq(Version) /\ log'[n] # <<>>
        BY <1>0 DEF Log
      <4> QED
        BY <4>1, EmptySeq DEF Index, cached
    <3> QED
      BY <3>1 DEF Dropped
  <2>4. /\ 1 \in Index(n) /\ Last(n) \in Index(n) /\ 1 <= j /\ j <= Last(n)
        /\ cached(n) = log[n][1] /\ stored(n) = log[n][Last(n)]
    BY <1>0, IndexFacts
  <2>5. Exists(n, 1) /\ Exists(n, Last(n)) /\ log[n][1].uid = log[n][Last(n)].uid
    BY <1>3, <2>1, <2>2, <2>4 DEF Exists, Known, Owned
  <2>6. /\ Exists(n, j) /\ log[n][j].uid = log[n][1].uid
        /\ log[n][1].deleting => log[n][j].deleting
    BY <2>4, <2>5 DEF LogInv, Lifetimes
  <2> QED
    BY <1>3, <2>3, <2>4, <2>6 DEF Known, SameCalls, Exists
<1> QED
  BY <1>2, <1>3, ClosingGrows, MoreClosing

\* A write by someone else than the finalizer's patch and its removal.
LEMMA WriteView ==
  ASSUME TypeInv, NEW n \in Names, NEW v \in Version, Store(n, v),
         stored(n) # NoObject /\ stored(n).finalizer =>
           v # NoObject /\ v.finalizer /\ v.uid = stored(n).uid,
         v # NoObject /\ v.finalizer =>
           stored(n) # NoObject /\ stored(n).finalizer,
         UNCHANGED keys, SameCalls
  PROVE  [Custody!Next]_Custody!vars
<1>0. /\ log \in Log
      /\ stored(n)' = v /\ cached(n)' = cached(n)
      /\ \A m \in Names \ {n} : log'[m] = log[m]
  BY WorkerFacts, StoreFacts
<1>1. SameCached
  BY <1>0 DEF SameCached, cached
<1>2. \A m \in Names \ {n} : stored(m)' = stored(m)
  BY <1>0 DEF stored
<1>3. Owners' = Owners
  BY <1>0, <1>2, OwnersSame DEF Owned
<1> QED
  BY <1>1, <1>3, SameView

\* Nothing is known anew of a deletion.
LEMMA ClosingSame ==
  ASSUME SameCached, \A n \in Names : Known(n)' <=> Known(n)
  PROVE  Closing' = {u \in Owners' :
                       \E n \in Names : Known(n) /\ cached(n).uid = u}
BY DEF SameCached, Closing

LEMMA SameLogView ==
  ASSUME UNCHANGED log
  PROVE  SameStored /\ SameCached /\ Owners' = Owners
<1>1. SameStored /\ SameCached
  BY DEF SameStored, SameCached, stored, cached
<1> QED
  BY <1>1, OwnersSame DEF SameStored, Owned

-----------------------------------------------------------------------------
(* The steps.                                                               *)

LEMMA WorldRefines ==
  ASSUME TypeInv, TypeInv', LogInv, "deleteKey" \notin Tampering, World
  PROVE  [Custody!Next]_Custody!vars
<1>0. /\ log \in Log /\ job \in Job /\ NewStatus \in Status /\ nextUID \in Nat
      /\ \A n \in Names : stored(n) \in Version
  BY WorkerFacts, LogFacts
  DEF JobOK, NewStatus, Status, NoID, NoName, EnvOK
<1>1. ASSUME \/ job' = job \/ \E b : job' = [job EXCEPT !.secCurrent = b]
             \/ \E b : job' = [job EXCEPT !.current = b]
      PROVE  SameCalls
  BY <1>0, <1>1 DEF SameCalls, Job
<1>2. ASSUME UNCHANGED <<log, keys>>, SameCalls
      PROVE  [Custody!Next]_Custody!vars
  BY <1>2, SameLogView, SameView
<1>3. ASSUME NEW n \in Names, Dequeue(n)
      PROVE  [Custody!Next]_Custody!vars
  <2>1. SameCalls
    BY <1>3 DEF Dequeue, SameCalls, Idle, EnsureCalls
  <2> QED
    BY <1>2, <1>3, <2>1 DEF Dequeue, garage
<1>4. ASSUME NEW n \in Names, Informer(n)
      PROVE  [Custody!Next]_Custody!vars
  <2>1. PICK d \in [Names -> Nat] : Dropped(d)
    BY <1>0, <1>4, DeliverView DEF Informer
  <2> QED
    BY <1>1, <1>4, <2>1, DropView DEF Informer, garage
<1>5. CASE Crash
  <2>1. PICK d \in [Names -> Nat] : Dropped(d)
    BY <1>0, <1>5, RelistView DEF Crash
  <2>2. SameCalls
    BY <1>5 DEF Crash, SameCalls, Idle, EnsureCalls
  <2> QED
    BY <1>5, <2>1, <2>2, DropView DEF Crash, garage
<1>6. CASE Tamper
  BY <1>1, <1>2, <1>6 DEF Tamper, SecretChanged
<1>7. ASSUME NEW s \in SecretNames, CollectGarbage(s)
      PROVE  [Custody!Next]_Custody!vars
  BY <1>1, <1>2, <1>7 DEF CollectGarbage, SecretChanged, garage
<1>8. ASSUME NEW n \in Names, NEW v, ObjectWritten(n, v)
      PROVE  Store(n, v) /\ SameCalls
  BY <1>1, <1>8 DEF ObjectWritten
<1>9. ASSUME NEW n \in Names, NEW s \in SecretNames, UserCreates(n, s)
      PROVE  [Custody!Next]_Custody!vars
  <2> DEFINE v == [uid |-> nextUID, gen |-> 1, secretName |-> s,
                   deleting |-> FALSE, finalizer |-> FALSE, status |-> NewStatus]
  <2>1. v \in Version /\ ~v.finalizer
    BY <1>0 DEF Version, Object
  <2>2. Store(n, v) /\ SameCalls
    BY <1>8, <1>9 DEF UserCreates
  <2> HIDE DEF v
  <2> QED
    BY <1>9, <2>1, <2>2, WriteView DEF UserCreates, garage
<1>10. ASSUME NEW n \in Names, NEW s \in SecretNames, UserEdits(n, s)
       PROVE  [Custody!Next]_Custody!vars
  <2> DEFINE v == [stored(n) EXCEPT !.secretName = s, !.gen = @ + 1]
  <2>1. stored(n) \in Object
    BY <1>0, <1>10 DEF UserEdits, Version
  <2>2. /\ v \in Object /\ v.uid = stored(n).uid
        /\ v.finalizer = stored(n).finalizer
    BY <2>1, ObjectChanged DEF Object
  <2>3. Store(n, v) /\ SameCalls /\ v \in Version /\ v # NoObject
    BY <1>8, <1>10, <2>2, NoObjectAssumption DEF UserEdits, Version
  <2> HIDE DEF v
  <2> QED
    BY <1>10, <2>1, <2>2, <2>3, WriteView DEF UserEdits, garage
<1>11. ASSUME NEW n \in Names, UserDeletes(n)
       PROVE  [Custody!Next]_Custody!vars
  <2>1. stored(n) \in Object
    BY <1>0, <1>11 DEF UserDeletes, Version
  <2>2. CASE stored(n).finalizer
    <3> DEFINE v == [stored(n) EXCEPT !.deleting = TRUE, !.gen = @ + 1]
    <3>1. v \in Object /\ v.uid = stored(n).uid /\ v.finalizer
      BY <2>1, <2>2, ObjectChanged DEF Object
    <3>2. Store(n, v) /\ SameCalls /\ v \in Version /\ v # NoObject
      BY <1>8, <1>11, <2>2, <3>1, NoObjectAssumption DEF UserDeletes, Version
    <3> HIDE DEF v
    <3> QED
      BY <1>11, <2>2, <3>1, <3>2, WriteView DEF UserDeletes, garage
  <2>3. CASE ~stored(n).finalizer
    <3>1. Store(n, NoObject) /\ SameCalls /\ NoObject \in Version
      BY <1>8, <1>11, <2>3 DEF UserDeletes, Version
    <3> QED
      BY <1>11, <2>3, <3>1, WriteView DEF UserDeletes, garage
  <2> QED
    BY <2>2, <2>3
<1> QED
  BY <1>3, <1>4, <1>5, <1>6, <1>7, <1>9, <1>10, <1>11 DEF World, User

\* The steps that change neither log nor keys, but Get.
LEMMA QuietRefines ==
  ASSUME TypeInv,
         \/ GetKey \/ LookupKey \/ GetSecret \/ ReadSecret \/ WriteSecret
         \/ DeleteOldSecret \/ LookupForDelete
  PROVE  [Custody!Next]_Custody!vars
<1>0. job \in Job /\ job.name \in Names
  BY WorkerFacts
  DEF JobOK, GetKey, LookupKey, GetSecret, ReadSecret, WriteSecret,
      DeleteOldSecret, LookupForDelete, At
<1>1. UNCHANGED <<log, keys>>
  BY DEF GetKey, LookupKey, GetSecret, ReadSecret, WriteSecret,
         DeleteOldSecret, LookupForDelete, garage
<1>2. CASE LookupForDelete
  <2>1. \A err : Return(err) => job'.pc = "idle"
    BY DEF Return, Idle
  <2>2. Goto("RemoveFinalizer") => job'.pc = "RemoveFinalizer"
    BY <1>0 DEF Goto, Job
  <2>3. \A id : job' = [job EXCEPT !.ext = id, !.pc = "DeleteKey"] =>
                  job'.pc = "DeleteKey"
    BY <1>0 DEF Job
  <2>4. job'.pc \notin EnsureCalls
    BY <1>2, <2>1, <2>2, <2>3 DEF LookupForDelete, EnsureCalls
  <2> QED
    BY <1>1, <2>4, SameLogView, SameView DEF SameCalls
<1>3. CASE job.pc \in EnsureCalls /\ job'.name = job.name
  BY <1>1, <1>3, SameLogView, SameView DEF SameCalls
<1>4. ASSUME \/ GetKey \/ LookupKey \/ GetSecret \/ ReadSecret \/ WriteSecret
             \/ DeleteOldSecret
      PROVE  job.pc \in EnsureCalls /\ job'.name = job.name
  <2>1. /\ job.pc \in EnsureCalls /\ job.pc \in EnsurePath
    BY <1>4
    DEF GetKey, LookupKey, GetSecret, ReadSecret, WriteSecret,
        DeleteOldSecret, At, EnsureCalls, EnsurePath
  <2>2. /\ KeyFailed => job'.name = job.name
        /\ \A id : KeyFound(id) => job'.name = job.name
        /\ \A r : SecretNotReady(r) => job'.name = job.name
        /\ SecretWritten => job'.name = job.name
        /\ \A p : Goto(p) => job'.name = job.name
        /\ \A s, b : job' = [job EXCEPT !.pc = "WriteSecret", !.sec = s,
                                        !.secCurrent = b]
                       => job'.name = job.name
        /\ \A o : job' = [job EXCEPT !.pc = "UpdateStatus", !.obj = o]
                    => job'.name = job.name
    BY <1>0 DEF KeyFailed, KeyFound, SecretNotReady, SecretWritten, Goto, Job
  <2> QED
    BY <1>4, <2>1, <2>2
    DEF GetKey, LookupKey, GetSecret, ReadSecret, WriteSecret, DeleteOldSecret
<1> QED
  BY <1>2, <1>3, <1>4

\* A cached deletion leads Get to the deletion branch.
LEMMA GetRefines ==
  ASSUME TypeInv, Get
  PROVE  [Custody!Next]_Custody!vars
<1>0. job \in Job /\ job.name \in Names /\ job.pc = "Get"
  BY WorkerFacts DEF JobOK, Get, At
<1>1. SameStored /\ SameCached /\ Owners' = Owners /\ UNCHANGED keys
  BY SameLogView DEF Get, garage
<1>2. \/ job'.pc \notin EnsureCalls
      \/ /\ job'.name = job.name /\ cached(job.name) # NoObject
         /\ ~cached(job.name).deleting
  <2>1. \A err : Return(err) => job'.pc = "idle"
    BY DEF Return, Idle
  <2>2. /\ \A p : Goto(p) => job'.name = job.name
        /\ \A o, b : BeginReconcile(o, b) => job'.name = job.name
    BY <1>0 DEF Goto, BeginReconcile, Job
  <2>3. CASE /\ cached(job.name) # NoObject /\ cached(job.name).deleting
             /\ cached(job.name).finalizer
    <3> DEFINE o == cached(job.name)
               p == IF o.status.id # NoID THEN "DeleteKey" ELSE "LookupForDelete"
    <3>1. job' = [job EXCEPT !.obj = o, !.current = fresh(job.name),
                             !.ext = o.status.id, !.pc = p]
      BY <2>3 DEF Get
    <3>2. p \in {"DeleteKey", "LookupForDelete"}
      OBVIOUS
    <3> HIDE DEF p
    <3>3. job'.pc = p
      BY <1>0, <3>1 DEF Job
    <3> QED
      BY <3>2, <3>3 DEF EnsureCalls
  <2>4. CASE \/ cached(job.name) = NoObject
             \/ cached(job.name).deleting /\ ~cached(job.name).finalizer
    BY <2>1, <2>4 DEF Get, EnsureCalls
  <2>5. CASE cached(job.name) # NoObject /\ ~cached(job.name).deleting
    BY <2>2, <2>5 DEF Get
  <2> QED
    BY <2>3, <2>4, <2>5
<1>3. \A n \in Names : Known(n) => Known(n)' /\ cached(n)' = cached(n)
  BY <1>1, <1>2 DEF Known, SameCached
<1> QED
  BY <1>1, <1>3, ClosingGrows, MoreClosing

\* The status write keeps UID and finalizer; it ends the reconcile.
LEMMA UpdateStatusRefines ==
  ASSUME TypeInv, UpdateStatus
  PROVE  [Custody!Next]_Custody!vars
<1> DEFINE s == UpdateAccessKeyCondition(job.obj)
           v == [stored(job.name) EXCEPT !.status = s]
<1>0. /\ log \in Log /\ job.name \in Names /\ job.obj \in Object
      /\ stored(job.name) \in Version
  BY WorkerFacts, LogFacts DEF UpdateStatus, At, EnsurePath
<1>1. SameCalls
  BY DEF UpdateStatus, Return, Idle, SameCalls, EnsureCalls
<1>2. UNCHANGED keys
  BY DEF UpdateStatus, garage
<1>3. \/ UNCHANGED log
      \/ stored(job.name) # NoObject /\ Store(job.name, v)
  BY DEF UpdateStatus, fresh, cached, stored
<1>4. CASE UNCHANGED log
  BY <1>1, <1>2, <1>4, SameLogView, SameView
<1>5. CASE stored(job.name) # NoObject /\ Store(job.name, v)
  <2>1. s \in Status
    BY <1>0 DEF UpdateAccessKeyCondition, Object, Status
  <2>2. stored(job.name) \in Object
    BY <1>0, <1>5 DEF Version
  <2>3. /\ v \in Object /\ v.uid = stored(job.name).uid
        /\ v.finalizer = stored(job.name).finalizer
    BY <2>1, <2>2 DEF Object
  <2>4. v \in Version /\ v # NoObject /\ Store(job.name, v)
    BY <1>5, <2>3, NoObjectAssumption DEF Version
  <2> HIDE DEF v
  <2> QED
    BY <1>0, <1>1, <1>2, <1>5, <2>3, <2>4, WriteView
<1> QED
  BY <1>3, <1>4, <1>5

\* The worker creates a key for an owner without one that it does not know to
\* be closing.
LEMMA CreateRefines ==
  ASSUME TypeInv, LogInv, WorkerInv, CreateKey
  PROVE  [Custody!Next]_Custody!vars
<1> DEFINE u == job.obj.uid
<1>0. /\ job \in Job /\ job.name \in Names /\ job.pc = "CreateKey"
      /\ job.pc \in EnsurePath /\ log \in Log
  BY WorkerFacts DEF CreateKey, At, EnsurePath, JobOK
<1>1. SameStored /\ SameCached /\ Owners' = Owners
  BY SameLogView DEF CreateKey
<1>2. job'.name = job.name /\ job'.pc \in EnsureCalls /\ job.pc \in EnsureCalls
  BY <1>0 DEF CreateKey, KeyFound, KeyFailed, Job, EnsureCalls
<1>3. Closing' = Closing
  BY <1>1, <1>2, ClosingSame DEF Known, SameCached, Closing
<1>4. /\ stored(job.name) # NoObject /\ stored(job.name).uid = u
      /\ stored(job.name).finalizer /\ KeysOf(u) = {}
  BY <1>0 DEF WorkerInv, Ensuring
<1>5. u \in Owners
  BY <1>0, <1>4 DEF Owners, Owned
<1>6. u \notin Closing
  BY <1>0, <1>2, <1>4, OneName DEF Closing, Known
<1>7. CASE UNCHANGED keys
  BY <1>1, <1>3, <1>7 DEF Custody!vars
<1>8. CASE keys' = keys \cup {[id |-> nextKey, uid |-> u]}
  <2> DEFINE k == [id |-> nextKey, uid |-> u]
  <2>1. \A l \in keys : l.id # k.id
    BY WorkerFacts DEF LogInv, IDsApart, EnvOK, Key
  <2>2. k \in keys' \ keys /\ k.uid = u /\ keys' = keys \cup {k}
    BY <1>8, <2>1
  <2>3. Custody!KeysOf(u) = {}
    BY <1>4 DEF KeysOf, Custody!KeysOf
  <2> HIDE DEF k
  <2>4. Custody!Create(u)
    BY <1>1, <1>3, <1>5, <1>6, <2>1, <2>2, <2>3 DEF Custody!Create
  <2> QED
    BY <1>5, <2>4 DEF Custody!Next
<1> QED
  BY <1>7, <1>8 DEF CreateKey, garage

\* The deletion branch only runs for an AccessKey it knows to be closing.
LEMMA DeleteKeyRefines ==
  ASSUME TypeInv, LogInv, WorkerInv, DeleteKey
  PROVE  [Custody!Next]_Custody!vars
<1> DEFINE u == job.obj.uid
<1>0. /\ job \in Job /\ job.name \in Names /\ job.pc = "DeleteKey"
      /\ log \in Log
  BY WorkerFacts DEF DeleteKey, At, JobOK
<1>1. SameStored /\ SameCached /\ Owners' = Owners
  BY SameLogView DEF DeleteKey
<1>2. job'.pc \notin EnsureCalls /\ job.pc \notin EnsureCalls
  BY <1>0 DEF DeleteKey, Goto, Return, Idle, Job, EnsureCalls
<1>3. Closing' = Closing
  BY <1>1, <1>2, ClosingSame DEF Known, SameCached, Closing
<1>4. CASE UNCHANGED keys
  BY <1>1, <1>3, <1>4 DEF Custody!vars
<1>5. CASE keys' # keys
  <2>1. keys' = keys \ KeysOf(u)
    BY <1>0, <1>5 DEF DeleteKey, WorkerInv, Deleting, KeysOf
  <2>2. PICK k \in keys : k.uid = u
    BY <1>5, <2>1 DEF KeysOf
  <2>3. PICK n \in Names : Owned(n) /\ stored(n).uid = u
    BY <2>2 DEF LogInv, KeyAccounted, Owned
  <2>4. /\ Last(n) \in Index(n) /\ 1 \in 1 .. Last(n)
        /\ stored(n) = log[n][Last(n)] /\ cached(n) = log[n][1]
    BY <1>0, IndexFacts DEF Index
  <2>5. n = job.name
    BY <1>0, <2>3, <2>4
    DEF WorkerInv, Owning, Holding, DeletePath, Exists, Owned
  <2>6. /\ cached(n) # NoObject /\ cached(n).uid = u /\ cached(n).deleting
    BY <1>0, <2>3, <2>4, <2>5
    DEF WorkerInv, Deleting, DeletePath, Exists, Owned
  <2>7. u \in Closing /\ u \in Owners
    BY <1>2, <2>3, <2>6 DEF Closing, Known, Owners
  <2>8. Custody!Delete(u)
    BY <1>1, <1>3, <2>1, <2>7 DEF Custody!Delete, Custody!KeysOf, KeysOf
  <2> QED
    BY <2>7, <2>8 DEF Custody!Next
<1> QED
  BY <1>4, <1>5

\* The finalizer goes after the key.
LEMMA RemoveFinalizerRefines ==
  ASSUME TypeInv, LogInv, WorkerInv, RemoveFinalizer
  PROVE  [Custody!Next]_Custody!vars
<1> DEFINE u == job.obj.uid
<1>n. PICK n \in Names : n = job.name
  BY WorkerFacts DEF RemoveFinalizer, At
<1>0. /\ job \in Job /\ n = job.name /\ job.pc = "RemoveFinalizer"
      /\ job.pc \in DeletePath /\ log \in Log /\ NoObject \in Version
  BY <1>n, WorkerFacts DEF RemoveFinalizer, At, JobOK, Version, DeletePath
<1>1. UNCHANGED keys
  BY DEF RemoveFinalizer, garage
<1>2. job'.pc \notin EnsureCalls /\ job.pc \notin EnsureCalls /\ SameCalls
  BY <1>0 DEF RemoveFinalizer, Return, Idle, EnsureCalls, SameCalls
<1>3. CASE UNCHANGED log
  BY <1>1, <1>2, <1>3, SameLogView, SameView
<1>4. CASE job.current /\ Store(n, NoObject)
  <2>1. /\ stored(n) # NoObject /\ stored(n).uid = u /\ KeysOf(u) = {}
    BY <1>0, <1>4 DEF WorkerInv, Deleting
  <2>2. CASE ~stored(n).finalizer
    BY <1>0, <1>1, <1>2, <1>4, <2>2, WriteView
  <2>3. CASE stored(n).finalizer
    <3>1. /\ stored(n)' = NoObject /\ cached(n)' = cached(n)
          /\ \A m \in Names \ {n} : log'[m] = log[m]
      BY <1>0, <1>4, StoreFacts
    <3>2. SameCached /\ \A m \in Names \ {n} : stored(m)' = stored(m)
      BY <3>1 DEF SameCached, cached, stored
    <3>3. \A m \in Names \ {n} : Owned(m) => stored(m).uid # u
      BY <1>0, <2>1, OneOwner DEF Owned
    <3>4. \A m \in Names : Owned(m)' <=> m # n /\ Owned(m)
      BY <3>1, <3>2 DEF Owned
    <3>5. Owners' = Owners \ {u}
      BY <1>0, <2>1, <3>2, <3>3, <3>4 DEF Owners
    <3>6. Closing' = Closing \ {u}
      BY <1>2, <3>2, <3>5, ClosingSame DEF Known, SameCached, Closing
    <3>7. Last(n) \in Index(n) /\ 1 \in 1 .. Last(n)
          /\ stored(n) = log[n][Last(n)] /\ cached(n) = log[n][1]
      BY <1>0, IndexFacts DEF Index
    <3>8. cached(n) # NoObject /\ cached(n).uid = u /\ cached(n).deleting
      BY <1>0, <2>1, <3>7 DEF WorkerInv, Deleting, Exists
    <3>9. u \in Closing /\ u \in Owners
      BY <1>0, <1>2, <2>1, <2>3, <3>8 DEF Closing, Known, Owners, Owned
    <3>10. Custody!Release(u)
      BY <1>1, <2>1, <3>5, <3>6, <3>9
      DEF Custody!Release, Custody!KeysOf, KeysOf
    <3> QED
      BY <3>9, <3>10 DEF Custody!Next
  <2> QED
    BY <2>2, <2>3
<1> QED
  BY <1>n, <1>3, <1>4 DEF RemoveFinalizer, OptimisticLock

\* The finalizer's patch registers an AccessKey, which has no key yet.
LEMMA AddFinalizerRefines ==
  ASSUME TypeInv, LogInv, DeletingHeld, AddFinalizer
  PROVE  [Custody!Next]_Custody!vars
<1>n. PICK n \in Names : n = job.name
  BY WorkerFacts DEF AddFinalizer, At
<1> DEFINE now == stored(n)  v == [now EXCEPT !.finalizer = TRUE]
<1>0. /\ job \in Job /\ log \in Log /\ now \in Version
      /\ job.pc = "AddFinalizer" /\ job.pc \in EnsureCalls
  BY <1>n, WorkerFacts, LogFacts DEF AddFinalizer, At, JobOK, EnsureCalls
<1>1. UNCHANGED keys
  BY DEF AddFinalizer, garage
<1>2. SameCalls
  <2>1. \A err : Return(err) => job'.pc \notin EnsureCalls
    BY DEF Return, Idle, EnsureCalls
  <2>2. \A o, b : BeginReconcile(o, b) => job'.name = job.name
    BY <1>0 DEF BeginReconcile, Job
  <2> QED
    BY <1>0, <2>1, <2>2 DEF AddFinalizer, SameCalls
<1>3. CASE UNCHANGED log
  BY <1>1, <1>2, <1>3, SameLogView, SameView
<1>4. CASE now # NoObject /\ Store(n, v)
  <2>1. /\ now \in Object /\ v \in Object /\ v.uid = now.uid /\ v.finalizer
        /\ v \in Version /\ v # NoObject
    <3>1. now \in Object
      BY <1>0, <1>4 DEF Version
    <3> QED
      BY <3>1, NoObjectAssumption DEF Object, Version
  <2>2. CASE now.finalizer
    <3> HIDE DEF v
    <3> QED
      BY <1>1, <1>2, <1>4, <2>1, <2>2, WriteView
  <2>3. CASE ~now.finalizer
    <3> DEFINE u == now.uid
    <3> HIDE DEF v
    <3>1. /\ stored(n)' = v /\ cached(n)' = cached(n)
          /\ \A m \in Names \ {n} : log'[m] = log[m]
      BY <1>0, <1>4, <2>1, StoreFacts
    <3>2. SameCached /\ \A m \in Names \ {n} : stored(m)' = stored(m)
      BY <3>1 DEF SameCached, cached, stored
    <3>3. \A m \in Names : Owned(m)' <=> m = n \/ Owned(m)
      BY <2>1, <3>1, <3>2 DEF Owned
    <3>4. Owners' = Owners \cup {u}
      BY <2>1, <2>3, <3>1, <3>2, <3>3 DEF Owners, Owned
    <3>5. u \notin Owners
      BY <1>4, <2>3, OneOwner DEF Owners, Owned
    <3>6. \A k \in keys : k.uid # u
      BY <1>4, <2>3, OneOwner DEF LogInv, KeyAccounted
    <3>7. \A m \in Names : Known(m) => Known(m)'
      BY <3>2, <1>2 DEF Known, SameCached, SameCalls
    <3>8. ASSUME NEW m \in Names, cached(m) # NoObject, cached(m).deleting
          PROVE  cached(m).uid # u
      <4>1. ASSUME cached(m).uid = u PROVE FALSE
        <5>1. m = n
          BY <1>4, <3>8, <4>1, OneName
        <5>2. /\ 1 \in Index(n) /\ Last(n) \in Index(n) /\ 1 <= Last(n)
              /\ cached(n) = log[n][1] /\ now = log[n][Last(n)]
              /\ Last(n) <= Last(n)
          BY <1>0, IndexFacts
        <5>3. now.deleting
          BY <1>4, <3>8, <4>1, <5>1, <5>2 DEF LogInv, Lifetimes, Exists
        <5> QED
          BY <1>4, <2>3, <5>2, <5>3 DEF DeletingHeld, Exists
      <4> QED
        BY <4>1
    <3>9. ASSUME NEW m \in Names, Known(m)', cached(m).uid \in Owners
          PROVE  Known(m)
      <4>1. PICK l \in Names : Owned(l) /\ stored(l).uid = cached(m).uid
        BY <3>9 DEF Owners
      <4>2. cached(m) # NoObject /\ cached(m).deleting
        BY <3>2, <3>9 DEF Known, SameCached
      <4>3. m # n
        BY <1>4, <2>3, <4>1, <4>2, OneName DEF Owned
      <4> QED
        BY <1>n, <4>2, <4>3 DEF Known
    <3>10. Closing' = Closing
      <4>1. ASSUME NEW x \in Closing' PROVE x \in Closing
        <5>1. PICK m \in Names : Known(m)' /\ cached(m).uid = x
          BY <3>2, <4>1 DEF Closing, SameCached
        <5>2. cached(m) # NoObject /\ cached(m).deleting
          BY <3>2, <5>1 DEF Known, SameCached
        <5>3. x \in Owners
          BY <3>4, <3>8, <4>1, <5>1, <5>2 DEF Closing
        <5> QED
          BY <3>9, <5>1, <5>3 DEF Closing
      <4>2. ASSUME NEW x \in Closing PROVE x \in Closing'
        BY <3>2, <3>4, <3>7, <4>2 DEF Closing, SameCached
      <4> QED
        BY <4>1, <4>2
    <3>11. Custody!Register(u)
      BY <1>1, <3>4, <3>5, <3>6, <3>10 DEF Custody!Register, Custody!KeysOf
    <3> QED
      BY <3>4, <3>11 DEF Custody!Next
  <2> QED
    BY <2>2, <2>3
<1> QED
  BY <1>n, <1>3, <1>4 DEF AddFinalizer

-----------------------------------------------------------------------------
(* Invariants.                                                              *)

\* The deletion branch of Reconcile always finds the finalizer there: only
\* RemoveFinalizer takes it, and the object with it.
THEOREM DeletingAlwaysHeld == Spec => []DeletingHeld
<1>1. RestInv => DeletingHeld
  BY DEF RestInv, Observing, Observed, DeletingHeld
<1> QED
  BY <1>1, RestInvariant, PTL

LEMMA InitRefines == Init => Custody!Init
BY DEF Init, KubeInit, Custody!Init, Owners, Closing, Owned, stored

LEMMA NextRefines ==
  ASSUME TypeInv, TypeInv', LogInv, WorkerInv, DeletingHeld,
         "deleteKey" \notin Tampering, [Next]_vars
  PROVE  [Custody!Next]_Custody!vars
<1>1. CASE Step
  BY <1>1, GetRefines, AddFinalizerRefines, QuietRefines, CreateRefines,
     UpdateStatusRefines, DeleteKeyRefines, RemoveFinalizerRefines DEF Step
<1>2. CASE World
  BY <1>2, WorldRefines
<1>3. CASE UNCHANGED vars
  BY <1>3, SameLogView, SameView DEF vars, garage, SameCalls
<1> QED
  BY <1>1, <1>2, <1>3 DEF Next, World

\* Whatever users, failures and restarts do, the AccessKey controller treats
\* keys as KeyCustody promises: Create only for a registered AccessKey that
\* has no key and is not known to go, Delete only for one that is known to go,
\* and the finalizer goes after the key.
THEOREM ImplementsCustody ==
  ASSUME "deleteKey" \notin Tampering
  PROVE  Spec => CustodyKept
<1>1. Inv /\ Inv' /\ DeletingHeld /\ [Next]_vars => [Custody!Next]_Custody!vars
  BY NextRefines DEF Inv
<1> QED
  BY <1>1, InitRefines, Invariant, DeletingAlwaysHeld, PTL
  DEF Spec, CustodyKept, Custody!Spec
=============================================================================
