--------------------------- MODULE AccessKeyProofs ---------------------------
(***************************************************************************)
(* Theorems about the AccessKey controller, for any number of names, of     *)
(* Secrets, of AccessKeys, of edits, of failing calls and of crashes.       *)
(***************************************************************************)
EXTENDS AccessKeyController, KubeProofs, TLAPS

Version == Object \cup {NoObject}
Log     == [Names -> Seq(Version) \ {<<>>}]

\* The calls made for an AccessKey that is kept, and for one that is deleted.
EnsurePath == {"GetKey", "LookupKey", "CreateKey", "GetSecret", "ReadSecret",
               "WriteSecret", "DeleteOldSecret", "UpdateStatus"}
DeletePath == {"LookupForDelete", "DeleteKey", "RemoveFinalizer"}
\* Every step but the worker's on its request.
World ==
  \/ \E n \in Names : Dequeue(n) \/ Informer(n)
  \/ User \/ Tamper \/ Crash
  \/ \E s \in SecretNames : CollectGarbage(s)

Holding == job.pc \in EnsurePath \cup DeletePath

Exists(n, i) == log[n][i] # NoObject

-----------------------------------------------------------------------------
(* The inductive invariant.                                                 *)

\* The worker has a request, and a version once it is past Get.
Working ==
  /\ job.pc # "idle" => job.name \in Names
  /\ Holding => job.obj \in Object

TypeInv == TypeOK /\ Working

\* A UID belongs to one name and is below the next one.
UIDsApart ==
  /\ \A n \in Names : \A i \in Index(n) :
       Exists(n, i) => log[n][i].uid < nextUID
  /\ \A m, n \in Names : \A i \in Index(m), j \in Index(n) :
       Exists(m, i) /\ Exists(n, j) /\ log[m][i].uid = log[n][j].uid => m = n

\* A key's ID is its own.
IDsApart ==
  /\ \A k \in keys : k.id # NoID /\ k.id < nextKey
  /\ \A k, l \in keys : k.id = l.id => k = l

\* The versions of one AccessKey follow each other without a gap, and once it
\* is being deleted it stays so.
Lifetimes ==
  \A n \in Names : \A h, i, j \in Index(n) :
    /\ h <= i /\ i <= j
    /\ Exists(n, h) /\ Exists(n, j) /\ log[n][h].uid = log[n][j].uid
    => /\ Exists(n, i) /\ log[n][i].uid = log[n][h].uid
       /\ log[n][h].deleting => log[n][i].deleting

\* An AccessKey whose deletion the informer has not reported is still stored,
\* with its finalizer.
Held ==
  \A n \in Names : \A i \in Index(n) :
    Exists(n, i) /\ log[n][i].finalizer /\ ~log[n][i].deleting =>
      /\ stored(n) # NoObject
      /\ stored(n).uid = log[n][i].uid
      /\ stored(n).finalizer

\* The ID in the status of o is that of o's keys and of no others.
Records(o) ==
  o.status.id # NoID =>
    /\ o.status.id < nextKey
    /\ \A k \in keys : k.uid = o.uid <=> k.id = o.status.id

Recorded ==
  \A n \in Names : \A i \in Index(n) : Exists(n, i) => Records(log[n][i])

\* The status of o has an ID, and o has no key (any more).
KeyGone(o) == o.status.id # NoID /\ KeysOf(o.uid) = {}

\* A recorded key only disappears once the cache has seen the deletion.
GoneIfDeleting ==
  \A n \in Names : \A i \in Index(n) :
    Exists(n, i) /\ KeyGone(log[n][i]) =>
      \A h \in 1 .. i : /\ Exists(n, h) /\ log[n][h].uid = log[n][i].uid
                        /\ log[n][h].deleting

\* The worker's version is one of the request's name.
Owning ==
  Holding =>
    /\ job.obj.uid < nextUID
    /\ \A n \in Names : \A i \in Index(n) :
         Exists(n, i) /\ log[n][i].uid = job.obj.uid => n = job.name
    /\ Records(job.obj)

\* While the worker ensures the key, the AccessKey is stored with its
\* finalizer, and no recorded key of it has disappeared.
Ensuring ==
  /\ job.pc \in EnsurePath =>
       /\ stored(job.name) # NoObject
       /\ stored(job.name).uid = job.obj.uid
       /\ stored(job.name).finalizer
       /\ ~KeyGone(job.obj)
       /\ \A i \in Index(job.name) :
            Exists(job.name, i) /\ log[job.name][i].uid = job.obj.uid =>
              ~KeyGone(log[job.name][i])
  /\ job.pc = "AddFinalizer" =>
       \A i \in Index(job.name) :
         Exists(job.name, i) => ~KeyGone(log[job.name][i])
  /\ job.pc = "GetKey" => job.obj.status.id # NoID
  /\ job.pc = "CreateKey" => KeysOf(job.obj.uid) = {}

\* While it deletes the key, the informer has nothing older to report.
Deleting ==
  /\ job.pc \in DeletePath =>
       /\ \A i \in Index(job.name) :
            Exists(job.name, i) /\ log[job.name][i].uid = job.obj.uid =>
              \A h \in 1 .. i :
                /\ Exists(job.name, h) /\ log[job.name][h].uid = job.obj.uid
                /\ log[job.name][h].deleting
       /\ job.current => /\ stored(job.name) # NoObject
                         /\ stored(job.name).uid = job.obj.uid
  /\ job.pc = "DeleteKey" =>
       \A k \in keys : k.uid = job.obj.uid <=> k.id = job.ext
  /\ job.pc = "RemoveFinalizer" => KeysOf(job.obj.uid) = {}

\* What holds of the log and of Garage, and what the worker relies on.
LogInv ==
  /\ UIDsApart /\ IDsApart /\ KeyUnique /\ KeyAccounted
  /\ Lifetimes /\ Held /\ Recorded /\ GoneIfDeleting
WorkerInv == Owning /\ Ensuring /\ Deleting

Inv == TypeInv /\ LogInv /\ WorkerInv

-----------------------------------------------------------------------------
(* The log of versions.                                                     *)

\* What the type of log says of one object.
LEMMA LogFacts ==
  ASSUME log \in Log, NEW n \in Names
  PROVE  /\ log[n] \in Seq(Version)
         /\ Len(log[n]) \in Nat \ {0}
         /\ 1 \in Index(n) /\ Len(log[n]) \in Index(n)
         /\ \A i \in Index(n) : log[n][i] \in Version
         /\ cached(n) \in Version /\ stored(n) \in Version
<1>1. log \in Logs(Version) /\ Log = Logs(Version)
  BY DEF Log, Logs
<1> QED
  BY <1>1, KubeLog

\* A write adds one version to one log, or changes nothing.
LEMMA StoreFacts ==
  ASSUME log \in Log, NEW n \in Names, NEW v \in Version, Store(n, v)
  PROVE  /\ log' \in Log
         /\ stored(n)' = v /\ cached(n)' = cached(n)
         /\ \A m \in Names \ {n} : log'[m] = log[m]
         /\ Len(log[n]) <= Len(log'[n])
         /\ \A i \in Index(n) : log'[n][i] = log[n][i]
         /\ \A i \in Index(n)' \ Index(n) :
              i = Len(log'[n]) /\ log'[n][i] = v
<1>1. log \in Logs(Version) /\ Log = Logs(Version)
  BY DEF Log, Logs
<1> QED
  BY <1>1, KubeStore

\* A delivery drops the first version of one log.
LEMMA DeliverFacts ==
  ASSUME log \in Log, NEW n \in Names, Deliver(n)
  PROVE  /\ log' \in Log
         /\ stored(n)' = stored(n)
         /\ \A m \in Names \ {n} : log'[m] = log[m]
         /\ Len(log'[n]) = Len(log[n]) - 1
         /\ \A i \in Index(n)' : i + 1 \in Index(n) /\ log'[n][i] = log[n][i + 1]
<1>1. log \in Logs(Version) /\ Log = Logs(Version)
  BY DEF Log, Logs
<1> QED
  BY <1>1, KubeDeliver

\* A list leaves the stored version of every object.
LEMMA RelistFacts ==
  ASSUME log \in Log, Relist
  PROVE  /\ log' \in Log
         /\ \A n \in Names : /\ stored(n)' = stored(n) /\ Len(log'[n]) = 1
                             /\ log'[n][1] = stored(n)
<1>1. log \in Logs(Version) /\ Log = Logs(Version)
  BY DEF Log, Logs
<1> QED
  BY <1>1, KubeRelist

-----------------------------------------------------------------------------
(* How a step changes the logs, without their lengths.                      *)

\* The index of the stored version.
Last(n) == Len(log[n])

LEMMA IndexFacts ==
  ASSUME log \in Log, NEW n \in Names
  PROVE  /\ 1 \in Index(n) /\ Last(n) \in Index(n)
         /\ stored(n) = log[n][Last(n)] /\ cached(n) = log[n][1]
         /\ \A i \in Index(n) :
              /\ i \in Nat /\ 1 <= i /\ i <= Last(n)
              /\ \A h \in 1 .. i : h \in Index(n) /\ h <= i
<1>1. Len(log[n]) \in Nat \ {0}
  BY LogFacts
<1> QED
  BY <1>1 DEF Index, Last, stored, cached

\* Versions after a write: an old one, or the new one at the end.
LEMMA StoreView ==
  ASSUME log \in Log, log' \in Log, NEW n \in Names, NEW v \in Version,
         Store(n, v)
  PROVE  /\ \A m \in Names : stored(m)' = IF m = n THEN v ELSE stored(m)
         /\ \A m \in Names : \A i \in Index(m)' :
              \/ i \in Index(m) /\ log'[m][i] = log[m][i]
              \/ /\ m = n /\ log'[m][i] = v /\ i = Last(n)'
                 /\ \A h \in Index(n) : h < i
         /\ \A m \in Names : \A i \in Index(m) :
              i \in Index(m)' /\ log'[m][i] = log[m][i]
<1>1. /\ stored(n)' = v
      /\ \A m \in Names \ {n} : log'[m] = log[m]
      /\ Len(log[n]) <= Len(log'[n])
      /\ \A i \in Index(n) : log'[n][i] = log[n][i]
      /\ \A i \in Index(n)' \ Index(n) : i = Len(log'[n]) /\ log'[n][i] = v
  BY StoreFacts
<1>2. \A m \in Names : Len(log[m]) \in Nat /\ Len(log'[m]) \in Nat
  <2>1. ASSUME NEW m \in Names PROVE Len(log[m]) \in Nat /\ Len(log'[m]) \in Nat
    <3>1. log[m] \in Seq(Version) /\ log'[m] \in Seq(Version)
      BY DEF Log
    <3> QED
      BY <3>1, LenProperties
  <2> QED
    BY <2>1
<1>3. \A m \in Names \ {n} : stored(m)' = stored(m) /\ Index(m)' = Index(m)
  BY <1>1 DEF stored, Index
<1>4. Index(n) \subseteq Index(n)'
  BY <1>1, <1>2 DEF Index
<1>5. \A i \in Index(n)' \ Index(n) : \A h \in Index(n) : h < i
  BY <1>1, <1>2 DEF Index
<1> QED
  BY <1>1, <1>3, <1>4, <1>5 DEF Last

\* Versions after a delivery or a list: the first d[n] of each log are gone.
Dropped(d) ==
  \A n \in Names :
    /\ stored(n)' = stored(n)
    /\ \A i \in Index(n)' : /\ i + d[n] \in Index(n)
                            /\ log'[n][i] = log[n][i + d[n]]

LEMMA DeliverView ==
  ASSUME log \in Log, NEW n \in Names, Deliver(n)
  PROVE  \E d \in [Names -> Nat] : Dropped(d)
<1> DEFINE d == [m \in Names |-> IF m = n THEN 1 ELSE 0]
<1>1. d \in [Names -> Nat]
  OBVIOUS
<1>2. ASSUME NEW m \in Names \ {n}
      PROVE  /\ stored(m)' = stored(m)
             /\ \A i \in Index(m)' : i + d[m] \in Index(m) /\ log'[m][i] = log[m][i + d[m]]
  <2>1. log'[m] = log[m] /\ d[m] = 0 /\ Index(m)' = Index(m)
    BY DeliverFacts DEF Index
  <2>2. \A i \in Index(m) : i + 0 = i
    BY DEF Index
  <2> QED
    BY <2>1, <2>2 DEF stored
<1>3. /\ stored(n)' = stored(n)
      /\ \A i \in Index(n)' : i + d[n] \in Index(n) /\ log'[n][i] = log[n][i + d[n]]
  BY DeliverFacts
<1>4. Dropped(d)
  BY <1>2, <1>3 DEF Dropped
<1> QED
  BY <1>1, <1>4

LEMMA RelistView ==
  ASSUME log \in Log, Relist
  PROVE  \E d \in [Names -> Nat] : Dropped(d)
<1> DEFINE d == [m \in Names |-> Len(log[m]) - 1]
<1>1. \A m \in Names : Len(log[m]) \in Nat \ {0} /\ Len(log[m]) \in Index(m)
  BY LogFacts
<1>2. d \in [Names -> Nat]
  BY <1>1
<1>3. ASSUME NEW m \in Names
      PROVE  /\ stored(m)' = stored(m)
             /\ \A i \in Index(m)' : i + d[m] \in Index(m) /\ log'[m][i] = log[m][i + d[m]]
  <2>1. /\ stored(m)' = stored(m) /\ Len(log'[m]) = 1
        /\ log'[m][1] = stored(m)
    BY RelistFacts
  <2>2. Index(m)' = {1}
    BY <2>1 DEF Index
  <2>3. 1 + d[m] = Len(log[m])
    BY <1>1
  <2> QED
    BY <2>1, <2>2, <2>3, <1>1 DEF stored
<1>4. Dropped(d)
  BY <1>3 DEF Dropped
<1> QED
  BY <1>2, <1>4

-----------------------------------------------------------------------------
(* Types.                                                                   *)

\* The types of everything but the log and the worker.
EnvOK ==
  /\ queue \subseteq Names
  /\ keys \subseteq Key /\ nextKey \in Nat \ {0}
  /\ secrets \in [SecretNames -> Secret]
  /\ nextUID \in Nat \ {0} /\ faults \in Nat /\ tampers \in Nat

LEMMA TypeParts == TypeOK <=> log \in Log /\ EnvOK /\ job \in Job
BY DEF TypeOK, Log, Version, EnvOK

JobOK == job \in Job /\ Working

\* The helpers that move the worker on keep its type.
LEMMA ReturnType ==
  ASSUME JobOK, EnvOK, job.name \in Names, NEW err \in BOOLEAN, Return(err)
  PROVE  JobOK' /\ (queue \subseteq Names)'
<1>1. job' = Idle /\ (queue \subseteq Names)'
  BY DEF Return, EnvOK
<1>2. Idle \in Job
  BY DEF Idle, Job, NoSecret, Secret, NoID, Foreign
<1> QED
  BY <1>1, <1>2 DEF JobOK, Working, Holding, EnsurePath, DeletePath, Idle

LEMMA BeginType ==
  ASSUME JobOK, job.name \in Names, NEW o \in Object, NEW c \in BOOLEAN,
         BeginReconcile(o, c)
  PROVE  JobOK'
<1>1. o.status \in Status
  BY DEF Object
<1> QED
  BY <1>1 DEF JobOK, Working, Job, BeginReconcile, Holding

LEMMA GotoType ==
  ASSUME JobOK, Holding,
         NEW p \in EnsurePath \cup DeletePath, Goto(p)
  PROVE  JobOK'
BY DEF JobOK, Working, Job, Goto, Holding, EnsurePath, DeletePath

LEMMA KeyFailedType ==
  ASSUME JobOK, Holding, KeyFailed
  PROVE  JobOK'
<1>1. job.obj \in Object /\ job.name \in Names
  BY DEF JobOK, Working, Holding, EnsurePath, DeletePath
<1>2. [job.obj EXCEPT !.status.key = "False"] \in Object
  BY <1>1 DEF Object, Status
<1> QED
  BY <1>1, <1>2 DEF JobOK, Working, Job, KeyFailed, Holding, EnsurePath

LEMMA KeyFoundType ==
  ASSUME JobOK, Holding, NEW id \in Nat, KeyFound(id)
  PROVE  JobOK'
<1>1. job.obj \in Object /\ job.name \in Names
  BY DEF JobOK, Working, Holding, EnsurePath, DeletePath
<1>2. [job.obj EXCEPT !.status.id = id, !.status.key = "True"] \in Object
  BY <1>1 DEF Object, Status
<1> QED
  BY <1>1, <1>2 DEF JobOK, Working, Job, KeyFound, Holding, EnsurePath

LEMMA SecretNotReadyType ==
  ASSUME JobOK, Holding, NEW r \in {"Failed", "Conflict"}, SecretNotReady(r)
  PROVE  JobOK'
<1>1. job.obj \in Object /\ job.name \in Names
  BY DEF JobOK, Working, Holding, EnsurePath, DeletePath
<1>2. [job.obj EXCEPT !.status.secret = r] \in Object
  BY <1>1 DEF Object, Status
<1> QED
  BY <1>1, <1>2 DEF JobOK, Working, Job, SecretNotReady, Holding, EnsurePath

LEMMA SecretDoneType ==
  ASSUME NEW o \in Object
  PROVE  SecretDone(o) \in Object
BY DEF SecretDone, Object, Status

LEMMA SecretWrittenType ==
  ASSUME JobOK, Holding, SecretWritten
  PROVE  JobOK'
<1>1. job.obj \in Object /\ job.name \in Names
  BY DEF JobOK, Working, Holding, EnsurePath, DeletePath
<1>2. SecretDone(job.obj) \in Object
  BY <1>1, SecretDoneType
<1> QED
  BY <1>1, <1>2 DEF JobOK, Working, Job, SecretWritten, Holding, EnsurePath

\* What the worker's path says of its variables.
LEMMA WorkerFacts ==
  ASSUME TypeInv
  PROVE  /\ log \in Log /\ EnvOK /\ JobOK
         /\ job.pc # "idle" => job.name \in Names
         /\ job.pc \in EnsurePath \cup DeletePath =>
              /\ Holding /\ job.obj \in Object /\ job.name \in Names
              /\ job.obj.status \in Status
BY TypeParts DEF TypeInv, JobOK, Working, Holding, EnsurePath, DeletePath, Object

\* Each step of the worker keeps the types.
LEMMA StepType ==
  ASSUME TypeInv, Step
  PROVE  TypeInv'
<1> SUFFICES (log \in Log)' /\ EnvOK' /\ JobOK'
  BY DEF TypeInv, JobOK, TypeOK, Log, Version, EnvOK
<1> USE DEF At, EnsurePath, DeletePath
<1>0. /\ log \in Log /\ EnvOK /\ JobOK
      /\ (faults' = faults - 1 /\ faults > 0) => faults' \in Nat
  BY WorkerFacts DEF EnvOK
<1>1. CASE Get
  <2>1. job.name \in Names /\ cached(job.name) \in Version
    BY <1>1, WorkerFacts, LogFacts DEF Get
  <2>2. fresh(job.name) \in BOOLEAN
    BY DEF fresh
  <2>3. UNCHANGED <<log, keys, nextKey, secrets, nextUID, faults, tampers>>
    BY <1>1 DEF Get, garage, env
  <2>4. CASE Return(FALSE)
    BY <2>1, <2>3, <2>4, <1>0, ReturnType DEF EnvOK
  <2>5. CASE /\ cached(job.name) # NoObject
             /\ job' = [job EXCEPT !.obj = cached(job.name), !.current = fresh(job.name),
                          !.ext = cached(job.name).status.id,
                          !.pc = IF cached(job.name).status.id # NoID
                                 THEN "DeleteKey" ELSE "LookupForDelete"]
             /\ UNCHANGED queue
    <3>1. cached(job.name) \in Object /\ cached(job.name).status.id \in Nat
      BY <2>1, <2>5 DEF Version, Object, Status
    <3> QED
      BY <2>1, <2>2, <2>3, <2>5, <3>1, <1>0
      DEF EnvOK, JobOK, Working, Job, Holding
  <2>6. CASE Goto("AddFinalizer") /\ UNCHANGED queue
    BY <2>1, <2>3, <2>6, <1>0 DEF EnvOK, JobOK, Working, Job, Holding, Goto
  <2>7. CASE /\ cached(job.name) # NoObject
             /\ BeginReconcile(cached(job.name), fresh(job.name))
             /\ UNCHANGED queue
    <3>1. cached(job.name) \in Object
      BY <2>1, <2>7 DEF Version
    <3> QED
      BY <2>1, <2>2, <2>3, <2>7, <3>1, <1>0, BeginType DEF EnvOK
  <2> QED
    BY <1>1, <2>4, <2>5, <2>6, <2>7 DEF Get
<1>2. CASE AddFinalizer
  <2>1. job.name \in Names /\ stored(job.name) \in Version
    BY <1>2, WorkerFacts, LogFacts DEF AddFinalizer
  <2> DEFINE patched == [stored(job.name) EXCEPT !.finalizer = TRUE]
  <2>2. stored(job.name) # NoObject => patched \in Object
    BY <2>1 DEF Version, Object
  <2>3. UNCHANGED <<keys, nextKey, secrets, nextUID, tampers>>
    BY <1>2 DEF AddFinalizer, garage
  <2>4. faults' \in Nat
    BY <1>2, <1>0 DEF AddFinalizer, Fault, NoFault, EnvOK
  <2>5. log' \in Log
    BY <1>2, <2>1, <2>2, <1>0, StoreFacts DEF AddFinalizer, Version
  <2>6. JobOK' /\ (queue \subseteq Names)'
    <3>1. CASE Return(TRUE)
      BY <2>1, <3>1, <1>0, ReturnType
    <3>2. CASE stored(job.name) # NoObject /\ BeginReconcile(patched, TRUE) /\ UNCHANGED queue
      BY <2>1, <2>2, <3>2, <1>0, BeginType DEF EnvOK
    <3> QED
      BY <1>2, <3>1, <3>2 DEF AddFinalizer
  <2> QED
    BY <2>3, <2>4, <2>5, <2>6, <1>0 DEF EnvOK
<1>3. CASE GetKey
  <2>1. Holding /\ job.obj.status.id \in Nat
    BY <1>3, WorkerFacts DEF GetKey, Status
  <2>2. JobOK'
    BY <1>3, <2>1, <1>0, KeyFoundType, KeyFailedType, GotoType DEF GetKey
  <2> QED
    BY <1>3, <2>2, <1>0 DEF GetKey, EnvOK, garage, Fault, NoFault
<1>4. CASE LookupKey
  <2>1. Holding /\ \A k \in keys : k.id \in Nat
    BY <1>4, WorkerFacts DEF LookupKey, EnvOK, Key
  <2>2. JobOK'
    BY <1>4, <2>1, <1>0, KeyFoundType, KeyFailedType, GotoType
    DEF LookupKey, KeysOf
  <2> QED
    BY <1>4, <2>2, <1>0 DEF LookupKey, EnvOK, garage, Fault, NoFault
<1>5. CASE CreateKey
  <2>1. Holding /\ nextKey \in Nat /\ job.obj.uid \in Nat
    BY <1>5, WorkerFacts DEF CreateKey, EnvOK, Object
  <2>2. JobOK'
    BY <1>5, <2>1, <1>0, KeyFoundType, KeyFailedType DEF CreateKey
  <2>3. [id |-> nextKey, uid |-> job.obj.uid] \in Key
    BY <2>1 DEF Key
  <2> QED
    BY <1>5, <2>1, <2>2, <2>3, <1>0
    DEF CreateKey, EnvOK, garage, Fault, NoFault
<1>6. CASE GetSecret
  <2>1. Holding
    BY <1>6, WorkerFacts DEF GetSecret
  <2>2. JobOK'
    BY <1>6, <2>1, <1>0, SecretNotReadyType, GotoType DEF GetSecret
  <2> QED
    BY <1>6, <2>2, <1>0 DEF GetSecret, EnvOK, garage, Fault, NoFault
<1>7. CASE ReadSecret
  <2>1. /\ Holding /\ job.obj \in Object /\ job.name \in Names
        /\ secrets[job.obj.secretName] \in Secret
    BY <1>7, WorkerFacts DEF ReadSecret, EnvOK, Object
  <2>2. ASSUME job' = [job EXCEPT !.pc = "WriteSecret",
                         !.sec = secrets[job.obj.secretName], !.secCurrent = TRUE]
        PROVE  JobOK'
    BY <2>1, <2>2, <1>0 DEF JobOK, Working, Job, Holding
  <2>3. JobOK'
    BY <1>7, <2>1, <2>2, <1>0, SecretNotReadyType, SecretWrittenType
    DEF ReadSecret
  <2> QED
    BY <1>7, <2>3, <1>0 DEF ReadSecret, EnvOK, garage, Fault, NoFault
<1>8. CASE WriteSecret
  <2>1. Holding /\ job.obj \in Object
    BY <1>8, WorkerFacts DEF WriteSecret
  <2>2. JobOK'
    BY <1>8, <2>1, <1>0, SecretNotReadyType, SecretWrittenType DEF WriteSecret
  <2>3. [exists |-> TRUE, id |-> job.obj.status.id,
         owner |-> IF job.sec.exists THEN job.sec.owner ELSE job.obj.uid] \in Secret
    BY <2>1, <1>0 DEF JobOK, Job, Secret, Object, Status
  <2>4. secrets' \in [SecretNames -> Secret]
    BY <1>8, <2>3, <1>0 DEF WriteSecret, EnvOK
  <2> QED
    BY <1>8, <2>2, <2>4, <1>0 DEF WriteSecret, EnvOK, garage, Fault, NoFault
<1>9. CASE DeleteOldSecret
  <2>1. Holding /\ job.obj \in Object /\ job.name \in Names
    BY <1>9, WorkerFacts DEF DeleteOldSecret
  <2>2. ASSUME job' = [job EXCEPT !.pc = "UpdateStatus", !.obj = SecretDone(job.obj)]
        PROVE  JobOK'
    BY <2>1, <2>2, <1>0, SecretDoneType DEF JobOK, Working, Job, Holding
  <2>3. JobOK'
    BY <1>9, <2>1, <2>2, <1>0, SecretNotReadyType DEF DeleteOldSecret
  <2>4. secrets' \in [SecretNames -> Secret]
    <3>1. NoSecret \in Secret
      BY DEF NoSecret, Secret, Foreign, NoID
    <3> QED
      BY <1>9, <1>0, <3>1 DEF DeleteOldSecret, EnvOK
  <2> QED
    BY <1>9, <2>3, <2>4, <1>0
    DEF DeleteOldSecret, EnvOK, garage, Fault, NoFault
<1>10. CASE UpdateStatus
  <2>1. /\ job.obj \in Object /\ job.name \in Names
        /\ stored(job.name) \in Version
    BY <1>10, WorkerFacts, LogFacts DEF UpdateStatus
  <2>2. UpdateAccessKeyCondition(job.obj) \in Status
    BY <2>1 DEF UpdateAccessKeyCondition, Object, Status
  <2> DEFINE updated == [stored(job.name) EXCEPT
                           !.status = UpdateAccessKeyCondition(job.obj)]
  <2>3. stored(job.name) # NoObject => updated \in Object
    BY <2>1, <2>2 DEF Version, Object
  <2>4. cached(job.name) # NoObject /\ fresh(job.name) => stored(job.name) # NoObject
    BY DEF cached, fresh, stored
  <2>5. log' \in Log
    BY <1>10, <2>1, <2>3, <2>4, <1>0, StoreFacts DEF UpdateStatus, Version
  <2>6. \E err \in BOOLEAN : Return(err)
    BY <1>10, <1>0 DEF UpdateStatus, JobOK, Job
  <2>7. JobOK' /\ (queue \subseteq Names)'
    BY <2>1, <2>6, <1>0, ReturnType
  <2> QED
    BY <1>10, <2>5, <2>7, <1>0 DEF UpdateStatus, EnvOK, garage, Fault, NoFault
<1>11. CASE LookupForDelete
  <2>1. Holding /\ job.obj \in Object /\ job.name \in Names
    BY <1>11, WorkerFacts DEF LookupForDelete
  <2>2. ASSUME NEW k \in keys, UNCHANGED queue,
               job' = [job EXCEPT !.ext = k.id, !.pc = "DeleteKey"]
        PROVE  JobOK' /\ (queue \subseteq Names)'
    BY <2>1, <2>2, <1>0 DEF JobOK, Working, Job, Holding, EnvOK, Key
  <2>3. ASSUME Goto("RemoveFinalizer"), UNCHANGED queue
        PROVE  JobOK' /\ (queue \subseteq Names)'
    BY <2>1, <2>3, <1>0, GotoType DEF EnvOK
  <2>4. ASSUME Return(TRUE)
        PROVE  JobOK' /\ (queue \subseteq Names)'
    BY <2>1, <2>4, <1>0, ReturnType
  <2>5. JobOK' /\ (queue \subseteq Names)'
    BY <1>11, <2>2, <2>3, <2>4 DEF LookupForDelete, KeysOf
  <2> QED
    BY <1>11, <2>5, <1>0 DEF LookupForDelete, EnvOK, garage, Fault, NoFault
<1>12. CASE DeleteKey
  <2>1. Holding /\ job.name \in Names
    BY <1>12, WorkerFacts DEF DeleteKey
  <2>2. JobOK' /\ (queue \subseteq Names)'
    BY <1>12, <2>1, <1>0, GotoType, ReturnType DEF DeleteKey, EnvOK
  <2> QED
    BY <1>12, <2>2, <1>0 DEF DeleteKey, EnvOK, Fault, NoFault
<1>13. CASE RemoveFinalizer
  <2>1. job.name \in Names
    BY <1>13, WorkerFacts DEF RemoveFinalizer
  <2>2. JobOK' /\ (queue \subseteq Names)'
    BY <1>13, <2>1, <1>0, ReturnType DEF RemoveFinalizer
  <2>3. log' \in Log
    BY <1>13, <2>1, <1>0, StoreFacts DEF RemoveFinalizer, Version
  <2> QED
    BY <1>13, <2>2, <2>3, <1>0
    DEF RemoveFinalizer, EnvOK, garage, Fault, NoFault
<1> QED
  BY <1>1, <1>2, <1>3, <1>4, <1>5, <1>6, <1>7, <1>8, <1>9, <1>10, <1>11,
     <1>12, <1>13 DEF Step

\* Edited or deleted, an object remains one.
LEMMA ObjectChanged ==
  ASSUME NEW o \in Object
  PROVE  /\ \A s \in SecretNames :
              [o EXCEPT !.secretName = s, !.gen = @ + 1] \in Object
         /\ [o EXCEPT !.deleting = TRUE, !.gen = @ + 1] \in Object
<1>1. o.gen + 1 \in Nat
  BY DEF Object
<1>2. \A g \in Nat : /\ \A s \in SecretNames :
                          [o EXCEPT !.secretName = s, !.gen = g] \in Object
                     /\ [o EXCEPT !.deleting = TRUE, !.gen = g] \in Object
  BY DEF Object
<1> QED
  BY <1>1, <1>2

\* Each step of the rest of the world keeps the types.
LEMMA WorldType ==
  ASSUME TypeInv, World
  PROVE  TypeInv'
<1> DEFINE Typed == log \in Log /\ EnvOK /\ JobOK
<1> SUFFICES Typed'
  BY DEF TypeInv, JobOK, TypeOK, Log, Version, EnvOK
<1>0. /\ log \in Log /\ EnvOK /\ JobOK
      /\ \A n \in Names : stored(n) \in Version
  BY WorkerFacts, LogFacts
<1>a. Idle \in Job /\ NoSecret \in Secret
  BY DEF Idle, Job, NoSecret, Secret, NoID, Foreign
<1>b. ASSUME NEW b \in BOOLEAN,
             \/ job' = [job EXCEPT !.current = b]
             \/ job' = [job EXCEPT !.secCurrent = b]
      PROVE  JobOK'
  BY <1>0, <1>b DEF JobOK, Working, Job, Holding
<1>c. ASSUME NEW n \in Names, NEW v \in Version, ObjectWritten(n, v)
      PROVE  log' \in Log /\ JobOK'
  <2>1. log' \in Log
    BY <1>0, <1>c, StoreFacts DEF ObjectWritten
  <2>2. (job.current /\ n # job.name) \in BOOLEAN
    OBVIOUS
  <2> QED
    BY <1>b, <1>c, <2>1, <2>2 DEF ObjectWritten
<1>d. ASSUME NEW r \in SecretNames, NEW v \in Secret, SecretChanged(r, v)
      PROVE  secrets' \in [SecretNames -> Secret] /\ JobOK'
  <2>1. (job.secCurrent /\ r # job.obj.secretName) \in BOOLEAN
    OBVIOUS
  <2> QED
    BY <1>b, <1>d, <2>1, <1>0 DEF SecretChanged, EnvOK
<1>1. ASSUME NEW n \in Names, Dequeue(n) PROVE Typed'
  <2>1. [Idle EXCEPT !.pc = "Get", !.name = n] \in Job
    BY <1>a DEF Job
  <2> QED
    BY <1>1, <2>1, <1>0
    DEF Dequeue, EnvOK, JobOK, Working, Holding, EnsurePath, DeletePath,
        garage, env, Idle
<1>2. ASSUME NEW n \in Names, Informer(n) PROVE Typed'
  <2>1. log' \in Log
    BY <1>2, <1>0, DeliverFacts DEF Informer
  <2> QED
    BY <1>2, <2>1, <1>0
    DEF Informer, Deliver, EnvOK, JobOK, Working, Holding, garage, env
<1>3. ASSUME NEW n \in Names, NEW s \in SecretNames, UserCreates(n, s) PROVE Typed'
  <2>1. [uid |-> nextUID, gen |-> 1, secretName |-> s, deleting |-> FALSE,
         finalizer |-> FALSE, status |-> NewStatus] \in Version
    BY <1>0 DEF EnvOK, Version, Object, NewStatus, Status, NoID
  <2> QED
    BY <1>3, <2>1, <1>0, <1>c DEF UserCreates, EnvOK, garage
<1>4. ASSUME NEW n \in Names, NEW s \in SecretNames, UserEdits(n, s) PROVE Typed'
  <2>1. [stored(n) EXCEPT !.secretName = s, !.gen = @ + 1] \in Version
    BY <1>4, <1>0, ObjectChanged DEF UserEdits, Version
  <2> QED
    BY <1>4, <2>1, <1>0, <1>c DEF UserEdits, EnvOK, garage, env
<1>5. ASSUME NEW n \in Names, UserDeletes(n) PROVE Typed'
  <2>1. stored(n) \in Object
    BY <1>5, <1>0 DEF UserDeletes, Version
  <2>2. [stored(n) EXCEPT !.deleting = TRUE, !.gen = @ + 1] \in Version
    BY <2>1, ObjectChanged DEF Version
  <2>3. NoObject \in Version
    BY DEF Version
  <2> QED
    BY <1>5, <2>2, <2>3, <1>0, <1>c DEF UserDeletes, EnvOK, garage, env
<1>6. CASE Tamper
  <2>1. [NoSecret EXCEPT !.exists = TRUE] \in Secret
    BY <1>a DEF Secret
  <2>2. (secrets' \in [SecretNames -> Secret]) /\ JobOK'
    <3>1. CASE UNCHANGED <<secrets, job>>
      BY <3>1, <1>0 DEF EnvOK, JobOK, Working, Holding
    <3>2. CASE \E r \in SecretNames :
                 SecretChanged(r, [NoSecret EXCEPT !.exists = TRUE])
      BY <3>2, <2>1, <1>d
    <3>3. CASE \E r \in SecretNames : SecretChanged(r, NoSecret)
      BY <3>3, <1>a, <1>d
    <3> QED
      BY <1>6, <3>1, <3>2, <3>3 DEF Tamper
  <2>3. keys' \subseteq keys
    BY <1>6 DEF Tamper
  <2>4. tampers' \in Nat
    BY <1>6, <1>0 DEF Tamper, EnvOK
  <2> QED
    BY <1>6, <2>2, <2>3, <2>4, <1>0 DEF Tamper, EnvOK
<1>7. CASE Crash
  <2>1. log' \in Log
    BY <1>7, <1>0, RelistFacts DEF Crash
  <2> QED
    BY <1>7, <2>1, <1>0, <1>a
    DEF Crash, Relist, Fault, EnvOK, JobOK, Working, Holding, EnsurePath,
        DeletePath, garage, Idle
<1>8. ASSUME NEW s \in SecretNames, CollectGarbage(s) PROVE Typed'
  BY <1>8, <1>0, <1>a, <1>d DEF CollectGarbage, EnvOK, garage, env
<1> QED
  BY <1>1, <1>2, <1>3, <1>4, <1>5, <1>6, <1>7, <1>8 DEF World, User

\* The types hold initially.
LEMMA InitType == Init => TypeInv
<1> SUFFICES ASSUME Init PROVE TypeInv
  OBVIOUS
<1>1. Idle \in Job /\ NoSecret \in Secret
  BY DEF Idle, Job, NoSecret, Secret, NoID, Foreign
<1>2. log \in Log
  <2>1. <<NoObject>> \in Seq(Version) \ {<<>>}
    BY DEF Version
  <2> QED
    BY <2>1 DEF Init, KubeInit, Log
<1>3. EnvOK
  BY <1>1, ConstantsAssumption DEF Init, KubeInit, EnvOK
<1>4. Working
  BY DEF Init, Working, Holding, EnsurePath, DeletePath, Idle
<1> QED
  BY <1>1, <1>2, <1>3, <1>4, TypeParts DEF TypeInv, Init

\* Every step keeps the types.
LEMMA NextType == TypeInv /\ [Next]_vars => TypeInv'
<1> SUFFICES ASSUME TypeInv, [Next]_vars PROVE TypeInv'
  OBVIOUS
<1>1. CASE UNCHANGED vars
  <2>1. UNCHANGED <<log, queue, keys, nextKey, secrets, nextUID, faults,
                    tampers, job>>
    BY <1>1 DEF vars, garage, env
  <2> QED
    BY <2>1 DEF TypeInv, TypeOK, Working, Holding
<1>2. CASE Step
  BY <1>2, StepType
<1>3. CASE World
  BY <1>3, WorldType
<1> QED
  BY <1>1, <1>2, <1>3 DEF Next, World

\* Every variable always has a value of its type, and the worker only ever
\* reads the fields of a version it holds: Reconcile never runs on without an
\* object after Get.
THEOREM TypeCorrect == Spec => []TypeInv
BY InitType, NextType, PTL DEF Spec

\* In particular the type invariant of the runs.
THEOREM TypesAlwaysOK == Spec => []TypeOK
BY TypeCorrect, PTL DEF TypeInv

-----------------------------------------------------------------------------
(* Events that are delivered, and keys that stay the same.                  *)

LEMMA Shifted ==
  \A h, i, d \in Nat : h \in 1 .. i => h + d \in 1 .. (i + d)
OBVIOUS

LEMMA DropLog ==
  ASSUME TypeInv, LogInv, NEW d \in [Names -> Nat], Dropped(d), log' \in Log,
         UNCHANGED <<keys, nextKey, nextUID>>
  PROVE  LogInv'
<1>0. /\ log \in Log
      /\ \A n \in Names : d[n] \in Nat
      /\ \A n \in Names : stored(n)' = stored(n)
      /\ \A n \in Names : \A i \in Index(n)' :
           /\ i \in Nat /\ i + d[n] \in Index(n)
           /\ log'[n][i] = log[n][i + d[n]]
  BY WorkerFacts, IndexFacts DEF Dropped, Index
<1>1. UIDsApart'
  BY <1>0 DEF LogInv, UIDsApart, Exists
<1>2. IDsApart' /\ KeyUnique'
  BY DEF LogInv, IDsApart, KeyUnique
<1>3. KeyAccounted'
  BY <1>0 DEF LogInv, KeyAccounted
<1>4. Lifetimes'
  <2> SUFFICES ASSUME NEW n \in Names,
                      NEW h \in Index(n)', NEW i \in Index(n)', NEW j \in Index(n)',
                      h <= i, i <= j, Exists(n, h)', Exists(n, j)',
                      log'[n][h].uid = log'[n][j].uid
               PROVE  /\ Exists(n, i)' /\ log'[n][i].uid = log'[n][h].uid
                      /\ log'[n][h].deleting => log'[n][i].deleting
    BY DEF Lifetimes
  <2>1. h + d[n] <= i + d[n] /\ i + d[n] <= j + d[n]
    BY <1>0
  <2> QED
    BY <2>1, <1>0 DEF LogInv, Lifetimes, Exists
<1>5. Held'
  BY <1>0 DEF LogInv, Held, Exists
<1>6. Recorded'
  BY <1>0 DEF LogInv, Recorded, Records, Exists
<1>7. GoneIfDeleting'
  <2> SUFFICES ASSUME NEW n \in Names, NEW i \in Index(n)', NEW h \in 1 .. i,
                      Exists(n, i)', KeyGone(log[n][i])'
               PROVE  /\ Exists(n, h)' /\ log'[n][h].uid = log'[n][i].uid
                      /\ log'[n][h].deleting
    BY DEF GoneIfDeleting
  <2>1. h \in Index(n)'
    BY DEF Index
  <2>2. h + d[n] \in 1 .. (i + d[n])
    BY <1>0, <2>1, Shifted
  <2>3. Exists(n, i + d[n]) /\ KeyGone(log[n][i + d[n]])
    BY <1>0 DEF Exists, KeyGone, KeysOf
  <2>4. \A g \in 1 .. (i + d[n]) :
          /\ Exists(n, g) /\ log[n][g].uid = log[n][i + d[n]].uid
          /\ log[n][g].deleting
    BY <2>3, <1>0 DEF LogInv, GoneIfDeleting
  <2> QED
    BY <2>1, <2>2, <2>4, <1>0 DEF Exists
<1> QED
  BY <1>1, <1>2, <1>3, <1>4, <1>5, <1>6, <1>7 DEF LogInv

LEMMA DropWorker ==
  ASSUME TypeInv, WorkerInv, NEW d \in [Names -> Nat], Dropped(d), log' \in Log,
         UNCHANGED <<keys, nextKey, nextUID, job>>
  PROVE  WorkerInv'
<1>0. /\ log \in Log
      /\ \A n \in Names : d[n] \in Nat
      /\ \A n \in Names : stored(n)' = stored(n)
      /\ \A n \in Names : \A i \in Index(n)' :
           /\ i \in Nat /\ i + d[n] \in Index(n)
           /\ log'[n][i] = log[n][i + d[n]]
      /\ job.pc # "idle" => job.name \in Names
  BY WorkerFacts, IndexFacts DEF Dropped, Index
<1>1. Owning'
  BY <1>0 DEF WorkerInv, Owning, Holding, Records, Exists
<1>2. Ensuring'
  BY <1>0 DEF WorkerInv, Ensuring, KeyGone, KeysOf, Exists, EnsurePath
<1>3. Deleting'
  <2>1. ASSUME job.pc \in DeletePath, NEW i \in Index(job.name)',
               Exists(job.name, i)', log'[job.name][i].uid = job.obj.uid,
               NEW h \in 1 .. i
        PROVE  /\ Exists(job.name, h)' /\ log'[job.name][h].uid = job.obj.uid
               /\ log'[job.name][h].deleting
    <3>1. job.name \in Names
      BY <1>0, <2>1 DEF DeletePath
    <3>2. h \in Index(job.name)'
      BY DEF Index
    <3>3. h + d[job.name] \in 1 .. (i + d[job.name])
      BY <1>0, <3>1, <3>2, Shifted
    <3>4. \A g \in 1 .. (i + d[job.name]) :
            /\ Exists(job.name, g) /\ log[job.name][g].uid = job.obj.uid
            /\ log[job.name][g].deleting
      BY <2>1, <3>1, <1>0 DEF WorkerInv, Deleting, Exists
    <3> QED
      BY <3>1, <3>2, <3>3, <3>4, <1>0 DEF Exists
  <2>2. job.pc \in DeletePath /\ job.current =>
          (stored(job.name) # NoObject /\ stored(job.name).uid = job.obj.uid)'
    BY <1>0 DEF WorkerInv, Deleting, DeletePath
  <2>3. /\ job.pc = "DeleteKey" =>
             \A k \in keys : k.uid = job.obj.uid <=> k.id = job.ext
        /\ job.pc = "RemoveFinalizer" => KeysOf(job.obj.uid)' = {}
    BY DEF WorkerInv, Deleting, KeysOf
  <2> QED
    BY <2>1, <2>2, <2>3 DEF Deleting
<1> QED
  BY <1>1, <1>2, <1>3 DEF WorkerInv

-----------------------------------------------------------------------------
(* Writes: an AccessKey gets a new version, is created, or disappears.      *)

Extends(n, v) ==
  /\ v \in Object /\ stored(n) # NoObject
  /\ v.uid = stored(n).uid
  /\ stored(n).deleting => v.deleting
  /\ stored(n).finalizer => v.finalizer
  /\ Records(v)
  /\ KeyGone(v) => KeyGone(stored(n))

Creates(n, v) ==
  /\ v \in Object /\ stored(n) = NoObject
  /\ v.uid = nextUID /\ v.status.id = NoID /\ ~v.finalizer

Removes(n, v) ==
  /\ v = NoObject
  /\ \A i \in Index(n) :
       Exists(n, i) => ~(log[n][i].finalizer /\ ~log[n][i].deleting)
  /\ stored(n) # NoObject =>
       ~stored(n).finalizer \/ KeysOf(stored(n).uid) = {}

LEMMA WriteLog ==
  ASSUME TypeInv, LogInv, NEW n \in Names, NEW v \in Version, Store(n, v),
         Extends(n, v) \/ Creates(n, v) \/ Removes(n, v),
         UNCHANGED <<keys, nextKey>>,
         nextUID' = IF Creates(n, v) THEN nextUID + 1 ELSE nextUID
  PROVE  LogInv'
<1>0. /\ log \in Log /\ log' \in Log /\ nextUID \in Nat
  BY WorkerFacts, StoreFacts DEF EnvOK
<1>1. \A m \in Names : /\ 1 \in Index(m) /\ Last(m) \in Index(m)
                       /\ stored(m) = log[m][Last(m)]
                       /\ \A i \in Index(m) :
                            /\ i \in Nat /\ 1 <= i /\ i <= Last(m)
                            /\ \A h \in 1 .. i : h \in Index(m) /\ h <= i
  BY <1>0, IndexFacts
<1>2. \A m \in Names : stored(m)' = IF m = n THEN v ELSE stored(m)
  BY <1>0, StoreView
<1>3. \A m \in Names : \A i \in Index(m)' :
        \/ i \in Index(m) /\ log'[m][i] = log[m][i]
        \/ /\ m = n /\ log'[m][i] = v /\ i = Last(n)'
           /\ \A h \in Index(n) : h < i
  BY <1>0, StoreView
<1>4. \A m \in Names : \A i \in Index(m) :
        i \in Index(m)' /\ log'[m][i] = log[m][i]
  BY <1>0, StoreView
<1>5. \A m \in Names : \A i \in Index(m)' : i \in Nat /\ \A h \in 1 .. i : h \in Index(m)'
  BY <1>0, IndexFacts DEF Index
<1>6. \A m \in Names : \A i \in Index(m) : log[m][i] \in Version
  BY <1>0, LogFacts
<1>7. v # NoObject => v.uid \in Nat
  BY DEF Version, Object
<1>8. \A m \in Names : \A i \in Index(m) : Exists(m, i) => log[m][i].uid \in Nat
  BY <1>6 DEF Version, Object, Exists
<1>10. UIDsApart'
  <2>1. ASSUME NEW m \in Names, NEW i \in Index(m)', Exists(m, i)'
        PROVE  log'[m][i].uid < nextUID'
    <3>1. CASE i \in Index(m) /\ log'[m][i] = log[m][i]
      BY <3>1, <2>1, <1>0, <1>8 DEF LogInv, UIDsApart, Exists
    <3>2. CASE m = n /\ log'[m][i] = v
      <4>1. CASE Creates(n, v)
        BY <4>1, <3>2, <1>0 DEF Creates
      <4>2. CASE ~Creates(n, v)
        <5>1. Extends(n, v)
          BY <3>2, <2>1, <4>2 DEF Removes, Exists
        <5>2. stored(n).uid < nextUID
          BY <5>1, <1>1 DEF Extends, LogInv, UIDsApart, Exists
        <5> QED
          BY <5>1, <5>2, <3>2, <4>2 DEF Extends
      <4> QED
        BY <4>1, <4>2
    <3> QED
      BY <3>1, <3>2, <1>3
  <2>2. ASSUME NEW m \in Names, NEW i \in Index(m), Exists(m, i),
               v # NoObject, log[m][i].uid = v.uid
        PROVE  m = n
    <3>1. CASE Creates(n, v)
      BY <3>1, <2>2, <1>0, <1>8 DEF Creates, LogInv, UIDsApart
    <3>2. CASE Extends(n, v)
      BY <3>2, <2>2, <1>1 DEF Extends, LogInv, UIDsApart, Exists
    <3> QED
      BY <3>1, <3>2, <2>2 DEF Removes
  <2>3. ASSUME NEW l \in Names, NEW m \in Names,
               NEW i \in Index(l)', NEW j \in Index(m)',
               Exists(l, i)', Exists(m, j)', log'[l][i].uid = log'[m][j].uid
        PROVE  l = m
    <3>1. CASE i \in Index(l) /\ log'[l][i] = log[l][i]
      <4>1. CASE j \in Index(m) /\ log'[m][j] = log[m][j]
        BY <3>1, <4>1, <2>3 DEF LogInv, UIDsApart, Exists
      <4>2. CASE m = n /\ log'[m][j] = v
        BY <3>1, <4>2, <2>2, <2>3 DEF Exists
      <4> QED
        BY <4>1, <4>2, <1>3
    <3>2. CASE l = n /\ log'[l][i] = v
      <4>1. CASE j \in Index(m) /\ log'[m][j] = log[m][j]
        BY <3>2, <4>1, <2>2, <2>3 DEF Exists
      <4> QED
        BY <3>2, <4>1, <1>3
    <3> QED
      BY <3>1, <3>2, <1>3
  <2> QED
    BY <2>1, <2>3 DEF UIDsApart
<1>11. IDsApart' /\ KeyUnique'
  BY DEF LogInv, IDsApart, KeyUnique
<1>12. KeyAccounted'
  <2> SUFFICES ASSUME NEW k \in keys
               PROVE  \E m \in Names : /\ stored(m)' # NoObject
                                       /\ stored(m)'.uid = k.uid
                                       /\ stored(m)'.finalizer
    BY DEF KeyAccounted
  <2>1. PICK m \in Names : /\ stored(m) # NoObject /\ stored(m).uid = k.uid
                           /\ stored(m).finalizer
    BY DEF LogInv, KeyAccounted
  <2>2. CASE m # n
    BY <2>1, <2>2, <1>2
  <2>3. CASE m = n
    <3>1. k \in KeysOf(stored(n).uid)
      BY <2>1, <2>3 DEF KeysOf
    <3>2. Extends(n, v)
      BY <2>1, <2>3, <3>1 DEF Creates, Removes
    <3>3. v # NoObject
      BY <3>2, NoObjectAssumption DEF Extends
    <3> QED
      BY <2>1, <2>3, <3>2, <3>3, <1>2 DEF Extends
  <2> QED
    BY <2>2, <2>3
<1>13. Lifetimes'
  <2> SUFFICES ASSUME NEW m \in Names,
                      NEW h \in Index(m)', NEW i \in Index(m)', NEW j \in Index(m)',
                      h <= i, i <= j, Exists(m, h)', Exists(m, j)',
                      log'[m][h].uid = log'[m][j].uid
               PROVE  /\ Exists(m, i)' /\ log'[m][i].uid = log'[m][h].uid
                      /\ log'[m][h].deleting => log'[m][i].deleting
    BY DEF Lifetimes
  <2>0. h \in Nat /\ i \in Nat /\ j \in Nat
    BY <1>5
  <2>1. CASE j \in Index(m)
    <3>1. h \in Index(m) /\ i \in Index(m)
      <4>1. 1 <= h /\ 1 <= i
        BY DEF Index
      <4>2. h \in 1 .. j /\ i \in 1 .. j
        BY <2>0, <4>1
      <4> QED
        BY <2>1, <4>2, <1>1
    <3> QED
      BY <2>1, <3>1, <1>4 DEF LogInv, Lifetimes, Exists
  <2>2. CASE j \notin Index(m)
    <3>1. /\ m = n /\ log'[n][j] = v /\ v # NoObject
          /\ \A g \in Index(n) : g < j
      BY <2>2, <1>3 DEF Exists
    <3>2. CASE h \notin Index(n)
      <4>1. h = j /\ i = j
        BY <3>1, <3>2, <1>3, <2>0
      <4> QED
        BY <4>1
    <3>3. CASE h \in Index(n)
      <4>1. log'[n][h] = log[n][h] /\ Exists(n, h) /\ log[n][h].uid = v.uid
        BY <3>1, <3>3, <1>4 DEF Exists
      <4>2. Extends(n, v)
        BY <3>1, <3>3, <4>1, <1>8, <1>0
        DEF Creates, Removes, LogInv, UIDsApart
      <4>3. stored(n) # NoObject /\ stored(n).uid = v.uid
        BY <4>2 DEF Extends
      <4>4. CASE i \notin Index(n)
        <5>1. log'[n][i] = v
          BY <3>1, <4>4, <1>3
        <5>2. h <= Last(n) /\ Last(n) <= Last(n) /\ Last(n) \in Index(n)
          BY <3>3, <1>1
        <5>3. log[n][h].deleting => log[n][Last(n)].deleting
          BY <4>1, <4>3, <5>2, <3>3, <1>1 DEF LogInv, Lifetimes, Exists
        <5> QED
          BY <5>1, <5>3, <3>1, <4>1, <4>2, <1>1 DEF Extends, Exists
      <4>5. CASE i \in Index(n)
        <5>1. i <= Last(n) /\ Last(n) \in Index(n)
          BY <4>5, <1>1
        <5>2. Exists(n, Last(n)) /\ log[n][Last(n)].uid = log[n][h].uid
          BY <4>1, <4>3, <1>1 DEF Exists
        <5>3. /\ Exists(n, i) /\ log[n][i].uid = log[n][h].uid
              /\ log[n][h].deleting => log[n][i].deleting
          BY <5>1, <5>2, <4>1, <4>5, <3>3 DEF LogInv, Lifetimes
        <5> QED
          BY <5>3, <4>1, <4>5, <3>1, <1>4 DEF Exists
      <4> QED
        BY <4>4, <4>5
    <3> QED
      BY <3>2, <3>3
  <2> QED
    BY <2>1, <2>2
<1>14. Held'
  <2> SUFFICES ASSUME NEW m \in Names, NEW i \in Index(m)', Exists(m, i)',
                      log'[m][i].finalizer, ~log'[m][i].deleting
               PROVE  /\ stored(m)' # NoObject
                      /\ stored(m)'.uid = log'[m][i].uid
                      /\ stored(m)'.finalizer
    BY DEF Held
  <2>1. CASE m # n
    BY <2>1, <1>2, <1>3 DEF LogInv, Held, Exists
  <2>2. CASE m = n /\ i \in Index(n) /\ log'[n][i] = log[n][i]
    <3>1. /\ stored(n) # NoObject /\ stored(n).uid = log[n][i].uid
          /\ stored(n).finalizer
      BY <2>2 DEF LogInv, Held, Exists
    <3>2. Extends(n, v)
      BY <2>2, <3>1 DEF Creates, Removes, Exists
    <3> QED
      BY <2>2, <3>1, <3>2, <1>2, NoObjectAssumption DEF Extends
  <2>3. CASE m = n /\ log'[n][i] = v
    BY <2>3, <1>2 DEF Exists
  <2> QED
    BY <2>1, <2>2, <2>3, <1>3
<1>15. Recorded'
  <2>1. v # NoObject => Records(v)
    BY DEF Extends, Creates, Removes, Records
  <2>2. \A m \in Names : \A i \in Index(m) : Exists(m, i) => Records(log[m][i])
    BY DEF LogInv, Recorded
  <2>3. \A m \in Names : \A i \in Index(m)' :
          Exists(m, i)' => Records(log'[m][i])
    BY <2>1, <2>2, <1>3 DEF Exists
  <2> QED
    BY <2>3 DEF Recorded, Records
<1>16. GoneIfDeleting'
  <2> SUFFICES ASSUME NEW m \in Names, NEW i \in Index(m)', NEW h \in 1 .. i,
                      Exists(m, i)', KeyGone(log'[m][i])
               PROVE  /\ Exists(m, h)' /\ log'[m][h].uid = log'[m][i].uid
                      /\ log'[m][h].deleting
    BY DEF GoneIfDeleting, KeyGone, KeysOf
  <2>1. h \in Index(m)'
    BY <1>5
  <2>2. CASE i \in Index(m) /\ log'[m][i] = log[m][i]
    <3>1. h \in Index(m) /\ log'[m][h] = log[m][h]
      BY <2>2, <1>1, <1>4
    <3>2. Exists(m, i) /\ KeyGone(log[m][i])
      BY <2>2 DEF Exists
    <3>3. /\ Exists(m, h) /\ log[m][h].uid = log[m][i].uid
          /\ log[m][h].deleting
      BY <2>2, <3>2 DEF LogInv, GoneIfDeleting
    <3> QED
      BY <2>2, <3>1, <3>3 DEF Exists
  <2>3. CASE m = n /\ log'[n][i] = v
    <3>1. Extends(n, v)
      BY <2>3 DEF Creates, Removes, KeyGone, Exists
    <3>2. Exists(n, Last(n)) /\ KeyGone(log[n][Last(n)])
      BY <3>1, <2>3, <1>1 DEF Extends, Exists
    <3>3. \A g \in 1 .. Last(n) :
            /\ Exists(n, g) /\ log[n][g].uid = v.uid /\ log[n][g].deleting
      BY <3>1, <3>2, <1>1 DEF LogInv, GoneIfDeleting, Extends
    <3>4. v.deleting
      BY <3>1, <3>3, <1>1 DEF Extends
    <3>5. CASE h \in Index(n) /\ log'[n][h] = log[n][h]
      <4>1. h \in 1 .. Last(n)
        BY <3>5, <1>1
      <4> QED
        BY <4>1, <3>3, <3>5, <2>3 DEF Exists
    <3> QED
      BY <3>4, <3>5, <2>1, <2>3, <1>3 DEF Exists
  <2> QED
    BY <2>2, <2>3, <1>3 DEF Exists
<1> QED
  BY <1>10, <1>11, <1>12, <1>13, <1>14, <1>15, <1>16 DEF LogInv

\* Someone else's write leaves what the worker relies on.
LEMMA WriteWorker ==
  ASSUME TypeInv, LogInv, WorkerInv, NEW n \in Names, NEW v \in Version,
         ObjectWritten(n, v),
         Extends(n, v) \/ Creates(n, v) \/ (Removes(n, v) /\ ~stored(n).finalizer),
         UNCHANGED <<keys, nextKey>>,
         nextUID' = IF Creates(n, v) THEN nextUID + 1 ELSE nextUID
  PROVE  WorkerInv'
<1>0. /\ log \in Log /\ log' \in Log /\ nextUID \in Nat
      /\ job \in Job
      /\ job.pc # "idle" => job.name \in Names
      /\ Holding => job.obj \in Object
  BY WorkerFacts, StoreFacts DEF EnvOK, ObjectWritten, TypeInv, JobOK, Working
<1>1. \A m \in Names : /\ 1 \in Index(m) /\ Last(m) \in Index(m)
                       /\ stored(m) = log[m][Last(m)]
                       /\ \A i \in Index(m) :
                            /\ i \in Nat /\ 1 <= i /\ i <= Last(m)
                            /\ \A h \in 1 .. i : h \in Index(m) /\ h <= i
  BY <1>0, IndexFacts
<1>2. \A m \in Names : stored(m)' = IF m = n THEN v ELSE stored(m)
  BY <1>0, StoreView DEF ObjectWritten
<1>3. \A m \in Names : \A i \in Index(m)' :
        \/ i \in Index(m) /\ log'[m][i] = log[m][i]
        \/ /\ m = n /\ log'[m][i] = v /\ i = Last(n)'
           /\ \A h \in Index(n) : h < i
  BY <1>0, StoreView DEF ObjectWritten
<1>4. \A m \in Names : \A i \in Index(m) :
        i \in Index(m)' /\ log'[m][i] = log[m][i]
  BY <1>0, StoreView DEF ObjectWritten
<1>5. \A m \in Names : \A i \in Index(m)' : \A h \in 1 .. i : h \in Index(m)'
  BY <1>0, IndexFacts DEF Index
<1>6. /\ \A f \in {"pc", "name", "obj", "ext"} : job'[f] = job[f]
      /\ job'.current <=> job.current /\ n # job.name
  BY <1>0 DEF ObjectWritten, Job
<1>7. /\ job'.pc = job.pc /\ job'.name = job.name /\ job'.obj = job.obj
      /\ job'.ext = job.ext
  BY <1>6
<1>8. Holding => job.obj.uid \in Nat
  BY <1>0 DEF Object
<1>9. PICK r : r = job.name
  OBVIOUS
<1>10. Owning'
  <2> SUFFICES ASSUME Holding
               PROVE  /\ job.obj.uid < nextUID'
                      /\ \A m \in Names : \A i \in Index(m)' :
                           Exists(m, i)' /\ log'[m][i].uid = job.obj.uid
                             => m = job.name
                      /\ Records(job.obj)
    BY <1>7 DEF Owning, Holding, Records
  <2>1. job.obj.uid < nextUID' /\ Records(job.obj)
    BY <1>0, <1>8 DEF WorkerInv, Owning
  <2>2. ASSUME NEW m \in Names, NEW i \in Index(m)', Exists(m, i)',
               log'[m][i].uid = job.obj.uid
        PROVE  m = job.name
    <3>1. CASE i \in Index(m) /\ log'[m][i] = log[m][i]
      BY <2>2, <3>1 DEF WorkerInv, Owning, Exists
    <3>2. CASE m = n /\ log'[m][i] = v
      <4>1. Extends(n, v)
        BY <2>2, <3>2, <1>0, <1>8
        DEF Creates, Removes, Exists, WorkerInv, Owning
      <4> QED
        BY <2>2, <3>2, <4>1, <1>1 DEF Extends, WorkerInv, Owning, Exists
    <3> QED
      BY <3>1, <3>2, <1>3
  <2> QED
    BY <2>1, <2>2
<1>11. Ensuring'
  <2>1. ASSUME job.pc \in EnsurePath
        PROVE  /\ stored(r)' # NoObject
               /\ stored(r)'.uid = job.obj.uid
               /\ stored(r)'.finalizer
               /\ ~KeyGone(job.obj)
    <3>1. r \in Names
      BY <2>1, <1>0, <1>9 DEF EnsurePath
    <3> QED
      BY <2>1, <3>1, <1>2, NoObjectAssumption, <1>9
      DEF WorkerInv, Ensuring, Extends, Creates, Removes
  <2>2. ASSUME job.pc \in EnsurePath, NEW i \in Index(r)',
               Exists(r, i)', log'[r][i].uid = job.obj.uid
        PROVE  ~KeyGone(log'[r][i])
    <3>1. r \in Names
      BY <2>2, <1>0, <1>9 DEF EnsurePath
    <3>2. CASE i \in Index(r) /\ log'[r][i] = log[r][i]
      BY <2>2, <3>2, <1>9 DEF WorkerInv, Ensuring, Exists
    <3>3. CASE r = n /\ log'[r][i] = v
      BY <2>2, <3>1, <3>3, <1>1, <1>9
      DEF WorkerInv, Ensuring, Extends, Creates, Removes, Exists
    <3> QED
      BY <3>1, <3>2, <3>3, <1>3
  <2>3. ASSUME job.pc = "AddFinalizer", NEW i \in Index(r)',
               Exists(r, i)'
        PROVE  ~KeyGone(log'[r][i])
    <3>1. r \in Names
      BY <2>3, <1>0, <1>9
    <3>2. CASE i \in Index(r) /\ log'[r][i] = log[r][i]
      BY <2>3, <3>2, <1>9 DEF WorkerInv, Ensuring, Exists
    <3>3. CASE r = n /\ log'[r][i] = v
      BY <2>3, <3>1, <3>3, <1>1, <1>9
      DEF WorkerInv, Ensuring, Extends, Creates, Removes, Exists, KeyGone
    <3> QED
      BY <3>1, <3>2, <3>3, <1>3
  <2>4. /\ job.pc = "GetKey" => job.obj.status.id # NoID
        /\ job.pc = "CreateKey" => KeysOf(job.obj.uid) = {}
    BY <1>9 DEF WorkerInv, Ensuring
  <2> QED
    BY <2>1, <2>2, <2>3, <2>4, <1>7, <1>9 DEF Ensuring, KeyGone, KeysOf
<1>12. Deleting'
  <2>1. ASSUME job.pc \in DeletePath, NEW i \in Index(r)',
               Exists(r, i)', log'[r][i].uid = job.obj.uid,
               NEW h \in 1 .. i
        PROVE  /\ Exists(r, h)' /\ log'[r][h].uid = job.obj.uid
               /\ log'[r][h].deleting
    <3>1. r \in Names /\ Holding
      BY <2>1, <1>0, <1>9 DEF DeletePath, Holding
    <3>2. h \in Index(r)'
      BY <3>1, <1>5
    <3>3. CASE i \in Index(r) /\ log'[r][i] = log[r][i]
      <4>1. /\ Exists(r, h) /\ log[r][h].uid = job.obj.uid
            /\ log[r][h].deleting
        BY <2>1, <3>3, <1>9 DEF WorkerInv, Deleting, Exists
      <4>2. h \in Index(r)
        BY <3>1, <3>3, <1>1
      <4> QED
        BY <3>1, <4>1, <4>2, <1>4 DEF Exists
    <3>4. CASE r = n /\ log'[n][i] = v
      <4>1. Extends(n, v)
        BY <2>1, <3>1, <3>4, <1>0, <1>8, <1>9
        DEF Creates, Removes, Exists, WorkerInv, Owning
      <4>2. \A g \in 1 .. Last(n) :
              /\ Exists(n, g) /\ log[n][g].uid = job.obj.uid
              /\ log[n][g].deleting
        BY <2>1, <3>1, <3>4, <4>1, <1>1, <1>9
        DEF Extends, WorkerInv, Deleting, Exists
      <4>3. v.deleting
        BY <4>1, <4>2, <1>1 DEF Extends
      <4>4. CASE h \in Index(n) /\ log'[n][h] = log[n][h]
        <5>1. h \in 1 .. Last(n)
          BY <4>4, <1>1
        <5> QED
          BY <5>1, <4>2, <4>4, <3>4 DEF Exists
      <4> QED
        BY <2>1, <4>3, <4>4, <3>2, <3>4, <1>3 DEF Exists
    <3> QED
      BY <3>1, <3>3, <3>4, <1>3
  <2>2. job.pc \in DeletePath /\ job'.current =>
          stored(r)' # NoObject /\ stored(r)'.uid = job.obj.uid
    BY <1>0, <1>2, <1>6, <1>9 DEF WorkerInv, Deleting, DeletePath
  <2>3. /\ job.pc = "DeleteKey" =>
             \A k \in keys : k.uid = job.obj.uid <=> k.id = job.ext
        /\ job.pc = "RemoveFinalizer" => KeysOf(job.obj.uid) = {}
    BY <1>9 DEF WorkerInv, Deleting
  <2> QED
    BY <2>1, <2>2, <2>3, <1>7, <1>9 DEF Deleting, KeysOf
<1> QED
  BY <1>10, <1>11, <1>12 DEF WorkerInv

LEMMA SameLog ==
  ASSUME LogInv, UNCHANGED <<log, keys, nextKey, nextUID>>
  PROVE  LogInv'
<1>1. UIDsApart' /\ IDsApart' /\ KeyUnique' /\ KeyAccounted'
  BY DEF LogInv, UIDsApart, IDsApart, KeyUnique, KeyAccounted, Exists, Index,
         stored
<1>2. Lifetimes' /\ Held' /\ Recorded'
  BY DEF LogInv, Lifetimes, Held, Recorded, Records, Exists, Index, stored
<1>3. GoneIfDeleting'
  BY DEF LogInv, GoneIfDeleting, KeyGone, KeysOf, Exists, Index
<1> QED
  BY <1>1, <1>2, <1>3 DEF LogInv

LEMMA IdleWorker ==
  ASSUME job'.pc \in {"idle", "Get"}
  PROVE  WorkerInv'
BY DEF WorkerInv, Owning, Ensuring, Deleting, Holding, EnsurePath, DeletePath

LEMMA SameWorker ==
  ASSUME WorkerInv, UNCHANGED <<log, keys, nextKey, nextUID>>,
         job'.pc = job.pc, job'.name = job.name, job'.obj = job.obj,
         job'.ext = job.ext, job'.current = job.current
  PROVE  WorkerInv'
<1>1. Owning'
  BY DEF WorkerInv, Owning, Holding, Records, Exists, Index
<1>2. Ensuring'
  BY DEF WorkerInv, Ensuring, KeyGone, KeysOf, Exists, Index, stored
<1>3. Deleting'
  BY DEF WorkerInv, Deleting, KeysOf, Exists, Index, stored
<1> QED
  BY <1>1, <1>2, <1>3 DEF WorkerInv

LEMMA WorldKeeps ==
  ASSUME TypeInv, LogInv, WorkerInv, "deleteKey" \notin Tampering, World
  PROVE  LogInv' /\ WorkerInv'
<1>0. /\ log \in Log /\ log' \in Log /\ EnvOK /\ job \in Job
      /\ \A n \in Names : stored(n) \in Version
      /\ NoObject \in Version
  BY WorkerFacts, WorldType, TypeParts, LogFacts
  DEF TypeInv, JobOK, Version, TypeOK, Log
<1>1. ASSUME NEW n \in Names, Dequeue(n)
      PROVE  LogInv' /\ WorkerInv'
  BY <1>1, SameLog, IdleWorker DEF Dequeue, garage, env, Idle
<1>2. ASSUME NEW n \in Names, Informer(n)
      PROVE  LogInv' /\ WorkerInv'
  <2>1. PICK d \in [Names -> Nat] : Dropped(d)
    BY <1>0, <1>2, DeliverView DEF Informer
  <2>2. UNCHANGED <<keys, nextKey, nextUID, job>>
    BY <1>2 DEF Informer, garage, env
  <2> QED
    BY <1>0, <2>1, <2>2, DropLog, DropWorker
<1>3. ASSUME NEW n \in Names, NEW v \in Version, ObjectWritten(n, v),
             \/ Extends(n, v) \/ Creates(n, v)
             \/ Removes(n, v) /\ ~stored(n).finalizer,
             UNCHANGED <<keys, nextKey>>,
             nextUID' = IF Creates(n, v) THEN nextUID + 1 ELSE nextUID
      PROVE  LogInv' /\ WorkerInv'
  <2>1. Store(n, v)
    BY <1>3 DEF ObjectWritten
  <2> QED
    BY <1>3, <2>1, WriteLog, WriteWorker
<1>4. ASSUME NEW n \in Names, NEW s \in SecretNames, UserCreates(n, s)
      PROVE  LogInv' /\ WorkerInv'
  <2> DEFINE v == [uid |-> nextUID, gen |-> 1, secretName |-> s,
                   deleting |-> FALSE, finalizer |-> FALSE, status |-> NewStatus]
  <2>1. v \in Object
    BY <1>0 DEF EnvOK, Object, NewStatus, Status, NoID, NoName
  <2>2. Creates(n, v)
    BY <1>4, <2>1 DEF Creates, UserCreates, NewStatus
  <2> QED
    BY <1>3, <1>4, <2>1, <2>2 DEF UserCreates, garage, Version
<1>5. ASSUME NEW n \in Names, stored(n) # NoObject, NEW v \in Object,
             v.uid = stored(n).uid, v.finalizer = stored(n).finalizer,
             stored(n).deleting => v.deleting, v.status = stored(n).status
      PROVE  Extends(n, v) /\ ~Creates(n, v)
  <2>1. Records(stored(n))
    BY <1>0, <1>5, IndexFacts DEF LogInv, Recorded, Exists
  <2> QED
    BY <1>5, <2>1 DEF Extends, Creates, Records, KeyGone
<1>6. ASSUME NEW n \in Names, NEW s \in SecretNames, UserEdits(n, s)
      PROVE  LogInv' /\ WorkerInv'
  <2> DEFINE v == [stored(n) EXCEPT !.secretName = s, !.gen = @ + 1]
  <2>1. stored(n) \in Object /\ v \in Object
    BY <1>6, <1>0, ObjectChanged DEF UserEdits, Version
  <2>2. /\ v.uid = stored(n).uid /\ v.finalizer = stored(n).finalizer
        /\ v.deleting = stored(n).deleting /\ v.status = stored(n).status
    BY <2>1 DEF Object
  <2>3. Extends(n, v) /\ ~Creates(n, v)
    BY <1>5, <1>6, <2>1, <2>2 DEF UserEdits
  <2> QED
    BY <1>3, <1>6, <2>1, <2>3 DEF UserEdits, garage, env, Version
<1>7. ASSUME NEW n \in Names, UserDeletes(n)
      PROVE  LogInv' /\ WorkerInv'
  <2>1. stored(n) \in Object
    BY <1>7, <1>0 DEF UserDeletes, Version
  <2>2. CASE stored(n).finalizer
    <3> DEFINE v == [stored(n) EXCEPT !.deleting = TRUE, !.gen = @ + 1]
    <3>1. v \in Object
      BY <2>1, ObjectChanged
    <3>2. /\ v.uid = stored(n).uid /\ v.finalizer = stored(n).finalizer
          /\ v.deleting /\ v.status = stored(n).status
      BY <2>1 DEF Object
    <3>3. Extends(n, v) /\ ~Creates(n, v)
      BY <1>5, <1>7, <3>1, <3>2 DEF UserDeletes
    <3> QED
      BY <1>3, <1>7, <2>2, <3>1, <3>3 DEF UserDeletes, garage, env, Version
  <2>3. CASE ~stored(n).finalizer
    <3>1. Removes(n, NoObject)
      BY <2>1, <2>3 DEF Removes, LogInv, Held, Exists
    <3>2. ~Creates(n, NoObject)
      BY NoObjectAssumption DEF Creates
    <3> QED
      BY <1>0, <1>3, <1>7, <2>3, <3>1, <3>2 DEF UserDeletes, garage, env
  <2> QED
    BY <2>2, <2>3
<1>8. ASSUME UNCHANGED <<log, keys, nextKey, nextUID>>,
             job' = job \/ \E b : job' = [job EXCEPT !.secCurrent = b]
      PROVE  LogInv' /\ WorkerInv'
  <2>1. /\ job'.pc = job.pc /\ job'.name = job.name /\ job'.obj = job.obj
        /\ job'.ext = job.ext /\ job'.current = job.current
    BY <1>0, <1>8 DEF Job
  <2> QED
    BY <1>8, <2>1, SameLog, SameWorker
<1>9. CASE Tamper
  <2>1. UNCHANGED <<log, keys, nextKey, nextUID>>
    BY <1>9 DEF Tamper
  <2>2. job' = job \/ \E b : job' = [job EXCEPT !.secCurrent = b]
    BY <1>9 DEF Tamper, SecretChanged
  <2> QED
    BY <1>8, <2>1, <2>2
<1>10. CASE Crash
  <2>1. PICK d \in [Names -> Nat] : Dropped(d)
    BY <1>0, <1>10, RelistView DEF Crash
  <2>2. UNCHANGED <<keys, nextKey, nextUID>> /\ job'.pc = "idle"
    BY <1>10 DEF Crash, garage, Idle
  <2> QED
    BY <1>0, <2>1, <2>2, DropLog, IdleWorker
<1>11. ASSUME NEW s \in SecretNames, CollectGarbage(s)
       PROVE  LogInv' /\ WorkerInv'
  BY <1>8, <1>11 DEF CollectGarbage, SecretChanged, garage, env
<1> QED
  BY <1>1, <1>2, <1>4, <1>6, <1>7, <1>9, <1>10, <1>11 DEF World, User

-----------------------------------------------------------------------------
(* The worker's steps.                                                      *)

\* The worker goes on ensuring the same AccessKey.
LEMMA StayEnsuring ==
  ASSUME WorkerInv, job.pc \in EnsurePath,
         UNCHANGED <<log, keys, nextKey, nextUID>>,
         job'.name = job.name, job'.obj.uid = job.obj.uid,
         job'.pc \in EnsurePath \ {"GetKey"},
         Records(job'.obj), ~KeyGone(job'.obj),
         job'.pc = "CreateKey" => KeysOf(job'.obj.uid) = {}
  PROVE  WorkerInv'
<1>1. Holding /\ Holding'
  BY DEF Holding
<1>2. Owning'
  BY <1>1 DEF WorkerInv, Owning, Records, Exists, Index
<1>3. Ensuring'
  BY DEF WorkerInv, Ensuring, KeyGone, KeysOf, Exists, Index, stored,
         EnsurePath
<1>4. Deleting'
  BY DEF Deleting, DeletePath, EnsurePath
<1> QED
  BY <1>2, <1>3, <1>4 DEF WorkerInv

\* What the helpers leave of the worker's version.
LEMMA HelperFacts ==
  ASSUME TypeInv, job.pc \in EnsurePath
  PROVE  /\ KeyFailed => /\ job'.pc = "UpdateStatus" /\ job'.name = job.name
                         /\ job'.obj.uid = job.obj.uid
                         /\ job'.obj.status.id = job.obj.status.id
         /\ \A id \in Nat : KeyFound(id) =>
              /\ job'.pc = "GetSecret" /\ job'.name = job.name
              /\ job'.obj.uid = job.obj.uid /\ job'.obj.status.id = id
         /\ \A r : SecretNotReady(r) =>
              /\ job'.pc = "UpdateStatus" /\ job'.name = job.name
              /\ job'.obj.uid = job.obj.uid
              /\ job'.obj.status.id = job.obj.status.id
         /\ SecretWritten =>
              /\ job'.pc \in {"UpdateStatus", "DeleteOldSecret"}
              /\ job'.name = job.name
              /\ job'.obj.uid = job.obj.uid
              /\ job'.obj.status.id = job.obj.status.id
         /\ \A p : Goto(p) => job'.pc = p /\ job'.name = job.name /\ job'.obj = job.obj
<1>1. job \in Job /\ job.obj \in Object /\ job.obj.status \in Status
  BY WorkerFacts DEF JobOK
<1>2. KeyFailed => /\ job'.pc = "UpdateStatus" /\ job'.name = job.name
                   /\ job'.obj.uid = job.obj.uid
                   /\ job'.obj.status.id = job.obj.status.id
  BY <1>1 DEF KeyFailed, Job, Object, Status
<1>3. \A id \in Nat : KeyFound(id) =>
        /\ job'.pc = "GetSecret" /\ job'.name = job.name
        /\ job'.obj.uid = job.obj.uid /\ job'.obj.status.id = id
  <2> SUFFICES ASSUME NEW id \in Nat, KeyFound(id)
               PROVE  /\ job'.pc = "GetSecret" /\ job'.name = job.name
                      /\ job'.obj.uid = job.obj.uid
                      /\ job'.obj.status.id = id
    OBVIOUS
  <2> DEFINE o == [job.obj EXCEPT !.status.id = id, !.status.key = "True"]
  <2>1. o.uid = job.obj.uid /\ o.status.id = id
    BY <1>1 DEF Object, Status
  <2>2. job' = [job EXCEPT !.pc = "GetSecret", !.obj = o]
    BY DEF KeyFound
  <2> HIDE DEF o
  <2> QED
    BY <1>1, <2>1, <2>2 DEF Job
<1>4. \A r : SecretNotReady(r) =>
        /\ job'.pc = "UpdateStatus" /\ job'.name = job.name
        /\ job'.obj.uid = job.obj.uid
        /\ job'.obj.status.id = job.obj.status.id
  BY <1>1 DEF SecretNotReady, Job, Object, Status
<1>5. /\ SecretDone(job.obj).uid = job.obj.uid
      /\ SecretDone(job.obj).status.id = job.obj.status.id
  BY <1>1 DEF SecretDone, Object, Status
<1>6. SecretWritten => /\ job'.pc \in {"UpdateStatus", "DeleteOldSecret"}
                       /\ job'.name = job.name
                       /\ job'.obj.uid = job.obj.uid
                       /\ job'.obj.status.id = job.obj.status.id
  BY <1>1, <1>5 DEF SecretWritten, Job
<1>7. \A p : Goto(p) => job'.pc = p /\ job'.name = job.name /\ job'.obj = job.obj
  BY <1>1 DEF Goto, Job
<1> QED
  BY <1>2, <1>3, <1>4, <1>6, <1>7

\* The steps that only read, or only write Secrets.
LEMMA EnsureKeeps ==
  ASSUME TypeInv, LogInv, WorkerInv,
         \/ GetKey \/ LookupKey \/ GetSecret \/ ReadSecret \/ WriteSecret
         \/ DeleteOldSecret
  PROVE  LogInv' /\ WorkerInv'
<1>0. /\ job \in Job /\ job.obj \in Object /\ job.obj.status \in Status
      /\ job.pc \in EnsurePath /\ Holding /\ EnvOK
  BY WorkerFacts
  DEF GetKey, LookupKey, GetSecret, ReadSecret, WriteSecret, DeleteOldSecret,
      At, EnsurePath, JobOK
<1>1. UNCHANGED <<log, keys, nextKey, nextUID>>
  BY DEF GetKey, LookupKey, GetSecret, ReadSecret, WriteSecret,
         DeleteOldSecret, garage
<1>2. LogInv'
  BY <1>1, SameLog
<1>3. Records(job.obj) /\ ~KeyGone(job.obj)
  BY <1>0 DEF WorkerInv, Owning, Ensuring
<1>4. ASSUME job'.name = job.name, job'.obj.uid = job.obj.uid,
             job'.obj.status.id = job.obj.status.id,
             job'.pc \in EnsurePath \ {"GetKey", "CreateKey"}
      PROVE  WorkerInv'
  <2>1. Records(job'.obj) /\ ~KeyGone(job'.obj)
    BY <1>3, <1>4 DEF Records, KeyGone
  <2> QED
    BY <1>0, <1>1, <1>4, <2>1, StayEnsuring
<1>5. CASE GetKey
  <2>1. ASSUME NEW k \in keys, k.id = job.obj.status.id,
               KeyFound(job.obj.status.id)
        PROVE  WorkerInv'
    BY <1>0, <1>4, <2>1, HelperFacts DEF EnsurePath, Status
  <2>2. CASE \A k \in keys : k.id # job.obj.status.id
    <3>1. job.obj.status.id # NoID
      BY <1>5 DEF GetKey, At, WorkerInv, Ensuring
    <3>2. KeysOf(job.obj.uid) = {}
      BY <1>3, <2>2, <3>1 DEF Records, KeysOf
    <3> QED
      BY <1>3, <3>1, <3>2 DEF KeyGone
  <2>3. CASE KeyFailed
    BY <1>0, <1>2, <1>4, <2>3, HelperFacts DEF EnsurePath
  <2> QED
    BY <1>2, <1>5, <2>1, <2>2, <2>3 DEF GetKey
<1>6. CASE LookupKey
  <2>1. ASSUME NEW k \in keys, KeysOf(job.obj.uid) = {k}, KeyFound(k.id)
        PROVE  WorkerInv'
    <3>1. k.id \in Nat /\ k.uid = job.obj.uid
      BY <1>0, <2>1 DEF EnvOK, Key, KeysOf
    <3>2. /\ job'.pc = "GetSecret" /\ job'.name = job.name
          /\ job'.obj.uid = job.obj.uid /\ job'.obj.status.id = k.id
      BY <1>0, <2>1, <3>1, HelperFacts
    <3>3. Records(job'.obj)
      BY <2>1, <3>1, <3>2 DEF Records, KeysOf, LogInv, IDsApart
    <3>4. ~KeyGone(job'.obj)
      BY <2>1, <3>2 DEF KeyGone
    <3> QED
      BY <1>0, <1>1, <3>2, <3>3, <3>4, StayEnsuring DEF EnsurePath
  <2>2. CASE KeysOf(job.obj.uid) = {} /\ Goto("CreateKey")
    <3>1. /\ job'.pc = "CreateKey" /\ job'.name = job.name
          /\ job'.obj = job.obj
      BY <1>0, <2>2, HelperFacts
    <3> QED
      BY <1>0, <1>1, <1>2, <1>3, <2>2, <3>1, StayEnsuring DEF EnsurePath
  <2>3. CASE KeyFailed
    BY <1>0, <1>2, <1>4, <2>3, HelperFacts DEF EnsurePath
  <2> QED
    BY <1>2, <1>6, <2>1, <2>2, <2>3 DEF LookupKey
<1>7. CASE GetSecret
  BY <1>0, <1>2, <1>4, <1>7, HelperFacts DEF GetSecret, EnsurePath
<1>8. CASE ReadSecret
  <2>1. ASSUME NEW s, job' = [job EXCEPT !.pc = "WriteSecret", !.sec = s,
                                         !.secCurrent = TRUE]
        PROVE  WorkerInv'
    BY <1>0, <1>4, <2>1 DEF Job, EnsurePath
  <2> QED
    BY <1>0, <1>2, <1>4, <1>8, <2>1, HelperFacts DEF ReadSecret, EnsurePath
<1>9. CASE WriteSecret
  BY <1>0, <1>2, <1>4, <1>9, HelperFacts DEF WriteSecret, EnsurePath
<1>10. CASE DeleteOldSecret
  <2>1. ASSUME job' = [job EXCEPT !.pc = "UpdateStatus", !.obj = SecretDone(job.obj)]
        PROVE  WorkerInv'
    BY <1>0, <1>4, <2>1 DEF Job, EnsurePath, SecretDone, Object, Status
  <2> QED
    BY <1>0, <1>2, <1>4, <1>10, <2>1, HelperFacts
    DEF DeleteOldSecret, EnsurePath
<1> QED
  BY <1>5, <1>6, <1>7, <1>8, <1>9, <1>10

\* Garage gets a key for an AccessKey that has none.
LEMMA CreateKeeps ==
  ASSUME TypeInv, LogInv, WorkerInv, CreateKey
  PROVE  LogInv' /\ WorkerInv'
<1>0. /\ job \in Job /\ job.obj \in Object /\ job.obj.status \in Status
      /\ job.name \in Names /\ job.pc = "CreateKey"
      /\ job.pc \in EnsurePath /\ Holding /\ EnvOK /\ log \in Log
  BY WorkerFacts DEF CreateKey, At, EnsurePath, JobOK
<1>1. UNCHANGED <<log, nextUID>> /\ nextKey \in Nat
  BY <1>0 DEF CreateKey, EnvOK
<1>2. /\ Records(job.obj) /\ ~KeyGone(job.obj)
      /\ KeysOf(job.obj.uid) = {} /\ job.obj.status.id = NoID
  BY <1>0 DEF WorkerInv, Owning, Ensuring, KeyGone
<1>3. CASE UNCHANGED garage /\ KeyFailed
  <2>1. UNCHANGED <<keys, nextKey>>
    BY <1>3 DEF garage
  <2>2. LogInv'
    BY <1>1, <2>1, SameLog
  <2>3. /\ job'.pc = "UpdateStatus" /\ job'.name = job.name
        /\ job'.obj.uid = job.obj.uid
        /\ job'.obj.status.id = job.obj.status.id
    BY <1>0, <1>3, HelperFacts
  <2>4. Records(job'.obj) /\ ~KeyGone(job'.obj)
    BY <1>2, <2>3 DEF Records, KeyGone
  <2> QED
    BY <1>0, <1>1, <2>1, <2>2, <2>3, <2>4, StayEnsuring DEF EnsurePath
<1>4. CASE /\ keys' = keys \cup {[id |-> nextKey, uid |-> job.obj.uid]}
           /\ nextKey' = nextKey + 1
           /\ KeyFound(nextKey) \/ KeyFailed
  <2> DEFINE new == [id |-> nextKey, uid |-> job.obj.uid]
  <2>1. /\ job'.name = job.name /\ job'.obj.uid = job.obj.uid
        /\ \/ job'.pc = "GetSecret" /\ job'.obj.status.id = nextKey
           \/ job'.pc = "UpdateStatus" /\ job'.obj.status.id = NoID
    BY <1>0, <1>1, <1>2, <1>4, HelperFacts
  <2>2. /\ \A k \in keys' : k \in keys \/ (k.id = nextKey /\ k.uid = job.obj.uid)
        /\ new \in keys' /\ keys \subseteq keys'
    BY <1>4
  <2>3. \A k \in keys : /\ k.id < nextKey /\ k.id \in Nat /\ k.id # NoID
                        /\ k.uid # job.obj.uid
    BY <1>0, <1>2 DEF LogInv, IDsApart, KeysOf, EnvOK, Key
  <2>4. IDsApart' /\ KeyUnique'
    <3>1. nextKey # NoID
      BY <1>0 DEF EnvOK, NoID
    <3>2. \A k \in keys' : k.id # NoID /\ k.id < nextKey'
      BY <1>1, <1>4, <2>2, <2>3, <3>1
    <3>3. \A k, l \in keys : (k.id = l.id => k = l) /\ (k.uid = l.uid => k = l)
      BY DEF LogInv, IDsApart, KeyUnique
    <3>4. \A k \in keys : k.id # nextKey /\ k.uid # job.obj.uid
      BY <1>1, <2>3
    <3>5. \A k, l \in keys' : (k.id = l.id => k = l) /\ (k.uid = l.uid => k = l)
      BY <1>4, <3>3, <3>4
    <3> QED
      BY <3>2, <3>5 DEF IDsApart, KeyUnique
  <2>5. KeyAccounted'
    <3>1. \E n \in Names : /\ stored(n) # NoObject
                           /\ stored(n).uid = job.obj.uid
                           /\ stored(n).finalizer
      BY <1>0 DEF WorkerInv, Ensuring
    <3>2. \A n \in Names : stored(n)' = stored(n)
      BY <1>1 DEF stored
    <3> QED
      BY <2>2, <3>1, <3>2 DEF LogInv, KeyAccounted
  <2>6. UIDsApart' /\ Lifetimes' /\ Held'
    <3>1. UIDsApart'
      BY <1>1 DEF LogInv, UIDsApart, Exists, Index
    <3>2. Lifetimes'
      BY <1>1 DEF LogInv, Lifetimes, Exists, Index
    <3>3. Held'
      BY <1>1 DEF LogInv, Held, Exists, Index, stored
    <3> QED
      BY <3>1, <3>2, <3>3
  <2>7. ASSUME NEW o \in Object, Records(o), o.status.id # NoID,
               o.uid # job.obj.uid
        PROVE  Records(o)'
    <3>1. o.status.id < nextKey /\ o.status.id \in Nat
      BY <2>7 DEF Records, Object, Status
    <3>2. o.status.id < nextKey' /\ o.status.id # nextKey
      BY <3>1, <1>1, <1>4
    <3> QED
      BY <2>2, <2>7, <3>2 DEF Records
  <2>8. ASSUME NEW n \in Names, NEW i \in Index(n), Exists(n, i)
        PROVE  log[n][i] \in Object /\ Records(log[n][i])'
    <3>1. log[n][i] \in Object
      BY <1>0, <2>8, LogFacts DEF Version, Exists
    <3>2. Records(log[n][i])
      BY <2>8 DEF LogInv, Recorded
    <3>3. CASE log[n][i].uid = job.obj.uid
      <4>1. n = job.name
        BY <1>0, <2>8, <3>3 DEF WorkerInv, Owning
      <4>2. ~KeyGone(log[n][i])
        BY <1>0, <2>8, <3>3, <4>1 DEF WorkerInv, Ensuring
      <4>3. log[n][i].status.id = NoID
        BY <1>2, <3>3, <4>2 DEF KeyGone
      <4> QED
        BY <1>1, <3>1, <4>3 DEF Records
    <3>4. CASE log[n][i].status.id = NoID
      BY <1>1, <3>1, <3>4 DEF Records
    <3> QED
      BY <1>1, <2>7, <3>1, <3>2, <3>3, <3>4 DEF Records
  <2>9. Recorded'
    BY <1>1, <2>8 DEF Recorded, Exists, Index
  <2>10. GoneIfDeleting'
    <3>1. \A n \in Names : \A i \in Index(n) :
            KeyGone(log[n][i])' => KeyGone(log[n][i])
      BY <1>1, <2>2 DEF KeyGone, KeysOf
    <3> QED
      BY <1>1, <3>1 DEF LogInv, GoneIfDeleting, Exists, Index
  <2>11. Owning'
    <3>1. Records(job.obj)'
      BY <1>1, <1>4, <2>1, <2>2, <2>3 DEF Records, NoID
    <3> QED
      BY <1>0, <1>1, <2>1, <3>1 DEF WorkerInv, Owning, Exists, Index
  <2>12. Ensuring'
    <3>1. \A o : o.uid = job.obj.uid => \E k \in keys' : k.uid = o.uid
      BY <2>2
    <3>2. ~KeyGone(job.obj)'
      BY <2>1, <3>1 DEF KeyGone, KeysOf
    <3>3. \A i \in Index(job.name) : log[job.name][i].uid = job.obj.uid =>
            ~KeyGone(log[job.name][i])'
      BY <1>1, <2>1, <2>2 DEF KeyGone, KeysOf
    <3> QED
      BY <1>0, <1>1, <2>1, <3>2, <3>3
      DEF WorkerInv, Ensuring, Exists, Index, stored, EnsurePath
  <2>13. Deleting'
    BY <2>1 DEF Deleting, DeletePath
  <2> QED
    BY <2>4, <2>5, <2>6, <2>9, <2>10, <2>11, <2>12, <2>13
    DEF LogInv, WorkerInv
<1> QED
  BY <1>3, <1>4 DEF CreateKey

LEMMA StepLog ==
  ASSUME TypeInv, Step
  PROVE  log' \in Log
<1>1. TypeInv'
  BY StepType
<1> QED
  BY <1>1 DEF TypeInv, TypeOK, Log, Version

\* A status is written on the version that has the worker's UID.
LEMMA UpdateStatusKeeps ==
  ASSUME TypeInv, LogInv, WorkerInv, UpdateStatus
  PROVE  LogInv' /\ WorkerInv'
<1>0. /\ job \in Job /\ job.obj \in Object /\ job.obj.status \in Status
      /\ job.name \in Names /\ job.pc \in EnsurePath /\ Holding
      /\ log \in Log /\ stored(job.name) \in Version
  BY WorkerFacts, LogFacts DEF UpdateStatus, At, EnsurePath, JobOK
<1>1. UNCHANGED <<keys, nextKey, nextUID>>
  BY DEF UpdateStatus, garage
<1>2. WorkerInv'
  BY IdleWorker DEF UpdateStatus, Return, Idle
<1>3. CASE UNCHANGED log
  BY <1>1, <1>2, <1>3, SameLog
<1> DEFINE st == UpdateAccessKeyCondition(job.obj)
           v  == [stored(job.name) EXCEPT !.status = st]
<1>4. CASE Store(job.name, v)
  <2>1. /\ stored(job.name) # NoObject
        /\ stored(job.name).uid = job.obj.uid
        /\ Records(job.obj) /\ ~KeyGone(job.obj)
    BY <1>0 DEF WorkerInv, Owning, Ensuring
  <2>2. st \in Status /\ st.id = job.obj.status.id
    BY <1>0 DEF UpdateAccessKeyCondition, Object, Status
  <2>3. /\ v \in Object /\ v.uid = job.obj.uid
        /\ v.status.id = job.obj.status.id
        /\ v.deleting = stored(job.name).deleting
        /\ v.finalizer = stored(job.name).finalizer
    BY <1>0, <2>1, <2>2 DEF Version, Object
  <2>4. Extends(job.name, v) /\ ~Creates(job.name, v)
    BY <2>1, <2>3 DEF Extends, Creates, Records, KeyGone
  <2> QED
    BY <1>0, <1>1, <1>2, <1>4, <2>3, <2>4, WriteLog DEF Version
<1> QED
  BY <1>3, <1>4 DEF UpdateStatus

\* The finalizer is added, and the worker begins with what is stored.
LEMMA AddFinalizerKeeps ==
  ASSUME TypeInv, LogInv, WorkerInv, AddFinalizer
  PROVE  LogInv' /\ WorkerInv'
<1>0. /\ job \in Job /\ job.name \in Names /\ job.pc = "AddFinalizer"
      /\ log \in Log /\ log' \in Log /\ stored(job.name) \in Version
  BY WorkerFacts, LogFacts, StepLog DEF AddFinalizer, At, JobOK, Step
<1>1. UNCHANGED <<keys, nextKey, nextUID>>
  BY DEF AddFinalizer, garage
<1> DEFINE v == [stored(job.name) EXCEPT !.finalizer = TRUE]
<1>2. ASSUME stored(job.name) # NoObject
      PROVE  /\ v \in Object /\ v.finalizer
             /\ v.uid = stored(job.name).uid /\ v.status = stored(job.name).status
             /\ Extends(job.name, v) /\ ~Creates(job.name, v)
             /\ Records(v) /\ ~KeyGone(v)
  <2>1. /\ v \in Object /\ v.finalizer
        /\ v.uid = stored(job.name).uid /\ v.status = stored(job.name).status
        /\ v.deleting = stored(job.name).deleting
    BY <1>0, <1>2 DEF Version, Object
  <2>2. Records(stored(job.name)) /\ ~KeyGone(stored(job.name))
    BY <1>0, <1>2, IndexFacts
    DEF LogInv, Recorded, WorkerInv, Ensuring, Exists
  <2> QED
    BY <1>2, <2>1, <2>2 DEF Extends, Creates, Records, KeyGone
<1>3. CASE UNCHANGED log /\ job' = Idle
  BY <1>1, <1>3, SameLog, IdleWorker DEF Idle
<1>4. CASE stored(job.name) # NoObject /\ Store(job.name, v) /\ job' = Idle
  BY <1>0, <1>1, <1>2, <1>4, WriteLog, IdleWorker DEF Idle, Version
<1>5. CASE /\ stored(job.name) # NoObject /\ Store(job.name, v)
           /\ BeginReconcile(v, TRUE)
  <2>1. PICK r \in Names : r = job.name
    BY <1>0
  <2>a. PICK w : w = v
    OBVIOUS
  <2>2. LogInv'
    BY <1>0, <1>1, <1>2, <1>5, WriteLog DEF Version
  <2>3. /\ job'.name = r /\ job'.obj = w
        /\ job'.pc \in {"UpdateStatus", "GetKey", "LookupKey"}
        /\ job'.pc = "GetKey" => w.status.id # NoID
    BY <1>0, <1>5, <2>1, <2>a DEF BeginReconcile, Job
  <2>4. /\ stored(r)' = w
        /\ \A m \in Names : \A i \in Index(m)' :
             \/ i \in Index(m) /\ log'[m][i] = log[m][i]
             \/ m = r /\ log'[m][i] = w
    <3>1. Store(r, w) /\ w \in Version
      BY <1>2, <1>5, <2>1, <2>a DEF Version
    <3> QED
      BY <1>0, <3>1, StoreView
  <2>5. \A i \in Index(r) : Exists(r, i) => ~KeyGone(log[r][i])
    BY <1>0, <2>1 DEF WorkerInv, Ensuring
  <2>6. /\ Last(r) \in Index(r) /\ stored(r) = log[r][Last(r)]
    BY <1>0, <2>1, IndexFacts
  <2>7. w # NoObject /\ w.uid = stored(r).uid
    BY <1>2, <1>5, <2>1, <2>a, NoObjectAssumption
  <2>8. Owning'
    <3>1. w.uid < nextUID'
      BY <1>1, <1>5, <2>1, <2>6, <2>7 DEF LogInv, UIDsApart, Exists
    <3>2. \A m \in Names : \A i \in Index(m)' :
            Exists(m, i)' /\ log'[m][i].uid = w.uid => m = r
      BY <1>5, <2>1, <2>4, <2>6, <2>7 DEF LogInv, UIDsApart, Exists
    <3>3. Records(w)'
      BY <1>1, <1>2, <1>5, <2>a DEF Records
    <3> QED
      BY <2>3, <3>1, <3>2, <3>3 DEF Owning
  <2>9. Ensuring'
    <3>1. \A i \in Index(r)' : Exists(r, i)' => ~KeyGone(log'[r][i])
      BY <1>2, <1>5, <2>a, <2>4, <2>5 DEF Exists
    <3>2. ~KeyGone(w) /\ w.finalizer
      BY <1>2, <1>5, <2>a
    <3> QED
      BY <1>1, <2>3, <2>4, <2>7, <3>1, <3>2
      DEF Ensuring, KeyGone, KeysOf
  <2>10. Deleting'
    BY <2>3 DEF Deleting, DeletePath
  <2> QED
    BY <2>2, <2>8, <2>9, <2>10 DEF WorkerInv
<1> QED
  BY <1>3, <1>4, <1>5 DEF AddFinalizer, Return

\* The worker reads the cache and decides.
LEMMA GetKeeps ==
  ASSUME TypeInv, LogInv, WorkerInv, Get
  PROVE  LogInv' /\ WorkerInv'
<1>0. /\ job \in Job /\ job.name \in Names /\ log \in Log
      /\ cached(job.name) \in Version
  BY WorkerFacts, LogFacts DEF Get, At, JobOK
<1>1. UNCHANGED <<log, keys, nextKey, nextUID>>
  BY DEF Get, garage, env
<1>2. LogInv'
  BY <1>1, SameLog
<1>3. PICK r \in Names : r = job.name
  BY <1>0
<1>4. PICK o : o = cached(r)
  OBVIOUS
<1>5. /\ 1 \in Index(r) /\ o = log[r][1] /\ Last(r) \in Index(r)
      /\ stored(r) = log[r][Last(r)] /\ o \in Version
      /\ \A i \in Index(r) : i \in Nat /\ 1 <= i /\ 1 \in 1 .. i
      /\ \A i \in Index(r) : \A h \in 1 .. i : h \in Index(r) /\ 1 <= h /\ h <= i
  BY <1>0, <1>3, <1>4, IndexFacts
<1>6. o # NoObject =>
        /\ Exists(r, 1) /\ o.uid < nextUID /\ Records(o)
        /\ \A n \in Names : \A i \in Index(n) :
             Exists(n, i) /\ log[n][i].uid = o.uid => n = r
  BY <1>5 DEF LogInv, UIDsApart, Recorded, Exists
<1>7. ASSUME NEW i \in Index(r), o # NoObject, ~o.deleting
      PROVE  Exists(r, i) => ~KeyGone(log[r][i])
  BY <1>5, <1>7 DEF LogInv, GoneIfDeleting
<1>8. CASE Return(FALSE)
  BY <1>2, <1>8, IdleWorker DEF Return, Idle
<1>9. CASE /\ o # NoObject /\ o.deleting
           /\ job' = [job EXCEPT !.obj = o, !.current = fresh(r),
                        !.ext = o.status.id,
                        !.pc = IF o.status.id # NoID THEN "DeleteKey"
                               ELSE "LookupForDelete"]
  <2>1. /\ job'.name = r /\ job'.obj = o /\ job'.current = fresh(r)
        /\ job'.ext = o.status.id
        /\ job'.pc \in {"DeleteKey", "LookupForDelete"}
        /\ job'.pc = "DeleteKey" => o.status.id # NoID
    BY <1>0, <1>3, <1>9 DEF Job
  <2>2. Owning'
    BY <1>1, <1>6, <1>9, <2>1 DEF Owning, Records, Exists, Index
  <2>3. Ensuring'
    BY <2>1 DEF Ensuring, EnsurePath
  <2>4. ASSUME NEW i \in Index(r), Exists(r, i), log[r][i].uid = o.uid,
               NEW h \in 1 .. i
        PROVE  /\ Exists(r, h) /\ log[r][h].uid = o.uid /\ log[r][h].deleting
    BY <1>5, <1>6, <1>9, <2>4 DEF LogInv, Lifetimes
  <2>5. fresh(r) => stored(r) = o
    BY <1>4 DEF fresh, cached, stored
  <2>6. job'.pc = "DeleteKey" =>
          \A k \in keys : k.uid = o.uid <=> k.id = o.status.id
    BY <1>6, <1>9, <2>1 DEF Records
  <2>7. Deleting'
    BY <1>1, <1>9, <2>1, <2>4, <2>5, <2>6 DEF Deleting, Exists, Index, stored
  <2> QED
    BY <1>2, <2>2, <2>3, <2>7 DEF WorkerInv
<1>10. CASE /\ o # NoObject /\ ~o.deleting /\ Goto("AddFinalizer")
  <2>1. job'.name = r /\ job'.pc = "AddFinalizer"
    BY <1>0, <1>3, <1>10 DEF Job, Goto
  <2>2. Ensuring'
    BY <1>1, <1>7, <1>10, <2>1
    DEF Ensuring, EnsurePath, KeyGone, KeysOf, Exists, Index
  <2>3. Owning' /\ Deleting'
    BY <2>1 DEF Owning, Deleting, Holding, EnsurePath, DeletePath
  <2> QED
    BY <1>2, <2>2, <2>3 DEF WorkerInv
<1>11. CASE /\ o # NoObject /\ ~o.deleting /\ o.finalizer
            /\ BeginReconcile(o, fresh(r))
  <2>1. /\ job'.name = r /\ job'.obj = o
        /\ job'.pc \in {"UpdateStatus", "GetKey", "LookupKey"}
        /\ job'.pc = "GetKey" => o.status.id # NoID
    BY <1>0, <1>3, <1>11 DEF BeginReconcile, Job
  <2>2. Owning'
    BY <1>1, <1>6, <1>11, <2>1 DEF Owning, Records, Exists, Index
  <2>3. stored(r) # NoObject /\ stored(r).uid = o.uid /\ stored(r).finalizer
    BY <1>5, <1>6, <1>11 DEF LogInv, Held
  <2>4. ~KeyGone(o)
    BY <1>5, <1>6, <1>7, <1>11
  <2>5. Ensuring'
    BY <1>1, <1>7, <1>11, <2>1, <2>3, <2>4
    DEF Ensuring, KeyGone, KeysOf, Exists, Index, stored
  <2>6. Deleting'
    BY <2>1 DEF Deleting, DeletePath
  <2> QED
    BY <1>2, <2>2, <2>5, <2>6 DEF WorkerInv
<1> QED
  BY <1>3, <1>4, <1>8, <1>9, <1>10, <1>11 DEF Get

\* The key to delete is looked for by name.
LEMMA LookupForDeleteKeeps ==
  ASSUME TypeInv, LogInv, WorkerInv, LookupForDelete
  PROVE  LogInv' /\ WorkerInv'
<1>0. job \in Job /\ job.pc = "LookupForDelete" /\ Holding
  BY WorkerFacts DEF LookupForDelete, At, JobOK, Holding, DeletePath
<1>1. UNCHANGED <<log, keys, nextKey, nextUID>>
  BY DEF LookupForDelete, garage
<1>2. LogInv'
  BY <1>1, SameLog
<1>3. ASSUME job'.pc \in DeletePath \ {"LookupForDelete"},
             job'.name = job.name, job'.obj = job.obj,
             job'.current = job.current,
             job'.pc = "DeleteKey" =>
               \A k \in keys : k.uid = job.obj.uid <=> k.id = job'.ext,
             job'.pc = "RemoveFinalizer" => KeysOf(job.obj.uid) = {}
      PROVE  WorkerInv'
  <2>1. Owning'
    BY <1>0, <1>1, <1>3 DEF WorkerInv, Owning, Holding, Records, Exists, Index
  <2>2. Ensuring'
    BY <1>3 DEF Ensuring, EnsurePath, DeletePath
  <2>3. Deleting'
    BY <1>0, <1>1, <1>3
    DEF WorkerInv, Deleting, DeletePath, Exists, Index, stored, KeysOf
  <2> QED
    BY <2>1, <2>2, <2>3 DEF WorkerInv
<1>4. ASSUME NEW k \in keys, KeysOf(job.obj.uid) = {k},
             job' = [job EXCEPT !.ext = k.id, !.pc = "DeleteKey"]
      PROVE  WorkerInv'
  <2>1. /\ job'.pc = "DeleteKey" /\ job'.name = job.name /\ job'.obj = job.obj
        /\ job'.current = job.current /\ job'.ext = k.id
    BY <1>0, <1>4 DEF Job
  <2>2. \A l \in keys : l.uid = job.obj.uid <=> l.id = k.id
    BY <1>4 DEF KeysOf, LogInv, IDsApart
  <2> QED
    BY <1>3, <2>1, <2>2 DEF DeletePath
<1>5. CASE KeysOf(job.obj.uid) = {} /\ Goto("RemoveFinalizer")
  <2>1. /\ job'.pc = "RemoveFinalizer" /\ job'.name = job.name
        /\ job'.obj = job.obj /\ job'.current = job.current
    BY <1>0, <1>5 DEF Goto, Job
  <2> QED
    BY <1>2, <1>3, <1>5, <2>1 DEF DeletePath
<1>6. CASE Return(TRUE)
  BY <1>2, <1>6, IdleWorker DEF Return, Idle
<1> QED
  BY <1>2, <1>4, <1>5, <1>6 DEF LookupForDelete

\* Garage loses the worker's key, and no other.
LEMMA DeleteKeyKeeps ==
  ASSUME TypeInv, LogInv, WorkerInv, DeleteKey
  PROVE  LogInv' /\ WorkerInv'
<1>0. /\ job \in Job /\ job.obj \in Object /\ job.pc = "DeleteKey"
      /\ job.name \in Names /\ Holding /\ log \in Log
  BY WorkerFacts DEF DeleteKey, At, JobOK, Holding, DeletePath
<1>1. UNCHANGED <<log, nextKey, nextUID>>
  BY DEF DeleteKey
<1>2. keys' = keys \/ keys' = {k \in keys : k.uid # job.obj.uid}
  BY <1>0 DEF DeleteKey, WorkerInv, Deleting
<1>3. keys' \subseteq keys
  BY <1>2
<1>4. UIDsApart' /\ Lifetimes' /\ Held'
  <2>1. UIDsApart'
    BY <1>1 DEF LogInv, UIDsApart, Exists, Index
  <2>2. Lifetimes'
    BY <1>1 DEF LogInv, Lifetimes, Exists, Index
  <2>3. Held'
    BY <1>1 DEF LogInv, Held, Exists, Index, stored
  <2> QED
    BY <2>1, <2>2, <2>3
<1>5. IDsApart' /\ KeyUnique' /\ KeyAccounted'
  BY <1>1, <1>3 DEF LogInv, IDsApart, KeyUnique, KeyAccounted, stored
<1>6. Recorded'
  BY <1>1, <1>3 DEF LogInv, Recorded, Records, Exists, Index
<1>7. GoneIfDeleting'
  <2> SUFFICES ASSUME NEW n \in Names, NEW i \in Index(n), Exists(n, i),
                      KeyGone(log[n][i])', NEW h \in 1 .. i
               PROVE  /\ Exists(n, h) /\ log[n][h].uid = log[n][i].uid
                      /\ log[n][h].deleting
    BY <1>1 DEF GoneIfDeleting, Exists, Index
  <2>1. CASE KeyGone(log[n][i])
    BY <2>1 DEF LogInv, GoneIfDeleting
  <2>2. CASE ~KeyGone(log[n][i])
    <3>1. log[n][i].uid = job.obj.uid
      BY <1>1, <1>2, <2>2 DEF KeyGone, KeysOf
    <3>2. n = job.name
      BY <1>0, <3>1 DEF WorkerInv, Owning
    <3> QED
      BY <1>0, <3>1, <3>2 DEF WorkerInv, Deleting, DeletePath
  <2> QED
    BY <2>1, <2>2
<1>8. LogInv'
  BY <1>4, <1>5, <1>6, <1>7 DEF LogInv
<1>9. CASE /\ keys' = {k \in keys : k.id # job.ext} /\ Goto("RemoveFinalizer")
  <2>1. /\ job'.pc = "RemoveFinalizer" /\ job'.name = job.name
        /\ job'.obj = job.obj /\ job'.current = job.current
    BY <1>0, <1>9 DEF Goto, Job
  <2>2. KeysOf(job.obj.uid)' = {}
    BY <1>0, <1>9, <2>1 DEF WorkerInv, Deleting, KeysOf
  <2>3. Owning'
    BY <1>0, <1>1, <1>3, <2>1
    DEF WorkerInv, Owning, Holding, Records, Exists, Index
  <2>4. Ensuring'
    BY <2>1 DEF Ensuring, EnsurePath
  <2>5. Deleting'
    BY <1>0, <1>1, <2>1, <2>2
    DEF WorkerInv, Deleting, DeletePath, Exists, Index, stored, KeysOf
  <2> QED
    BY <1>8, <2>3, <2>4, <2>5 DEF WorkerInv
<1>10. CASE Return(TRUE)
  BY <1>8, <1>10, IdleWorker DEF Return, Idle
<1> QED
  BY <1>9, <1>10 DEF DeleteKey

\* The object disappears, and no key is left that was its.
LEMMA RemoveFinalizerKeeps ==
  ASSUME TypeInv, LogInv, WorkerInv, RemoveFinalizer
  PROVE  LogInv' /\ WorkerInv'
<1>0. /\ job \in Job /\ job.obj \in Object /\ job.pc = "RemoveFinalizer"
      /\ job.name \in Names /\ Holding /\ log \in Log
  BY WorkerFacts DEF RemoveFinalizer, At, JobOK, Holding, DeletePath
<1>1. UNCHANGED <<keys, nextKey, nextUID>>
  BY DEF RemoveFinalizer, garage
<1>2. WorkerInv'
  BY IdleWorker DEF RemoveFinalizer, Return, Idle
<1>3. CASE UNCHANGED log
  BY <1>1, <1>2, <1>3, SameLog
<1>4. CASE job.current /\ Store(job.name, NoObject)
  <2>1. stored(job.name) # NoObject /\ stored(job.name).uid = job.obj.uid
    BY <1>0, <1>4 DEF WorkerInv, Deleting, DeletePath
  <2>2. KeysOf(job.obj.uid) = {}
    BY <1>0 DEF WorkerInv, Deleting
  <2>3. ASSUME NEW i \in Index(job.name), Exists(job.name, i),
               log[job.name][i].finalizer, ~log[job.name][i].deleting
        PROVE  FALSE
    <3>1. log[job.name][i].uid = job.obj.uid
      BY <1>0, <2>1, <2>3 DEF LogInv, Held
    <3>2. i \in 1 .. i
      BY <1>0, IndexFacts
    <3> QED
      BY <1>0, <2>3, <3>1, <3>2 DEF WorkerInv, Deleting, DeletePath
  <2>4. Removes(job.name, NoObject)
    BY <2>1, <2>2, <2>3 DEF Removes
  <2>5. ~Creates(job.name, NoObject)
    BY NoObjectAssumption DEF Creates
  <2> QED
    BY <1>0, <1>1, <1>2, <1>4, <2>4, <2>5, WriteLog DEF Version
<1> QED
  BY <1>3, <1>4 DEF RemoveFinalizer, OptimisticLock

-----------------------------------------------------------------------------
(* The theorems.                                                            *)

LEMMA InitInv == Init => Inv
<1> SUFFICES ASSUME Init PROVE Inv
  OBVIOUS
<1>1. TypeInv
  BY InitType
<1>2. \A n \in Names : \A i \in Index(n) : ~Exists(n, i)
  BY DEF Init, KubeInit, Exists, Index
<1>3. LogInv
  BY <1>2 DEF Init, LogInv, UIDsApart, IDsApart, KeyUnique, KeyAccounted,
              Lifetimes, Held, Recorded, GoneIfDeleting
<1>4. WorkerInv
  BY DEF Init, Idle, WorkerInv, Owning, Ensuring, Deleting, Holding,
         EnsurePath, DeletePath
<1> QED
  BY <1>1, <1>3, <1>4 DEF Inv

LEMMA NextInv ==
  ASSUME "deleteKey" \notin Tampering
  PROVE  Inv /\ [Next]_vars => Inv'
<1> SUFFICES ASSUME Inv, [Next]_vars PROVE Inv'
  OBVIOUS
<1>1. TypeInv /\ LogInv /\ WorkerInv
  BY DEF Inv
<1>2. TypeInv'
  BY <1>1, NextType
<1>3. LogInv' /\ WorkerInv'
  <2>1. CASE UNCHANGED vars
    BY <1>1, <2>1, SameLog, SameWorker DEF vars, garage, env
  <2>2. CASE Step
    BY <1>1, <2>2, EnsureKeeps, CreateKeeps, UpdateStatusKeeps,
       AddFinalizerKeeps, GetKeeps, LookupForDeleteKeeps, DeleteKeyKeeps,
       RemoveFinalizerKeeps DEF Step
  <2>3. CASE World
    BY <1>1, <2>3, WorldKeeps
  <2> QED
    BY <2>1, <2>2, <2>3 DEF Next, World
<1> QED
  BY <1>2, <1>3 DEF Inv

\* While nobody else deletes keys in Garage, the inductive invariant holds.
THEOREM Invariant ==
  ASSUME "deleteKey" \notin Tampering
  PROVE  Spec => []Inv
BY InitInv, NextInv, PTL DEF Spec

\* However its calls fail and the manager restarts, ensureExternalKey never
\* gives an AccessKey a second key.
THEOREM OneKeyPerAccessKey ==
  ASSUME "deleteKey" \notin Tampering
  PROVE  Spec => []KeyUnique
<1>1. Inv => KeyUnique
  BY DEF Inv, LogInv
<1> QED
  BY <1>1, Invariant, PTL

\* Reconcile leaves no key behind: each belongs to a stored AccessKey with the
\* finalizer, which is there before Create and leaves after Delete.
THEOREM EveryKeyAccountedFor ==
  ASSUME "deleteKey" \notin Tampering
  PROVE  Spec => []KeyAccounted
<1>1. Inv => KeyAccounted
  BY DEF Inv, LogInv
<1> QED
  BY <1>1, Invariant, PTL

-----------------------------------------------------------------------------
(* The finalizer of an AccessKey deletes the recorded key, whatever users,  *)
(* failures, restarts and an administrator of Garage do.                    *)

\* Garage never hands out the ID that stands for an unset one.
KeysHaveIDs == \A k \in keys : k.id # NoID

\* In the deletion branch a current copy is the stored version.
CopyStored == job.pc \in DeletePath /\ job.current => stored(job.name) = job.obj

\* On its way to RemoveFinalizer the worker goes after the ID its copy records.
DeletesRecorded ==
  /\ job.pc = "LookupForDelete" => job.obj.status.id = NoID
  /\ job.pc = "DeleteKey" => job.obj.status.id \in {NoID, job.ext}
  /\ job.pc = "RemoveFinalizer" => \A k \in keys : k.id # job.obj.status.id

FinalizerInv == KeysHaveIDs /\ CopyStored /\ DeletesRecorded

\* What FinalizerHonoured says of one step.
FinalizerStep ==
  \A n \in Names :
    LET o == stored(n) IN
    (o # NoObject /\ o.finalizer /\ stored(n)' = NoObject) =>
      \A k \in keys' : k.id # o.status.id

\* A worker outside the deletion branch has no obligation.
LEMMA NotDeleting ==
  ASSUME job'.pc \notin DeletePath, KeysHaveIDs'
  PROVE  FinalizerInv'
BY DEF FinalizerInv, CopyStored, DeletesRecorded, DeletePath

LEMMA InitFinalizer == Init => FinalizerInv
BY DEF Init, FinalizerInv, KeysHaveIDs, CopyStored, DeletesRecorded, DeletePath,
       Idle

\* The pc after a step that does not delete a key.
LEMMA LeavesDeletePath ==
  ASSUME TypeInv,
         \/ AddFinalizer \/ GetKey \/ LookupKey \/ CreateKey \/ GetSecret
         \/ ReadSecret \/ WriteSecret \/ DeleteOldSecret \/ UpdateStatus
         \/ RemoveFinalizer \/ Crash \/ \E n \in Names : Dequeue(n)
  PROVE  job'.pc \notin DeletePath
<1> USE DEF DeletePath
<1>0. job \in Job
  BY DEF TypeInv, TypeOK
<1>1. \A err : Return(err) => job'.pc = "idle"
  BY DEF Return, Idle
<1>2. \A p : Goto(p) => job'.pc = p
  BY <1>0 DEF Goto, Job
<1>3. /\ KeyFailed => job'.pc = "UpdateStatus"
      /\ \A id : KeyFound(id) => job'.pc = "GetSecret"
      /\ \A r : SecretNotReady(r) => job'.pc = "UpdateStatus"
      /\ SecretWritten => job'.pc \in {"UpdateStatus", "DeleteOldSecret"}
  BY <1>0 DEF KeyFailed, KeyFound, SecretNotReady, SecretWritten, Job
<1>4. \A o, c : BeginReconcile(o, c) => job'.pc \in {"UpdateStatus", "GetKey", "LookupKey"}
  BY <1>0 DEF BeginReconcile, Job
<1>5. CASE AddFinalizer \/ UpdateStatus \/ RemoveFinalizer
  BY <1>1, <1>4, <1>5 DEF AddFinalizer, UpdateStatus, RemoveFinalizer
<1>6. CASE GetKey \/ LookupKey \/ CreateKey \/ GetSecret
  BY <1>2, <1>3, <1>6 DEF GetKey, LookupKey, CreateKey, GetSecret
<1>7. CASE ReadSecret \/ WriteSecret \/ DeleteOldSecret
  <2>1. CASE ReadSecret
    <3>1. PICK s : s = secrets[job.obj.secretName]
      OBVIOUS
    <3>2. CASE job' = [job EXCEPT !.pc = "WriteSecret", !.sec = s,
                                  !.secCurrent = TRUE]
      <4>1. job'.pc = "WriteSecret"
        BY <1>0, <3>2 DEF Job
      <4> QED
        BY <4>1
    <3>3. CASE SecretWritten \/ SecretNotReady("Failed")
      BY <1>3, <3>3
    <3> QED
      BY <2>1, <3>1, <3>2, <3>3 DEF ReadSecret
  <2>2. CASE WriteSecret
    <3>1. SecretWritten \/ SecretNotReady("Failed")
      BY <2>2 DEF WriteSecret
    <3> QED
      BY <1>3, <3>1
  <2>3. CASE DeleteOldSecret
    <3>1. \/ job' = [job EXCEPT !.pc = "UpdateStatus",
                               !.obj = SecretDone(job.obj)]
          \/ SecretNotReady("Failed")
      BY <2>3 DEF DeleteOldSecret
    <3>2. CASE job' = [job EXCEPT !.pc = "UpdateStatus",
                                  !.obj = SecretDone(job.obj)]
      <4>1. job'.pc = "UpdateStatus"
        BY <1>0, <3>2 DEF Job
      <4> QED
        BY <4>1
    <3>3. CASE SecretNotReady("Failed")
      BY <1>3, <3>3
    <3> QED
      BY <3>1, <3>2, <3>3
  <2> QED
    BY <1>7, <2>1, <2>2, <2>3
<1>8. CASE Crash \/ \E n \in Names : Dequeue(n)
  <2>1. CASE Crash
    BY <2>1 DEF Crash, Idle
  <2>2. ASSUME NEW n \in Names, Dequeue(n)
        PROVE  job'.pc \notin DeletePath
    <3>1. job' = [Idle EXCEPT !.pc = "Get", !.name = n]
      BY <2>2 DEF Dequeue
    <3>2. job'.pc = "Get"
      BY <3>1 DEF Idle
    <3> QED
      BY <3>2
  <2> QED
    BY <1>8, <2>1, <2>2
<1> QED
  BY <1>5, <1>6, <1>7, <1>8

\* IDs stay set.
LEMMA KeysKeepIDs ==
  ASSUME TypeInv, KeysHaveIDs, Next
  PROVE  KeysHaveIDs'
<1>1. nextKey # NoID
  BY DEF TypeInv, TypeOK, NoID
<1>2. keys' \subseteq keys \cup {[id |-> nextKey, uid |-> job.obj.uid]}
  BY DEF Next, Step, User, Get, AddFinalizer, GetKey, LookupKey, CreateKey,
         GetSecret, ReadSecret, WriteSecret, DeleteOldSecret, UpdateStatus,
         LookupForDelete, DeleteKey, RemoveFinalizer, Dequeue, Informer,
         UserCreates, UserEdits, UserDeletes, Tamper, Crash, CollectGarbage,
         garage
<1> QED
  BY <1>1, <1>2 DEF KeysHaveIDs

\* What a step that leaves the worker's request alone does to its copy: if it
\* is still current, nothing was written under that name.
LEMMA OthersKeepCopy ==
  ASSUME TypeInv, NEW n \in Names, NEW v \in Version, ObjectWritten(n, v)
  PROVE  /\ job'.pc = job.pc /\ job'.name = job.name /\ job'.obj = job.obj
         /\ job'.ext = job.ext
         /\ job'.current => job.current /\ n # job.name
         /\ \A m \in Names \ {n} : stored(m)' = stored(m)
<1>1. job \in Job /\ log \in Log
  BY WorkerFacts DEF JobOK
<1>2. Store(n, v) /\ job' = [job EXCEPT !.current = @ /\ n # job.name]
  BY DEF ObjectWritten
<1>3. \A m \in Names \ {n} : stored(m)' = stored(m)
  BY <1>1, <1>2, StoreFacts DEF stored
<1> QED
  BY <1>1, <1>2, <1>3 DEF Job

\* Nothing the others do gives the worker a new obligation.
LEMMA WorldKeepsFinalizer ==
  ASSUME TypeInv, FinalizerInv, World
  PROVE  FinalizerInv'
<1>0. /\ KeysHaveIDs' /\ job \in Job /\ log \in Log
      /\ job.pc # "idle" => job.name \in Names
  BY WorkerFacts, KeysKeepIDs DEF FinalizerInv, JobOK, Next, World
<1>1. PICK r : r = job.name
  OBVIOUS
<1>2. ASSUME job'.pc = job.pc, job'.name = job.name, job'.obj = job.obj,
             job'.ext = job.ext, job'.current => job.current, keys' \subseteq keys,
             r \in Names /\ job'.current => stored(r)' = stored(r)
      PROVE  FinalizerInv'
  <2>1. CopyStored'
    BY <1>0, <1>1, <1>2 DEF FinalizerInv, CopyStored, DeletePath
  <2>2. DeletesRecorded'
    BY <1>2 DEF FinalizerInv, DeletesRecorded
  <2> QED
    BY <1>0, <2>1, <2>2 DEF FinalizerInv
<1>3. CASE Crash \/ \E n \in Names : Dequeue(n)
  BY <1>0, <1>3, LeavesDeletePath, NotDeleting
<1>4. ASSUME NEW n \in Names, NEW v, ObjectWritten(n, v), UNCHANGED keys,
             v \in Version
      PROVE  FinalizerInv'
  BY <1>1, <1>2, <1>4, OthersKeepCopy
<1>5. CASE User
  <2>1. UNCHANGED keys
    BY <1>5 DEF User, UserCreates, UserEdits, UserDeletes, garage
  <2>2. \A n \in Names : stored(n) \in Version
    BY <1>0, LogFacts
  <2>3. NewStatus \in Status /\ nextUID \in Nat /\ NoObject \in Version
    BY DEF NewStatus, Status, NoID, NoName, TypeInv, TypeOK, Version
  <2>4. ASSUME NEW n \in Names, NEW s \in SecretNames, UserCreates(n, s)
        PROVE  FinalizerInv'
    <3>1. [uid |-> nextUID, gen |-> 1, secretName |-> s, deleting |-> FALSE,
           finalizer |-> FALSE, status |-> NewStatus] \in Version
      BY <2>3 DEF Version, Object
    <3> QED
      BY <2>1, <2>4, <3>1, <1>4 DEF UserCreates
  <2>5. ASSUME NEW n \in Names, NEW s \in SecretNames, UserEdits(n, s)
        PROVE  FinalizerInv'
    <3>1. stored(n) \in Object
      BY <2>2, <2>5 DEF UserEdits, Version
    <3>2. [stored(n) EXCEPT !.secretName = s, !.gen = @ + 1] \in Version
      BY <3>1, ObjectChanged DEF Version
    <3> QED
      BY <2>1, <2>5, <3>2, <1>4 DEF UserEdits
  <2>6. ASSUME NEW n \in Names, UserDeletes(n)
        PROVE  FinalizerInv'
    <3>1. stored(n) \in Object
      BY <2>2, <2>6 DEF UserDeletes, Version
    <3>2. [stored(n) EXCEPT !.deleting = TRUE, !.gen = @ + 1] \in Version
      BY <3>1, ObjectChanged DEF Version
    <3> QED
      BY <2>1, <2>3, <2>6, <3>2, <1>4 DEF UserDeletes
  <2> QED
    BY <1>5, <2>4, <2>5, <2>6 DEF User
<1>6. ASSUME NEW n \in Names, Informer(n)
      PROVE  FinalizerInv'
  <2>1. UNCHANGED <<keys, job>>
    BY <1>6 DEF Informer, garage
  <2>2. \A m \in Names : stored(m)' = stored(m)
    BY <1>0, <1>6, DeliverFacts DEF Informer, stored
  <2> QED
    BY <1>2, <2>1, <2>2
<1>7. CASE Tamper \/ \E s \in SecretNames : CollectGarbage(s)
  <2>1. UNCHANGED log /\ keys' \subseteq keys
    BY <1>7 DEF Tamper, CollectGarbage, garage
  <2>2. job' = job \/ \E b : job' = [job EXCEPT !.secCurrent = b]
    BY <1>7 DEF Tamper, CollectGarbage, SecretChanged
  <2>3. /\ job'.pc = job.pc /\ job'.name = job.name /\ job'.obj = job.obj
        /\ job'.ext = job.ext /\ job'.current = job.current
    BY <1>0, <2>2 DEF Job
  <2> QED
    BY <1>2, <2>1, <2>3 DEF stored
<1> QED
  BY <1>3, <1>5, <1>6, <1>7 DEF World

\* The deletion branch keeps to the recorded ID.
LEMMA StepKeepsFinalizer ==
  ASSUME TypeInv, FinalizerInv, Step
  PROVE  FinalizerInv'
<1>0. KeysHaveIDs' /\ job \in Job /\ log \in Log
  BY WorkerFacts, KeysKeepIDs DEF FinalizerInv, JobOK, Next
<1>1. CASE \/ AddFinalizer \/ GetKey \/ LookupKey \/ CreateKey \/ GetSecret
           \/ ReadSecret \/ WriteSecret \/ DeleteOldSecret \/ UpdateStatus
           \/ RemoveFinalizer
  BY <1>0, <1>1, LeavesDeletePath, NotDeleting
<1>2. ASSUME NEW err, Return(err)
      PROVE  FinalizerInv'
  BY <1>0, <1>2, NotDeleting DEF Return, Idle, DeletePath
<1>3. CASE Get
  <2>1. PICK r \in Names : r = job.name
    BY <1>3, WorkerFacts DEF Get, At
  <2>2. PICK o : o = cached(r)
    OBVIOUS
  <2>3. UNCHANGED log
    BY <1>3 DEF Get
  <2>4. CASE job' = [job EXCEPT !.obj = o, !.current = fresh(r),
                       !.ext = o.status.id,
                       !.pc = IF o.status.id # NoID THEN "DeleteKey"
                              ELSE "LookupForDelete"]
    <3>1. /\ job'.name = r /\ job'.obj = o /\ job'.current = fresh(r)
          /\ job'.ext = o.status.id
          /\ job'.pc \in {"DeleteKey", "LookupForDelete"}
          /\ job'.pc = "LookupForDelete" => o.status.id = NoID
      BY <1>0, <2>1, <2>4 DEF Job
    <3>2. fresh(r) => stored(r)' = o
      BY <2>2, <2>3 DEF fresh, stored, cached
    <3> QED
      BY <1>0, <3>1, <3>2 DEF FinalizerInv, CopyStored, DeletesRecorded
  <2>5. CASE Goto("AddFinalizer")
    BY <1>0, <2>5, NotDeleting DEF Goto, Job, DeletePath
  <2>6. CASE BeginReconcile(o, fresh(r))
    BY <1>0, <2>6, NotDeleting DEF BeginReconcile, Job, DeletePath
  <2> QED
    BY <1>2, <1>3, <2>1, <2>2, <2>4, <2>5, <2>6 DEF Get
<1>4. ASSUME UNCHANGED log, job'.name = job.name, job'.obj = job.obj,
             job'.current = job.current, job.pc \in DeletePath
      PROVE  CopyStored'
  BY <1>4 DEF FinalizerInv, CopyStored, stored
<1>5. CASE LookupForDelete
  <2>1. job.pc = "LookupForDelete" /\ job.obj.status.id = NoID /\ UNCHANGED log
    BY <1>5 DEF LookupForDelete, At, FinalizerInv, DeletesRecorded
  <2>2. ASSUME NEW k, job' = [job EXCEPT !.ext = k.id, !.pc = "DeleteKey"]
        PROVE  FinalizerInv'
    <3>1. /\ job'.name = job.name /\ job'.obj = job.obj
          /\ job'.current = job.current /\ job'.pc = "DeleteKey"
      BY <1>0, <2>2 DEF Job
    <3> QED
      BY <1>0, <1>4, <2>1, <3>1 DEF FinalizerInv, DeletesRecorded, DeletePath
  <2>3. CASE Goto("RemoveFinalizer")
    <3>1. /\ job'.name = job.name /\ job'.obj = job.obj
          /\ job'.current = job.current /\ job'.pc = "RemoveFinalizer"
      BY <1>0, <2>3 DEF Goto, Job
    <3> QED
      BY <1>0, <1>4, <2>1, <3>1
      DEF FinalizerInv, KeysHaveIDs, DeletesRecorded, DeletePath
  <2> QED
    BY <1>2, <1>5, <2>2, <2>3 DEF LookupForDelete
<1>6. CASE DeleteKey
  <2>1. /\ job.pc = "DeleteKey" /\ UNCHANGED log
        /\ job.obj.status.id \in {NoID, job.ext}
    BY <1>6 DEF DeleteKey, At, FinalizerInv, DeletesRecorded
  <2>2. CASE keys' = {k \in keys : k.id # job.ext} /\ Goto("RemoveFinalizer")
    <3>1. /\ job'.name = job.name /\ job'.obj = job.obj
          /\ job'.current = job.current /\ job'.pc = "RemoveFinalizer"
      BY <1>0, <2>2 DEF Goto, Job
    <3>2. \A k \in keys' : k.id # job.obj.status.id
      BY <1>0, <2>1, <2>2 DEF KeysHaveIDs
    <3> QED
      BY <1>0, <1>4, <2>1, <3>1, <3>2
      DEF FinalizerInv, DeletesRecorded, DeletePath
  <2> QED
    BY <1>2, <1>6, <2>2 DEF DeleteKey
<1> QED
  BY <1>1, <1>3, <1>5, <1>6 DEF Step

\* Only RemoveFinalizer makes an object with a finalizer disappear.
LEMMA StepHonours ==
  ASSUME TypeInv, FinalizerInv, [Next]_vars
  PROVE  FinalizerStep
<1> SUFFICES ASSUME NEW n \in Names, stored(n) # NoObject, stored(n).finalizer,
                    stored(n)' = NoObject
             PROVE  \A k \in keys' : k.id # stored(n).status.id
  BY DEF FinalizerStep
<1>0. /\ job \in Job /\ log \in Log
      /\ \A m \in Names : stored(m) \in Version
      /\ job.pc # "idle" => job.name \in Names
      /\ job.pc \in EnsurePath => job.obj.status \in Status
  BY WorkerFacts, LogFacts DEF JobOK
<1>1. ASSUME NEW m \in Names, NEW v \in Version, Store(m, v)
      PROVE  m = n /\ v = NoObject
  BY <1>0, <1>1, StoreFacts DEF stored
<1>2. ~UNCHANGED log
  <2> SUFFICES ASSUME UNCHANGED log PROVE FALSE
    OBVIOUS
  <2> QED
    BY DEF stored
<1>3. CASE Step
  <2>1. CASE RemoveFinalizer
    <3>1. /\ job.current /\ Store(job.name, NoObject) /\ UNCHANGED keys
          /\ job.name \in Names /\ job.pc = "RemoveFinalizer"
      BY <1>0, <1>2, <2>1 DEF RemoveFinalizer, OptimisticLock, At, garage
    <3>2. n = job.name
      BY <1>1, <3>1 DEF Version
    <3>3. stored(n) = job.obj
      BY <3>1, <3>2 DEF FinalizerInv, CopyStored, DeletePath
    <3> QED
      BY <3>1, <3>3 DEF FinalizerInv, DeletesRecorded
  <2>2. ASSUME NEW v \in Object, Store(job.name, v), job.name \in Names
        PROVE  FALSE
    BY <1>1, <2>2, NoObjectAssumption DEF Version
  <2>3. CASE AddFinalizer
    <3>1. job.name \in Names
      BY <1>0, <2>3 DEF AddFinalizer, At
    <3>2. stored(job.name) # NoObject =>
            [stored(job.name) EXCEPT !.finalizer = TRUE] \in Object
      BY <1>0, <3>1 DEF Version, Object
    <3> QED
      BY <1>2, <2>2, <2>3, <3>1, <3>2 DEF AddFinalizer
  <2>4. CASE UpdateStatus
    <3>1. job.name \in Names /\ job.obj \in Object
      BY <2>4, WorkerFacts DEF UpdateStatus, At, EnsurePath
    <3>2. UpdateAccessKeyCondition(job.obj) \in Status
      BY <3>1 DEF UpdateAccessKeyCondition, Object, Status
    <3>3. stored(job.name) # NoObject =>
            [stored(job.name) EXCEPT
               !.status = UpdateAccessKeyCondition(job.obj)] \in Object
      BY <1>0, <3>1, <3>2 DEF Version, Object
    <3>4. cached(job.name) # NoObject /\ fresh(job.name) =>
            stored(job.name) # NoObject
      BY DEF cached, fresh, stored
    <3> QED
      BY <1>2, <2>2, <2>4, <3>1, <3>3, <3>4 DEF UpdateStatus
  <2>5. CASE ~(RemoveFinalizer \/ AddFinalizer \/ UpdateStatus)
    <3>1. UNCHANGED log
      BY <1>3, <2>5 DEF Step, Get, GetKey, LookupKey, CreateKey, GetSecret,
                    ReadSecret, WriteSecret, DeleteOldSecret, LookupForDelete,
                    DeleteKey
    <3> QED
      BY <1>2, <3>1
  <2> QED
    BY <2>1, <2>3, <2>4, <2>5
<1>4. CASE User
  <2>1. ASSUME NEW m \in Names, NEW v \in Object, ObjectWritten(m, v)
        PROVE  FALSE
    BY <1>1, <2>1, NoObjectAssumption DEF ObjectWritten, Version
  <2>2. NewStatus \in Status /\ nextUID \in Nat
    BY DEF NewStatus, Status, NoID, NoName, TypeInv, TypeOK
  <2>3. ASSUME NEW m \in Names, NEW s \in SecretNames, UserCreates(m, s)
        PROVE  FALSE
    <3>1. [uid |-> nextUID, gen |-> 1, secretName |-> s, deleting |-> FALSE,
           finalizer |-> FALSE, status |-> NewStatus] \in Object
      BY <2>2 DEF Object
    <3> QED
      BY <2>1, <2>3, <3>1 DEF UserCreates
  <2>4. ASSUME NEW m \in Names, NEW s \in SecretNames, UserEdits(m, s)
        PROVE  FALSE
    <3>1. stored(m) \in Object
      BY <1>0, <2>4 DEF UserEdits, Version
    <3> QED
      BY <2>1, <2>4, <3>1, ObjectChanged DEF UserEdits
  <2>5. ASSUME NEW m \in Names, UserDeletes(m)
        PROVE  FALSE
    <3>1. stored(m) \in Object
      BY <1>0, <2>5 DEF UserDeletes, Version
    <3>2. CASE stored(m).finalizer
      BY <2>1, <2>5, <3>1, <3>2, ObjectChanged DEF UserDeletes
    <3>3. CASE ~stored(m).finalizer
      BY <1>1, <2>5, <3>3 DEF UserDeletes, ObjectWritten, Version
    <3> QED
      BY <3>2, <3>3
  <2> QED
    BY <1>4, <2>3, <2>4, <2>5 DEF User
<1>5. ASSUME NEW m \in Names, Informer(m)
      PROVE  FALSE
  BY <1>0, <1>5, DeliverFacts DEF Informer, stored
<1>6. CASE Crash
  BY <1>0, <1>6, RelistFacts DEF Crash
<1>7. CASE \/ Tamper \/ UNCHANGED vars
           \/ \E s \in SecretNames : CollectGarbage(s)
           \/ \E m \in Names : Dequeue(m)
  BY <1>2, <1>7 DEF Tamper, CollectGarbage, Dequeue, vars
<1> QED
  BY <1>3, <1>4, <1>5, <1>6, <1>7 DEF Next

\* The deletion branch goes after the recorded key only, whatever others do.
THEOREM FinalizerInvariant == Spec => []FinalizerInv
<1>1. TypeInv /\ FinalizerInv /\ [Next]_vars => FinalizerInv'
  <2> SUFFICES ASSUME TypeInv, FinalizerInv, [Next]_vars PROVE FinalizerInv'
    OBVIOUS
  <2>1. CASE UNCHANGED vars
    BY <2>1 DEF vars, garage, FinalizerInv, KeysHaveIDs, CopyStored,
                DeletesRecorded, stored
  <2> QED
    BY <2>1, StepKeepsFinalizer, WorldKeepsFinalizer DEF Next, World
<1> QED
  BY <1>1, InitFinalizer, TypeCorrect, PTL DEF Spec

\* When Reconcile removes the finalizer, the key the stored status records is
\* gone from Garage, even if others delete keys and Secrets and however stale
\* the worker's copy was when it began.
THEOREM FinalizerDeletesKey == Spec => FinalizerHonoured
<1>1. TypeInv /\ FinalizerInv /\ [Next]_vars => [FinalizerStep]_vars
  BY StepHonours
<1>2. Spec => [][FinalizerStep]_vars
  BY <1>1, FinalizerInvariant, TypeCorrect, PTL DEF Spec
<1> QED
  BY <1>2, PTL DEF FinalizerHonoured, FinalizerStep
=============================================================================
