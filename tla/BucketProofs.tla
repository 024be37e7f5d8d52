---------------------------- MODULE BucketProofs ----------------------------
(***************************************************************************)
(* Theorems about the Bucket controller, for any number of names, of        *)
(* ConfigMaps, of Buckets, of edits, of failing calls, of crashes and of    *)
(* changes by others: types, that no foreign ConfigMap is taken over, that  *)
(* a recorded ID stays, that no old ConfigMap is left behind and that Ready *)
(* tells the truth.                                                        *)
(***************************************************************************)
EXTENDS BucketController, KubeProofs, TLAPS

Version == Object \cup {NoObject}

\* The calls made for a Bucket the worker has read.
Path == {"GetBucket", "CreateBucket", "GetOwnerSecret", "GetExisting",
         "GetPermissions", "UpdateBucket", "GetConfigMap", "WriteConfigMap",
         "ListConfigMaps", "DeleteConfigMaps", "PatchStatus"}

\* Two versions differ in nothing but the status.
SameSpec(o, p) ==
  /\ o.uid = p.uid /\ o.gen = p.gen
  /\ o.existing = p.existing /\ o.quota = p.quota /\ o.cm = p.cm

-----------------------------------------------------------------------------
(* The inductive invariant.                                                 *)

\* The types of everything but the log and the worker.
EnvOK ==
  /\ queue \subseteq Names
  /\ buckets \subseteq GarageBucket /\ nextID \in Nat \ {0}
  /\ owns \in BOOLEAN
  /\ cms \in [ConfigMapNames -> ConfigMap]
  /\ nextUID \in Nat \ {0} /\ changes \in Nat /\ faults \in Nat

\* The worker has a request, a version once it is past Get, and the bucket it
\* goes on with.
JobOK ==
  /\ job \in Job
  /\ job.pc # "idle" => job.name \in Names
  /\ job.pc \in Path => job.obj \in Object /\ job.orig \in Status
  /\ job.pc \in {"GetPermissions", "UpdateBucket"} => job.found \in GarageBucket

TypeInv == log \in Logs(Version) /\ EnvOK /\ JobOK

\* A current copy is the stored version, but for what the worker has changed
\* in the status, and so is the cached one.
CopyStored ==
  job.pc \in Path /\ job.current =>
    /\ stored(job.name) # NoObject /\ fresh(job.name)
    /\ SameSpec(stored(job.name), job.obj)
    /\ stored(job.name).status = job.orig

\* The worker only fills an ID that is not recorded.
FillsID ==
  job.pc \in Path /\ job.orig.id # NoID => job.obj.status.id = job.orig.id

\* CreateOrUpdate's copy is one the Bucket controls, and the ConfigMap itself
\* as long as it is current.
ReadOwn ==
  job.pc = "WriteConfigMap" =>
    /\ job.read.exists => job.read.owner = job.obj.uid
    /\ job.readCurrent => cms[job.obj.cm] = job.read

Inv == TypeInv /\ CopyStored /\ FillsID /\ ReadOwn

-----------------------------------------------------------------------------
(* The helpers of Reconcile.                                                *)

\* The worker moves on within its request.
Goes ==
  /\ JobOK'
  /\ job'.name = job.name /\ job'.orig = job.orig
  /\ job'.current = job.current
  /\ SameSpec(job'.obj, job.obj)

LEMMA FaultsLeft ==
  ASSUME EnvOK, Fault \/ NoFault
  PROVE  faults' \in Nat
<1>1. CASE Fault
  BY <1>1 DEF Fault, EnvOK
<1>2. CASE NoFault
  BY <1>2 DEF NoFault, EnvOK
<1> QED
  BY <1>1, <1>2

LEMMA ReturnFacts ==
  ASSUME TypeInv, job.pc # "idle", NEW again \in BOOLEAN, Return(again)
  PROVE  /\ JobOK' /\ (queue \subseteq Names)'
         /\ job'.pc = "idle" /\ job' = Idle
         /\ queue' = IF again THEN queue \cup {job.name} ELSE queue
<1>1. job' = Idle /\ queue' = IF again THEN queue \cup {job.name} ELSE queue
  BY DEF Return
<1>2. Idle \in Job /\ Idle.pc = "idle"
  BY DEF Idle, Job, NoConfigMap, ConfigMap, Foreign, NoAlias
<1>3. queue \subseteq Names /\ job.name \in Names
  BY DEF TypeInv, EnvOK, JobOK
<1> QED
  BY <1>1, <1>2, <1>3 DEF JobOK, Path

LEMMA GotoFacts ==
  ASSUME TypeInv, job.pc \in Path, NEW p \in Path, Goto(p),
         p \notin {"GetPermissions", "UpdateBucket"}
  PROVE  Goes /\ job'.pc = p /\ job'.obj = job.obj
BY DEF TypeInv, JobOK, Goto, Job, Goes, SameSpec, Path

LEMMA NotReadyFacts ==
  ASSUME TypeInv, job.pc \in Path, BucketNotReady
  PROVE  /\ Goes /\ job'.pc = "PatchStatus" /\ job'.again = TRUE
         /\ job'.obj.status = [job.obj.status EXCEPT !.bucket = "False"]
<1>1. job \in Job /\ job.obj \in Object /\ job.orig \in Status /\ job.name \in Names
  BY DEF TypeInv, JobOK, Path
<1>2. [job.obj EXCEPT !.status.bucket = "False"] \in Object
  BY <1>1 DEF Object, Status
<1>3. /\ job' = [job EXCEPT !.pc = "PatchStatus", !.again = TRUE,
                            !.obj = [job.obj EXCEPT !.status.bucket = "False"]]
  BY <1>1 DEF BucketNotReady, Job
<1>4. SameSpec([job.obj EXCEPT !.status.bucket = "False"], job.obj)
  BY <1>1 DEF SameSpec, Object
<1>5. [job.obj EXCEPT !.status.bucket = "False"].status
        = [job.obj.status EXCEPT !.bucket = "False"]
  BY <1>1 DEF Object
<1> QED
  BY <1>1, <1>2, <1>3, <1>4, <1>5 DEF Goes, JobOK, Job, Path

\* Resolved fills the status and goes on, with or without new quotas.
LEMMA ResolvedFacts ==
  ASSUME TypeInv, job.pc \in Path, NEW b \in GarageBucket, Resolved(b)
  PROVE  /\ Goes
         /\ job'.obj.status.id = IF job.obj.status.id = NoID
                                 THEN b.id ELSE job.obj.status.id
         /\ job'.obj.status.alias = IF job.obj.status.alias = NoAlias
                                    THEN b.alias ELSE job.obj.status.alias
         /\ job'.obj.status.og = job.obj.status.og
         /\ \/ /\ job'.pc = "UpdateBucket" /\ b.quota # job.obj.quota
               /\ job'.found = b
            \/ /\ job'.pc = "GetConfigMap" /\ b.quota = job.obj.quota
               /\ job'.obj.status.bucket = "True"
<1>1. job \in Job /\ job.obj \in Object /\ job.orig \in Status /\ job.name \in Names
  BY DEF TypeInv, JobOK, Path
<1> DEFINE id == IF job.obj.status.id = NoID THEN b.id ELSE job.obj.status.id
           alias == IF job.obj.status.alias = NoAlias THEN b.alias
                                                      ELSE job.obj.status.alias
           o == [job.obj EXCEPT
                   !.status = [job.obj.status EXCEPT !.id = id, !.alias = alias]]
           p == [o EXCEPT !.status = [o.status EXCEPT !.bucket = "True"]]
<1>2. job.obj.status \in Status /\ id \in Nat /\ alias \in Nat
  BY <1>1 DEF Object, Status, GarageBucket
<1>3. /\ o \in Object /\ SameSpec(o, job.obj)
      /\ o.status.id = id /\ o.status.alias = alias
      /\ o.status.og = job.obj.status.og
  <2> HIDE DEF id, alias
  <2> QED
    BY <1>1, <1>2 DEF Object, Status, SameSpec
<1>4. /\ p \in Object /\ SameSpec(p, job.obj)
      /\ p.status.id = id /\ p.status.alias = alias
      /\ p.status.og = job.obj.status.og /\ p.status.bucket = "True"
  <2> HIDE DEF o
  <2> QED
    BY <1>3 DEF Object, Status, SameSpec
<1>5. job' = IF CompareSpec(b, o)
             THEN [job EXCEPT !.pc = "UpdateBucket", !.obj = o, !.found = b]
             ELSE [job EXCEPT !.pc = "GetConfigMap", !.obj = p]
  <2> DEFINE q == [job.obj EXCEPT
                     !.status.id = IF @ = NoID THEN b.id ELSE @,
                     !.status.alias = IF @ = NoAlias THEN b.alias ELSE @]
  <2>1. job' = IF CompareSpec(b, q)
               THEN [job EXCEPT !.pc = "UpdateBucket", !.obj = q, !.found = b]
               ELSE [job EXCEPT !.pc = "GetConfigMap",
                                !.obj = [q EXCEPT !.status.bucket = "True"]]
    BY DEF Resolved
  <2>2. q = o
    BY <1>1, <1>2 DEF Object, Status
  <2>3. [o EXCEPT !.status.bucket = "True"] = p
    <3> HIDE DEF o
    <3> QED
      BY <1>3 DEF Object
  <2> HIDE DEF o, p, q
  <2> QED
    BY <2>1, <2>2, <2>3
<1>6. CompareSpec(b, o) <=> b.quota # job.obj.quota
  <2> HIDE DEF o
  <2> QED
    BY <1>3 DEF CompareSpec, SameSpec
<1> HIDE DEF o, p
<1>7. CASE b.quota # job.obj.quota
  <2>1. job' = [job EXCEPT !.pc = "UpdateBucket", !.obj = o, !.found = b]
    BY <1>5, <1>6, <1>7
  <2> QED
    BY <1>1, <1>3, <1>7, <2>1 DEF Goes, JobOK, Job, Path
<1>8. CASE b.quota = job.obj.quota
  <2>1. job' = [job EXCEPT !.pc = "GetConfigMap", !.obj = p]
    BY <1>5, <1>6, <1>8
  <2> QED
    BY <1>1, <1>4, <1>8, <2>1 DEF Goes, JobOK, Job, Path
<1> QED
  BY <1>7, <1>8

LEMMA ConfigMapReadyFacts ==
  ASSUME TypeInv, job.pc \in Path, ConfigMapReady
  PROVE  /\ Goes /\ job'.pc = "ListConfigMaps" /\ job'.again = job.again
         /\ job'.obj.status = [job.obj.status EXCEPT !.cm = "True"]
<1>1. job \in Job /\ job.obj \in Object /\ job.orig \in Status /\ job.name \in Names
  BY DEF TypeInv, JobOK, Path
<1> DEFINE o == [job.obj EXCEPT !.status = [job.obj.status EXCEPT !.cm = "True"]]
<1>2. /\ o \in Object /\ SameSpec(o, job.obj)
      /\ o.status = [job.obj.status EXCEPT !.cm = "True"]
  BY <1>1 DEF Object, Status, SameSpec
<1>3. job' = [job EXCEPT !.pc = "ListConfigMaps", !.obj = o]
  BY <1>1 DEF ConfigMapReady, Job, Object
<1> HIDE DEF o
<1> QED
  BY <1>1, <1>2, <1>3 DEF Goes, JobOK, Job, Path

LEMMA ConfigMapNotReadyFacts ==
  ASSUME TypeInv, job.pc \in Path,
         NEW r \in {"Failed", "Conflict"}, ConfigMapNotReady(r)
  PROVE  /\ Goes /\ job'.pc = "PatchStatus"
         /\ r = "Failed" => job'.again = TRUE
         /\ job'.obj.status = [job.obj.status EXCEPT !.cm = r]
<1>1. job \in Job /\ job.obj \in Object /\ job.orig \in Status /\ job.name \in Names
  BY DEF TypeInv, JobOK, Path
<1> DEFINE o == [job.obj EXCEPT !.status = [job.obj.status EXCEPT !.cm = r]]
<1>2. /\ o \in Object /\ SameSpec(o, job.obj)
      /\ o.status = [job.obj.status EXCEPT !.cm = r]
  BY <1>1 DEF Object, Status, SameSpec
<1>3. PICK again \in BOOLEAN :
        /\ r = "Failed" => again = TRUE
        /\ job' = [job EXCEPT !.pc = "PatchStatus", !.again = again, !.obj = o]
  <2>1. job' = [job EXCEPT !.pc = "PatchStatus", !.again = (r # "Conflict"),
                           !.obj = o]
    BY <1>1 DEF ConfigMapNotReady, Job, Object
  <2>2. (r # "Conflict") \in BOOLEAN /\ (r = "Failed" => (r # "Conflict") = TRUE)
    OBVIOUS
  <2> QED
    BY <2>1, <2>2
<1> HIDE DEF o
<1> QED
  BY <1>1, <1>2, <1>3 DEF Goes, JobOK, Job, Path

\* A step within the request that neither writes the Bucket nor is about to
\* write the ConfigMap.
LEMMA GoesKeeps ==
  ASSUME Inv, job.pc \in Path, Goes, UNCHANGED log, EnvOK',
         job'.pc # "WriteConfigMap",
         job.obj.status.id # NoID => job'.obj.status.id = job.obj.status.id
  PROVE  Inv'
<1>1. TypeInv'
  BY DEF Inv, TypeInv, Goes, Logs, Version
<1>2. /\ job'.name = job.name /\ job'.orig = job.orig
      /\ job'.current = job.current /\ SameSpec(job'.obj, job.obj)
  BY DEF Goes
<1>3. CopyStored'
  <2>1. /\ stored(job.name)' = stored(job.name)
        /\ fresh(job.name)' = fresh(job.name)
    BY <1>2 DEF stored, fresh
  <2> QED
    BY <1>2, <2>1 DEF Inv, CopyStored, SameSpec
<1>4. FillsID'
  BY <1>2 DEF Inv, FillsID
<1>5. ReadOwn'
  BY DEF ReadOwn
<1> QED
  BY <1>1, <1>3, <1>4, <1>5 DEF Inv

\* A worker without a Bucket relies on nothing.
LEMMA IdleKeeps ==
  ASSUME job'.pc \notin Path, JobOK', EnvOK', (log \in Logs(Version))'
  PROVE  Inv'
BY DEF Inv, TypeInv, CopyStored, FillsID, ReadOwn, Path

-----------------------------------------------------------------------------
(* The worker's steps.                                                      *)

LEMMA GetKeeps ==
  ASSUME Inv, Get
  PROVE  Inv'
<1>1. /\ job.pc = "Get" /\ job.name \in Names /\ job \in Job
      /\ UNCHANGED <<log, buckets, nextID, owns, cms, nextUID, changes, faults>>
      /\ log \in Logs(Version) /\ EnvOK /\ TypeInv
  BY DEF Get, At, Inv, TypeInv, JobOK, garage, env
<1>2. /\ cached(job.name) \in Version /\ fresh(job.name) \in BOOLEAN
      /\ fresh(job.name) => cached(job.name) = stored(job.name)
  BY <1>1, KubeLog
<1>3. CASE Return(FALSE)
  BY <1>1, <1>3, ReturnFacts, IdleKeeps DEF EnvOK, Path
<1>4. CASE /\ cached(job.name) # NoObject
           /\ job' = [job EXCEPT !.obj = cached(job.name),
                        !.orig = cached(job.name).status,
                        !.current = fresh(job.name),
                        !.pc = IF cached(job.name).existing
                               THEN "GetOwnerSecret" ELSE "GetBucket"]
           /\ UNCHANGED queue
  <2>1. cached(job.name) \in Object /\ cached(job.name).status \in Status
    BY <1>2, <1>4 DEF Version, Object
  <2>2. /\ job'.pc \in {"GetOwnerSecret", "GetBucket"} /\ job'.name = job.name
        /\ job'.obj = cached(job.name) /\ job'.orig = cached(job.name).status
        /\ job'.current = fresh(job.name)
    BY <1>1, <1>4 DEF Job
  <2>3. JobOK'
    BY <1>1, <1>2, <1>4, <2>1, <2>2 DEF JobOK, Job
  <2>4. TypeInv'
    BY <1>1, <1>4, <2>3 DEF TypeInv, EnvOK, Logs, Version
  <2>5. CopyStored'
    <3>1. /\ stored(job.name)' = stored(job.name)
          /\ fresh(job.name)' = fresh(job.name)
      BY <1>1, <2>2 DEF stored, fresh
    <3> QED
      BY <1>2, <1>4, <2>2, <3>1 DEF CopyStored, SameSpec
  <2>6. FillsID' /\ ReadOwn'
    BY <2>2 DEF FillsID, ReadOwn
  <2> QED
    BY <2>4, <2>5, <2>6 DEF Inv
<1> QED
  BY <1>3, <1>4 DEF Get

\* reconcileBucket up to the quotas: nothing but Garage changes.
LEMMA ReconcileBucketKeeps ==
  ASSUME Inv,
         \/ GetBucket \/ CreateBucket \/ GetOwnerSecret \/ GetExisting
         \/ GetPermissions \/ UpdateBucket
  PROVE  Inv'
<1>1. /\ job.pc \in Path /\ TypeInv /\ EnvOK /\ job \in Job
      /\ job.obj \in Object /\ job.name \in Names /\ job.orig \in Status
      /\ UNCHANGED <<log, queue, cms, nextUID, changes, owns>>
  BY DEF GetBucket, CreateBucket, GetOwnerSecret, GetExisting, GetPermissions,
         UpdateBucket, At, Path, Inv, TypeInv, JobOK, garage, env
<1>2. faults' \in Nat
  <2>1. Fault \/ NoFault
    BY DEF GetBucket, CreateBucket, GetOwnerSecret, GetExisting, GetPermissions,
           UpdateBucket
  <2> QED
    BY <1>1, <2>1, FaultsLeft
<1>3. ASSUME BucketNotReady, EnvOK' PROVE Inv'
  <2>1. /\ Goes /\ job'.pc = "PatchStatus"
        /\ job'.obj.status = [job.obj.status EXCEPT !.bucket = "False"]
    BY <1>1, <1>3, NotReadyFacts
  <2>2. job'.obj.status.id = job.obj.status.id
    BY <1>1, <2>1 DEF Object, Status
  <2> QED
    BY <1>1, <1>3, <2>1, <2>2, GoesKeeps
<1>4. ASSUME NEW b \in GarageBucket, Resolved(b), EnvOK' PROVE Inv'
  BY <1>1, <1>4, ResolvedFacts, GoesKeeps
<1>5. ASSUME UNCHANGED <<buckets, nextID>> PROVE EnvOK'
  BY <1>1, <1>2, <1>5 DEF EnvOK
<1>6. CASE GetBucket
  <2>1. EnvOK'
    BY <1>5, <1>6 DEF GetBucket, garage
  <2>2. CASE Goto("CreateBucket")
    BY <1>1, <2>1, <2>2, GotoFacts, GoesKeeps DEF Path
  <2>3. CASE \E b \in BucketWithAlias(SuffixedResourceName(job.obj.uid)) : Resolved(b)
    BY <1>1, <1>4, <2>1, <2>3 DEF BucketWithAlias, EnvOK
  <2> QED
    BY <1>3, <1>6, <2>1, <2>2, <2>3 DEF GetBucket
<1>7. CASE CreateBucket
  <2> DEFINE b == [id |-> nextID, quota |-> 0,
                   alias |-> SuffixedResourceName(job.obj.uid)]
  <2>1. b \in GarageBucket
    BY <1>1 DEF EnvOK, GarageBucket, Object, SuffixedResourceName
  <2>2. \/ UNCHANGED <<buckets, nextID>>
        \/ buckets' = buckets \cup {b} /\ nextID' = nextID + 1
    BY <1>7 DEF CreateBucket
  <2>3. EnvOK'
    BY <1>1, <1>2, <2>1, <2>2 DEF EnvOK
  <2>4. Resolved(b) \/ BucketNotReady
    BY <1>7 DEF CreateBucket
  <2> QED
    BY <1>3, <1>4, <2>1, <2>3, <2>4
<1>8. CASE GetOwnerSecret
  <2>1. EnvOK'
    BY <1>5, <1>8 DEF GetOwnerSecret, garage
  <2>2. CASE Goto("GetExisting")
    BY <1>1, <2>1, <2>2, GotoFacts, GoesKeeps DEF Path
  <2> QED
    BY <1>3, <1>8, <2>1, <2>2 DEF GetOwnerSecret
<1>9. CASE GetExisting
  <2>1. EnvOK'
    BY <1>5, <1>9 DEF GetExisting, garage
  <2>2. ASSUME NEW b \in BucketWithAlias(Imported),
               job' = [job EXCEPT !.pc = "GetPermissions", !.found = b]
        PROVE  Inv'
    <3>1. b \in GarageBucket
      BY <1>1, <2>2 DEF BucketWithAlias, EnvOK
    <3>2. /\ Goes /\ job'.pc = "GetPermissions" /\ job'.obj = job.obj
      BY <1>1, <2>2, <3>1 DEF Goes, JobOK, Job, SameSpec, Path
    <3> QED
      BY <1>1, <2>1, <3>2, GoesKeeps
  <2> QED
    BY <1>3, <1>9, <2>1, <2>2 DEF GetExisting
<1>10. CASE GetPermissions
  <2>1. EnvOK' /\ job.found \in GarageBucket
    BY <1>1, <1>5, <1>10 DEF GetPermissions, garage, At, TypeInv, JobOK
  <2> QED
    BY <1>3, <1>4, <1>10, <2>1 DEF GetPermissions
<1>11. CASE UpdateBucket
  <2> DEFINE updated == {IF b.id = job.found.id
                         THEN [b EXCEPT !.quota = Normal(job.obj.quota)] ELSE b
                           : b \in buckets}
  <2>1. Normal(job.obj.quota) \in Nat
    <3>1. job.obj.quota \in Quotas /\ Quotas \subseteq Int
      BY <1>1, ConstantsAssumption DEF ConstantsAssumption, Object
    <3>2. job.obj.quota \in Int
      BY <3>1
    <3> QED
      BY <3>2 DEF Normal
  <2>2. updated \subseteq GarageBucket
    BY <1>1, <2>1 DEF EnvOK, GarageBucket
  <2>3. buckets' \in {buckets, updated} /\ UNCHANGED nextID
    BY <1>11 DEF UpdateBucket
  <2>4. EnvOK'
    BY <1>1, <1>2, <2>2, <2>3 DEF EnvOK
  <2>5. CASE job' = [job EXCEPT !.pc = "GetConfigMap", !.found = NoObject,
                                !.obj.status.bucket = "True"]
    <3> DEFINE o == [job.obj EXCEPT !.status = [job.obj.status EXCEPT !.bucket = "True"]]
    <3>1. /\ o \in Object /\ SameSpec(o, job.obj)
          /\ o.status.id = job.obj.status.id
      BY <1>1 DEF Object, Status, SameSpec
    <3>2. job' = [job EXCEPT !.pc = "GetConfigMap", !.found = NoObject, !.obj = o]
      BY <1>1, <2>5 DEF Job, Object
    <3> HIDE DEF o
    <3>3. Goes /\ job'.pc = "GetConfigMap" /\ job'.obj = o
      BY <1>1, <3>1, <3>2 DEF Goes, JobOK, Job, Path
    <3> QED
      BY <1>1, <2>4, <3>1, <3>3, GoesKeeps
  <2> QED
    BY <1>3, <1>11, <2>4, <2>5 DEF UpdateBucket
<1> QED
  BY <1>6, <1>7, <1>8, <1>9, <1>10, <1>11

\* ensureConfigMap and deleteStaleConfigMap: nothing but ConfigMaps changes.
LEMMA ConfigMapKeeps ==
  ASSUME Inv,
         GetConfigMap \/ WriteConfigMap \/ ListConfigMaps \/ DeleteConfigMaps
  PROVE  Inv'
<1>1. /\ job.pc \in Path /\ TypeInv /\ EnvOK /\ job \in Job
      /\ job.obj \in Object /\ job.name \in Names /\ job.orig \in Status
      /\ job.obj.cm \in ConfigMapNames /\ job.obj.status \in Status
      /\ UNCHANGED <<log, queue, buckets, nextID, nextUID, changes, owns>>
  BY DEF GetConfigMap, WriteConfigMap, ListConfigMaps, DeleteConfigMaps, At,
         Path, Inv, TypeInv, JobOK, garage, env, Object
<1>2. faults' \in Nat
  <2>1. Fault \/ NoFault
    BY DEF GetConfigMap, WriteConfigMap, ListConfigMaps, DeleteConfigMaps
  <2> QED
    BY <1>1, <2>1, FaultsLeft
<1>3. ASSUME ConfigMapReady \/ ConfigMapNotReady("Failed")
               \/ ConfigMapNotReady("Conflict"),
             EnvOK'
      PROVE  Inv'
  <2>1. CASE ConfigMapReady
    <3>1. /\ Goes /\ job'.pc = "ListConfigMaps"
          /\ job'.obj.status = [job.obj.status EXCEPT !.cm = "True"]
      BY <1>1, <2>1, ConfigMapReadyFacts
    <3>2. job'.obj.status.id = job.obj.status.id
      BY <1>1, <3>1 DEF Status
    <3> QED
      BY <1>1, <1>3, <3>1, <3>2, GoesKeeps
  <2>2. ASSUME NEW r \in {"Failed", "Conflict"}, ConfigMapNotReady(r)
        PROVE  Inv'
    <3>1. /\ Goes /\ job'.pc = "PatchStatus"
          /\ job'.obj.status = [job.obj.status EXCEPT !.cm = r]
      BY <1>1, <2>2, ConfigMapNotReadyFacts
    <3>2. job'.obj.status.id = job.obj.status.id
      BY <1>1, <3>1 DEF Status
    <3> QED
      BY <1>1, <1>3, <3>1, <3>2, GoesKeeps
  <2> QED
    BY <1>3, <2>1, <2>2
<1>4. ASSUME cms' \in [ConfigMapNames -> ConfigMap] PROVE EnvOK'
  BY <1>1, <1>2, <1>4 DEF EnvOK
<1>5. CASE GetConfigMap
  <2>1. EnvOK' /\ cms[job.obj.cm] \in ConfigMap
    BY <1>1, <1>4, <1>5 DEF GetConfigMap, EnvOK
  <2> DEFINE cm == cms[job.obj.cm]
  <2>2. CASE /\ ~cm.exists \/ (/\ ControlledBy(cm, job.obj)
                               /\ cm.alias # job.obj.status.alias)
             /\ job' = [job EXCEPT !.pc = "WriteConfigMap", !.read = cm,
                                   !.readCurrent = TRUE]
    <3>1. /\ job'.pc = "WriteConfigMap" /\ job'.name = job.name
          /\ job'.orig = job.orig /\ job'.obj = job.obj
          /\ job'.current = job.current /\ job'.read = cm
      BY <1>1, <2>2 DEF Job
    <3>2. JobOK'
      BY <1>1, <2>1, <2>2, <3>1 DEF JobOK, Job
    <3>3. TypeInv'
      BY <1>1, <2>1, <3>2 DEF TypeInv, Logs, Version
    <3>4. CopyStored'
      <4>1. /\ stored(job.name)' = stored(job.name)
            /\ fresh(job.name)' = fresh(job.name)
        BY <1>1, <3>1 DEF stored, fresh
      <4> QED
        BY <1>1, <3>1, <4>1 DEF Inv, CopyStored
    <3>5. FillsID'
      BY <1>1, <3>1 DEF Inv, FillsID
    <3>6. ReadOwn'
      BY <1>5, <2>2, <3>1 DEF GetConfigMap, ReadOwn, ControlledBy
    <3> QED
      BY <3>3, <3>4, <3>5, <3>6 DEF Inv
  <2>3. \/ /\ ~cm.exists \/ (/\ ControlledBy(cm, job.obj)
                              /\ cm.alias # job.obj.status.alias)
           /\ job' = [job EXCEPT !.pc = "WriteConfigMap", !.read = cm,
                                 !.readCurrent = TRUE]
        \/ ConfigMapReady \/ ConfigMapNotReady("Failed")
        \/ ConfigMapNotReady("Conflict")
    BY <1>5 DEF GetConfigMap
  <2> QED
    BY <1>3, <2>1, <2>2, <2>3
<1>6. CASE WriteConfigMap
  <2>1. /\ [exists |-> TRUE, owner |-> job.obj.uid,
            alias |-> job.obj.status.alias] \in ConfigMap
        /\ cms \in [ConfigMapNames -> ConfigMap]
    BY <1>1 DEF ConfigMap, Object, Status, EnvOK
  <2>2. cms' \in {cms, [cms EXCEPT ![job.obj.cm] =
                          [exists |-> TRUE, owner |-> job.obj.uid,
                           alias |-> job.obj.status.alias]]}
    BY <1>6 DEF WriteConfigMap
  <2>3. EnvOK'
    BY <1>4, <2>1, <2>2
  <2> QED
    BY <1>3, <1>6, <2>3 DEF WriteConfigMap
<1>7. CASE ListConfigMaps
  <2>1. EnvOK'
    BY <1>1, <1>4, <1>7 DEF ListConfigMaps, EnvOK
  <2> DEFINE stale == {c \in ConfigMapNames \ {job.obj.cm} :
                         cms[c].exists /\ ControlledBy(cms[c], job.obj)}
  <2>2. /\ stale \subseteq ConfigMapNames
        /\ NoConfigMap \in ConfigMap
    BY DEF NoConfigMap, ConfigMap, Foreign, NoAlias
  <2> HIDE DEF stale
  <2>3. CASE job' = [job EXCEPT
                       !.stale = stale, !.read = NoConfigMap,
                       !.pc = IF stale = {} THEN "PatchStatus"
                                            ELSE "DeleteConfigMaps"]
    <3>1. Goes /\ job'.obj = job.obj /\ job'.pc # "WriteConfigMap"
      BY <1>1, <2>2, <2>3 DEF Goes, JobOK, Job, SameSpec, Path
    <3> QED
      BY <1>1, <2>1, <3>1, GoesKeeps
  <2>4. CASE job' = [job EXCEPT !.pc = "PatchStatus", !.again = TRUE]
    <3>1. Goes /\ job'.obj = job.obj /\ job'.pc # "WriteConfigMap"
      BY <1>1, <2>4 DEF Goes, JobOK, Job, SameSpec, Path
    <3> QED
      BY <1>1, <2>1, <3>1, GoesKeeps
  <2> QED
    BY <1>7, <2>3, <2>4 DEF ListConfigMaps, stale
<1>8. CASE DeleteConfigMaps
  <2>1. PICK c \in job.stale :
          /\ cms' \in {cms, [cms EXCEPT ![c] = NoConfigMap]}
          /\ \/ job' = [job EXCEPT !.stale = job.stale \ {c},
                        !.pc = IF job.stale \ {c} = {} THEN "PatchStatus" ELSE @]
             \/ job' = [job EXCEPT !.stale = {}, !.again = TRUE,
                                   !.pc = "PatchStatus"]
    BY <1>8 DEF DeleteConfigMaps
  <2>2. c \in ConfigMapNames /\ NoConfigMap \in ConfigMap
    BY <1>1 DEF Job, NoConfigMap, ConfigMap, Foreign, NoAlias
  <2>3. EnvOK'
    BY <1>1, <1>4, <2>1, <2>2 DEF EnvOK
  <2>4. Goes /\ job'.obj = job.obj /\ job'.pc # "WriteConfigMap"
    <3>1. job.pc = "DeleteConfigMaps" /\ job.stale \ {c} \in SUBSET ConfigMapNames
      BY <1>1, <1>8 DEF DeleteConfigMaps, At, Job
    <3>2. CASE job' = [job EXCEPT !.stale = job.stale \ {c},
                        !.pc = IF job.stale \ {c} = {} THEN "PatchStatus" ELSE @]
      BY <1>1, <3>1, <3>2 DEF Goes, JobOK, Job, SameSpec, Path
    <3>3. CASE job' = [job EXCEPT !.stale = {}, !.again = TRUE,
                                  !.pc = "PatchStatus"]
      BY <1>1, <3>1, <3>3 DEF Goes, JobOK, Job, SameSpec, Path
    <3> QED
      BY <2>1, <3>2, <3>3
  <2> QED
    BY <1>1, <2>3, <2>4, GoesKeeps
<1> QED
  BY <1>5, <1>6, <1>7, <1>8

\* What PatchStatus may store.
Patched ==
  [stored(job.name) EXCEPT !.status = UpdateBucketReadyCondition(job.obj)]

\* The status is written on the version the worker has read, or not at all.
LEMMA PatchFacts ==
  ASSUME Inv, PatchStatus
  PROVE  /\ job.pc = "PatchStatus" /\ job.name \in Names
         /\ job'.pc = "idle" /\ JobOK'
         /\ EnvOK'
         /\ UNCHANGED <<buckets, nextID, owns, cms, nextUID, changes>>
         /\ \/ UNCHANGED log
            \/ /\ Store(job.name, Patched)
               /\ job.current /\ Patched \in Object
               /\ SameSpec(Patched, stored(job.name))
               /\ Patched.status = UpdateBucketReadyCondition(job.obj)
               /\ Patched.status.id = job.obj.status.id
<1>1. /\ job.pc = "PatchStatus" /\ job \in Job /\ TypeInv /\ EnvOK
      /\ job.obj \in Object /\ job.name \in Names
      /\ UNCHANGED <<buckets, nextID, owns, cms, nextUID, changes>>
  BY DEF PatchStatus, At, Inv, TypeInv, JobOK, Path, garage, env
<1>2. PICK again \in BOOLEAN : Return(again)
  <2>1. job.again \in BOOLEAN /\ (stored(job.name) = NoObject) \in BOOLEAN
    BY <1>1 DEF Job
  <2> QED
    BY <2>1 DEF PatchStatus
<1>3. job'.pc = "idle" /\ JobOK' /\ (queue \subseteq Names)'
  BY <1>1, <1>2, ReturnFacts
<1>4. faults' \in Nat
  <2>1. Fault \/ NoFault
    BY DEF PatchStatus
  <2> QED
    BY <1>1, <2>1, FaultsLeft
<1>5. EnvOK'
  BY <1>1, <1>3, <1>4 DEF EnvOK
<1>6. \/ UNCHANGED log
      \/ job.current /\ Store(job.name, Patched)
  BY DEF PatchStatus, Patched, OptimisticLock
<1>7. ASSUME job.current
      PROVE  /\ Patched \in Object
             /\ SameSpec(Patched, stored(job.name))
             /\ Patched.status = UpdateBucketReadyCondition(job.obj)
             /\ Patched.status.id = job.obj.status.id
  <2>1. stored(job.name) \in Object
    <3>1. stored(job.name) # NoObject
      BY <1>1, <1>7 DEF Inv, CopyStored, Path
    <3>2. stored(job.name) \in Version
      BY <1>1, KubeLog DEF TypeInv
    <3> QED
      BY <3>1, <3>2 DEF Version
  <2>2. /\ UpdateBucketReadyCondition(job.obj) \in Status
        /\ UpdateBucketReadyCondition(job.obj).id = job.obj.status.id
    BY <1>1 DEF UpdateBucketReadyCondition, Object, Status
  <2> QED
    BY <2>1, <2>2 DEF Patched, Object, SameSpec
<1> QED
  BY <1>1, <1>3, <1>5, <1>6, <1>7

LEMMA PatchKeeps ==
  ASSUME Inv, PatchStatus
  PROVE  Inv'
<1>1. log \in Logs(Version) /\ job.name \in Names
  BY PatchFacts DEF Inv, TypeInv
<1>2. (log \in Logs(Version))'
  <2>1. CASE UNCHANGED log
    BY <1>1, <2>1 DEF Logs
  <2>2. CASE Store(job.name, Patched) /\ Patched \in Object
    BY <1>1, <2>2, StoreEffect DEF Version
  <2> QED
    BY <2>1, <2>2, PatchFacts
<1> QED
  BY <1>2, PatchFacts, IdleKeeps DEF Path

LEMMA StepKeeps ==
  ASSUME Inv, Step
  PROVE  Inv'
BY GetKeeps, ReconcileBucketKeeps, ConfigMapKeeps, PatchKeeps DEF Step

-----------------------------------------------------------------------------
(* The steps of the others.                                                 *)

\* Someone else writes a Bucket, keeping its recorded ID.
LEMMA UserKeeps ==
  ASSUME Inv, NEW n \in Names, NEW v \in Version, UserWrites(n, v),
         v # stored(n), nextUID' \in Nat \ {0}, UNCHANGED changes
  PROVE  Inv'
<1>1. /\ log \in Logs(Version) /\ JobOK /\ job \in Job /\ EnvOK
      /\ Store(n, v) /\ job' = [job EXCEPT !.current = @ /\ n # job.name]
      /\ UNCHANGED <<queue, buckets, nextID, owns, cms, faults>>
  BY DEF Inv, TypeInv, JobOK, UserWrites, garage
<1>2. /\ job'.pc = job.pc /\ job'.name = job.name /\ job'.obj = job.obj
      /\ job'.orig = job.orig /\ job'.found = job.found
      /\ job'.read = job.read /\ job'.readCurrent = job.readCurrent
      /\ job'.current => job.current /\ n # job.name
  BY <1>1 DEF Job
<1>3. job' \in Job
  <2>1. (job.current /\ n # job.name) \in BOOLEAN
    OBVIOUS
  <2> QED
    BY <1>1, <2>1 DEF Job
<1>4. /\ (log \in Logs(Version))'
      /\ \A m \in Names \ {n} : /\ stored(m)' = stored(m) /\ log'[m] = log[m]
  BY <1>1, KubeStore DEF stored
<1>5. TypeInv'
  BY <1>1, <1>2, <1>3, <1>4 DEF TypeInv, JobOK, EnvOK
<1>6. CopyStored'
  <2>1. CASE job.pc \in Path /\ job'.current
    <3>1. n # job.name /\ job.current /\ job.name \in Names
      BY <1>1, <1>2, <2>1 DEF JobOK, Path
    <3>2. /\ stored(job.name)' = stored(job.name)
          /\ fresh(job.name)' = fresh(job.name)
      BY <1>2, <1>4, <3>1 DEF stored, fresh
    <3> QED
      BY <1>2, <2>1, <3>1, <3>2 DEF Inv, CopyStored
  <2>2. CASE ~(job'.pc \in Path /\ job'.current)
    BY <2>2 DEF CopyStored
  <2> QED
    BY <1>2, <2>1, <2>2
<1>7. FillsID'
  BY <1>2 DEF Inv, FillsID
<1>8. ReadOwn'
  BY <1>1, <1>2 DEF Inv, ReadOwn
<1> QED
  BY <1>5, <1>6, <1>7, <1>8 DEF Inv

\* What users do to a Bucket: a new one, an edit or a deletion.
LEMMA UserFacts ==
  ASSUME log \in Logs(Version), EnvOK, User
  PROVE  \E n \in Names, v \in Version :
           /\ UserWrites(n, v) /\ v # stored(n)
           /\ nextUID' \in Nat \ {0} /\ UNCHANGED changes
           /\ \/ /\ stored(n) = NoObject /\ v \in Object
                 /\ nextUID' = nextUID + 1
                 /\ v.uid = nextUID /\ v.gen = 1 /\ v.status = NewStatus
                 /\ v.existing => "import" \in Changes
              \/ /\ stored(n) \in Object /\ v \in Object
                 /\ nextUID' = nextUID
                 /\ v.uid = stored(n).uid /\ v.gen = stored(n).gen + 1
                 /\ v.status = stored(n).status
                 /\ v.existing # stored(n).existing => "switch" \in Changes
              \/ v = NoObject /\ nextUID' = nextUID
<1>1. PICK n \in Names :
        \/ \E existing \in BOOLEAN, quota \in Quotas, cm \in ConfigMapNames :
             UserCreates(n, existing, quota, cm) \/ UserEdits(n, existing, quota, cm)
        \/ UserDeletes(n)
  BY DEF User
<1>2. stored(n) \in Version /\ nextUID \in Nat \ {0}
  BY KubeLog DEF EnvOK
<1>3. ASSUME NEW existing \in BOOLEAN, NEW quota \in Quotas,
             NEW cm \in ConfigMapNames, UserCreates(n, existing, quota, cm)
      PROVE  \E v \in Object :
               /\ UserWrites(n, v) /\ stored(n) = NoObject
               /\ nextUID' = nextUID + 1 /\ UNCHANGED changes
               /\ v.uid = nextUID /\ v.gen = 1 /\ v.status = NewStatus
               /\ v.existing => "import" \in Changes
  <2> DEFINE v == [uid |-> nextUID, gen |-> 1, existing |-> existing,
                   quota |-> quota, cm |-> cm, status |-> NewStatus]
  <2>1. NewStatus \in Status
    BY DEF NewStatus, Status, NoID, NoAlias
  <2>2. v \in Object
    BY <1>2, <2>1 DEF Object
  <2>3. /\ UserWrites(n, v) /\ stored(n) = NoObject
        /\ nextUID' = nextUID + 1 /\ UNCHANGED changes
        /\ existing => "import" \in Changes
    BY <1>3 DEF UserCreates
  <2>4. /\ v.uid = nextUID /\ v.gen = 1 /\ v.status = NewStatus
        /\ v.existing = existing
    OBVIOUS
  <2> HIDE DEF v
  <2> QED
    BY <2>2, <2>3, <2>4
<1>4. ASSUME NEW existing \in BOOLEAN, NEW quota \in Quotas,
             NEW cm \in ConfigMapNames, UserEdits(n, existing, quota, cm)
      PROVE  \E v \in Object :
               /\ UserWrites(n, v) /\ stored(n) \in Object
               /\ nextUID' = nextUID /\ UNCHANGED changes
               /\ v.uid = stored(n).uid /\ v.gen = stored(n).gen + 1
               /\ v.status = stored(n).status
               /\ v.existing # stored(n).existing => "switch" \in Changes
  <2> DEFINE o == stored(n)
             v == [o EXCEPT !.gen = o.gen + 1, !.existing = existing,
                            !.quota = quota, !.cm = cm]
  <2>1. o \in Object
    BY <1>2, <1>4 DEF UserEdits, Version
  <2>2. /\ v \in Object /\ v.uid = o.uid /\ v.gen = o.gen + 1
        /\ v.status = o.status /\ v.existing = existing
    <3> HIDE DEF o
    <3>1. o.gen + 1 \in Nat
      BY <2>1 DEF Object
    <3> QED
      BY <2>1, <3>1 DEF Object
  <2>3. /\ UserWrites(n, v) /\ nextUID' = nextUID /\ UNCHANGED changes
        /\ existing # o.existing => "switch" \in Changes
    BY <1>4, <2>1 DEF UserEdits, env, Object
  <2> HIDE DEF v
  <2> QED
    BY <2>1, <2>2, <2>3
<1>5. ASSUME UserDeletes(n)
      PROVE  /\ UserWrites(n, NoObject) /\ stored(n) # NoObject
             /\ nextUID' = nextUID /\ UNCHANGED changes
  BY <1>5 DEF UserDeletes, env
<1>6. \A v \in Object : v # NoObject /\ v \in Version /\ NoObject \in Version
  BY NoObjectAssumption DEF NoObjectAssumption, Version
<1>7. CASE UserDeletes(n)
  BY <1>2, <1>5, <1>7 DEF Version
<1>8. ASSUME NEW existing \in BOOLEAN, NEW quota \in Quotas,
             NEW cm \in ConfigMapNames, UserCreates(n, existing, quota, cm)
      PROVE  \E v \in Version :
               /\ UserWrites(n, v) /\ v # stored(n)
               /\ nextUID' \in Nat \ {0} /\ UNCHANGED changes
               /\ stored(n) = NoObject /\ v \in Object
               /\ nextUID' = nextUID + 1
               /\ v.uid = nextUID /\ v.gen = 1 /\ v.status = NewStatus
               /\ v.existing => "import" \in Changes
  BY <1>2, <1>3, <1>6, <1>8
<1>9. ASSUME NEW existing \in BOOLEAN, NEW quota \in Quotas,
             NEW cm \in ConfigMapNames, UserEdits(n, existing, quota, cm)
      PROVE  \E v \in Version :
               /\ UserWrites(n, v) /\ v # stored(n)
               /\ nextUID' \in Nat \ {0} /\ UNCHANGED changes
               /\ stored(n) \in Object /\ v \in Object
               /\ nextUID' = nextUID
               /\ v.uid = stored(n).uid /\ v.gen = stored(n).gen + 1
               /\ v.status = stored(n).status
               /\ v.existing # stored(n).existing => "switch" \in Changes
  <2>1. PICK v \in Object :
               /\ UserWrites(n, v) /\ stored(n) \in Object
               /\ nextUID' = nextUID /\ UNCHANGED changes
               /\ v.uid = stored(n).uid /\ v.gen = stored(n).gen + 1
               /\ v.status = stored(n).status
               /\ v.existing # stored(n).existing => "switch" \in Changes
    BY <1>4, <1>9
  <2>2. v # stored(n)
    <3>1. stored(n).gen \in Nat
      BY <2>1 DEF Object
    <3> QED
      BY <2>1, <3>1
  <2> QED
    BY <1>2, <1>6, <2>1, <2>2
<1> QED
  BY <1>1, <1>7, <1>8, <1>9

\* Someone else writes a ConfigMap, or deletes it.
LEMMA ConfigMapChangedKeeps ==
  ASSUME Inv, NEW c \in ConfigMapNames, NEW v \in ConfigMap,
         ConfigMapChanged(c, v), UNCHANGED <<buckets, nextID, owns>>,
         changes' \in Nat
  PROVE  Inv'
<1>1. /\ log \in Logs(Version) /\ JobOK /\ job \in Job /\ EnvOK
      /\ cms' = [cms EXCEPT ![c] = v]
      /\ job' = [job EXCEPT !.readCurrent = @ /\ c # job.obj.cm]
      /\ UNCHANGED <<log, queue, nextUID, faults>>
  BY DEF Inv, TypeInv, JobOK, ConfigMapChanged
<1>2. /\ job'.pc = job.pc /\ job'.name = job.name /\ job'.obj = job.obj
      /\ job'.orig = job.orig /\ job'.found = job.found
      /\ job'.read = job.read /\ job'.current = job.current
      /\ job'.readCurrent => job.readCurrent /\ c # job.obj.cm
  BY <1>1 DEF Job
<1>3. job' \in Job
  <2>1. (job.readCurrent /\ c # job.obj.cm) \in BOOLEAN
    OBVIOUS
  <2> QED
    BY <1>1, <2>1 DEF Job
<1>4. TypeInv'
  BY <1>1, <1>2, <1>3 DEF TypeInv, JobOK, EnvOK, Logs, Version
<1>5. CopyStored'
  <2>1. /\ stored(job.name)' = stored(job.name)
        /\ fresh(job.name)' = fresh(job.name)
    BY <1>1, <1>2 DEF stored, fresh
  <2> QED
    BY <1>2, <2>1 DEF Inv, CopyStored
<1>6. FillsID'
  BY <1>2 DEF Inv, FillsID
<1>7. ReadOwn'
  <2>1. CASE job.pc = "WriteConfigMap"
    <3>1. job.obj.cm \in ConfigMapNames
      BY <1>1, <2>1 DEF JobOK, Path, Object
    <3>2. job'.readCurrent => cms'[job.obj.cm] = cms[job.obj.cm]
      BY <1>1, <1>2, <3>1 DEF EnvOK
    <3> QED
      BY <1>2, <2>1, <3>2 DEF Inv, ReadOwn
  <2>2. CASE job.pc # "WriteConfigMap"
    BY <1>2, <2>2 DEF ReadOwn
  <2> QED
    BY <2>1, <2>2
<1> QED
  BY <1>4, <1>5, <1>6, <1>7 DEF Inv

\* A step that leaves the worker alone.
LEMMA OthersKeep ==
  ASSUME Inv, UNCHANGED <<job, cms>>, EnvOK', (log \in Logs(Version))',
         \A n \in Names : /\ stored(n)' = stored(n)
                          /\ fresh(n) => fresh(n)'
  PROVE  Inv'
<1>1. TypeInv'
  BY DEF Inv, TypeInv, JobOK
<1>2. CopyStored'
  <2>1. CASE job.pc \in Path
    <3>1. job.name \in Names
      BY <2>1 DEF Inv, TypeInv, JobOK, Path
    <3>2. /\ stored(job.name)' = stored(job.name)
          /\ fresh(job.name) => fresh(job.name)'
      BY <3>1
    <3> QED
      BY <3>2 DEF Inv, CopyStored
  <2>2. CASE job.pc \notin Path
    BY <2>2 DEF CopyStored
  <2> QED
    BY <2>1, <2>2
<1>3. FillsID' /\ ReadOwn'
  BY DEF Inv, FillsID, ReadOwn
<1> QED
  BY <1>1, <1>2, <1>3 DEF Inv

LEMMA WorldKeeps ==
  ASSUME Inv,
         \/ \E n \in Names : Dequeue(n) \/ Informer(n)
         \/ User \/ Tamper \/ OwnershipChanges \/ Crash
         \/ \E c \in ConfigMapNames : CollectGarbage(c)
  PROVE  Inv'
<1>1. /\ log \in Logs(Version) /\ JobOK /\ job \in Job /\ EnvOK /\ TypeInv
      /\ NoConfigMap \in ConfigMap
      /\ [NoConfigMap EXCEPT !.exists = TRUE] \in ConfigMap
  BY DEF Inv, TypeInv, JobOK, NoConfigMap, ConfigMap, Foreign, NoAlias
<1>2. ASSUME NEW n \in Names, Dequeue(n)
      PROVE  Inv'
  <2>1. /\ job' = [Idle EXCEPT !.pc = "Get", !.name = n]
        /\ UNCHANGED <<log, buckets, nextID, owns, cms, nextUID, changes, faults>>
        /\ queue' \subseteq queue
    BY <1>2 DEF Dequeue, garage, env
  <2>2. job' \in Job /\ job'.pc = "Get" /\ job'.name = n
    BY <2>1 DEF Idle, Job, NoConfigMap, ConfigMap, Foreign, NoAlias
  <2>3. JobOK' /\ job'.pc \notin Path
    BY <2>2 DEF JobOK, Path
  <2>4. EnvOK' /\ (log \in Logs(Version))'
    BY <1>1, <2>1 DEF EnvOK, Logs, Version
  <2> QED
    BY <2>3, <2>4, IdleKeeps
<1>3. ASSUME NEW n \in Names, Informer(n)
      PROVE  Inv'
  <2>1. Deliver(n) /\ ~fresh(n)
        /\ UNCHANGED <<buckets, nextID, owns, cms, nextUID, changes, faults, job>>
    BY <1>3 DEF Informer, Deliver, garage, env
  <2>2. /\ log' \in Logs(Version) /\ queue' = queue \cup {n}
        /\ \A m \in Names : stored(m)' = stored(m)
        /\ \A m \in Names \ {n} : fresh(m)' = fresh(m)
    BY <1>1, <2>1, DeliverEffect
  <2>3. EnvOK'
    BY <1>1, <2>1, <2>2 DEF EnvOK
  <2>4. (log \in Logs(Version))'
    BY <2>2 DEF Logs, Version
  <2>5. \A m \in Names : stored(m)' = stored(m) /\ (fresh(m) => fresh(m)')
    BY <2>1, <2>2
  <2> QED
    BY <2>1, <2>3, <2>4, <2>5, OthersKeep
<1>4. CASE User
  <2>1. PICK n \in Names, v \in Version :
           /\ UserWrites(n, v) /\ v # stored(n)
           /\ nextUID' \in Nat \ {0} /\ UNCHANGED changes
    BY <1>1, <1>4, UserFacts
  <2> QED
    BY <2>1, UserKeeps
<1>5. CASE Tamper
  <2>1. changes' \in Nat
    BY <1>1, <1>5 DEF Tamper, EnvOK
  <2>2. ASSUME NEW c \in ConfigMapNames,
               \/ ConfigMapChanged(c, NoConfigMap)
               \/ ConfigMapChanged(c, [NoConfigMap EXCEPT !.exists = TRUE]),
               UNCHANGED garage
        PROVE  Inv'
    <3>1. UNCHANGED <<buckets, nextID, owns>>
      BY <2>2 DEF garage
    <3> QED
      BY <1>1, <2>1, <2>2, <3>1, ConfigMapChangedKeeps
  <2>3. ASSUME NEW b \in buckets, buckets' = buckets \ {b},
               UNCHANGED <<log, queue, nextID, owns, cms, nextUID, faults, job>>
        PROVE  Inv'
    <3>1. EnvOK' /\ (log \in Logs(Version))'
      BY <1>1, <2>1, <2>3 DEF EnvOK, Logs, Version
    <3>2. \A n \in Names : stored(n)' = stored(n) /\ fresh(n)' = fresh(n)
      BY <2>3 DEF stored, fresh
    <3> QED
      BY <2>3, <3>1, <3>2, OthersKeep
  <2> QED
    BY <1>5, <2>2, <2>3 DEF Tamper
<1>6. CASE OwnershipChanges
  <2>1. /\ owns' = ~owns
        /\ UNCHANGED <<log, queue, buckets, nextID, cms, nextUID, changes, faults, job>>
    BY <1>6 DEF OwnershipChanges, env
  <2>2. EnvOK' /\ (log \in Logs(Version))'
    BY <1>1, <2>1 DEF EnvOK, Logs, Version
  <2>3. \A n \in Names : stored(n)' = stored(n) /\ fresh(n)' = fresh(n)
    BY <2>1 DEF stored, fresh
  <2> QED
    BY <2>1, <2>2, <2>3, OthersKeep
<1>7. CASE Crash
  <2>1. /\ Fault /\ Relist /\ job' = Idle
        /\ UNCHANGED <<buckets, nextID, owns, cms, nextUID, changes>>
    BY <1>7 DEF Crash, garage, env
  <2>2. faults' \in Nat
    BY <1>1, <2>1, FaultsLeft
  <2>3. /\ (log \in Logs(Version))' /\ queue' \subseteq Names
    <3>1. log' \in Logs(Version) /\ queue' \subseteq Names
      BY <1>1, <2>1, KubeRelist
    <3> QED
      BY <3>1 DEF Logs, Version
  <2>4. EnvOK'
    BY <1>1, <2>1, <2>2, <2>3 DEF EnvOK
  <2>5. JobOK' /\ job'.pc \notin Path
    BY <2>1 DEF JobOK, Idle, Job, NoConfigMap, ConfigMap, Foreign, NoAlias, Path
  <2> QED
    BY <2>3, <2>4, <2>5, IdleKeeps
<1>8. ASSUME NEW c \in ConfigMapNames, CollectGarbage(c)
      PROVE  Inv'
  <2>1. /\ ConfigMapChanged(c, NoConfigMap) /\ changes' \in Nat
        /\ UNCHANGED <<buckets, nextID, owns>>
    BY <1>1, <1>8 DEF CollectGarbage, garage, EnvOK
  <2> QED
    BY <1>1, <2>1, ConfigMapChangedKeeps
<1> QED
  BY <1>2, <1>3, <1>4, <1>5, <1>6, <1>7, <1>8

-----------------------------------------------------------------------------
(* The theorems.                                                            *)

LEMMA InvInit == Init => Inv
<1> SUFFICES ASSUME Init PROVE Inv
  OBVIOUS
<1>1. log \in Logs(Version) /\ queue = {}
  <2>1. NoObject \in Version /\ KubeInit
    BY DEF Version, Init
  <2> QED
    BY <2>1, KubeStart
<1>2. EnvOK
  <2>1. /\ [id |-> 1, alias |-> Imported, quota |-> 0] \in GarageBucket
        /\ NoConfigMap \in ConfigMap
    BY DEF GarageBucket, Imported, NoConfigMap, ConfigMap, Foreign, NoAlias
  <2>2. MaxChanges \in Nat /\ MaxFaults \in Nat
    BY ConstantsAssumption DEF ConstantsAssumption
  <2> QED
    BY <1>1, <2>1, <2>2 DEF Init, EnvOK
<1>3. JobOK /\ job.pc = "idle"
  BY DEF Init, JobOK, Idle, Job, NoConfigMap, ConfigMap, Foreign, NoAlias, Path
<1> QED
  BY <1>1, <1>2, <1>3 DEF Inv, TypeInv, CopyStored, FillsID, ReadOwn, Path

LEMMA InvNext == Inv /\ [Next]_vars => Inv'
<1> SUFFICES ASSUME Inv, [Next]_vars PROVE Inv'
  OBVIOUS
<1>1. CASE Next
  BY <1>1, StepKeeps, WorldKeeps DEF Next
<1>2. CASE UNCHANGED vars
  <2>1. UNCHANGED <<log, queue, buckets, nextID, owns, cms, nextUID, changes,
                    faults, job>>
    BY <1>2 DEF vars, garage, env
  <2>2. EnvOK' /\ (log \in Logs(Version))'
    BY <2>1 DEF Inv, TypeInv, EnvOK, Logs, Version
  <2>3. \A n \in Names : stored(n)' = stored(n) /\ fresh(n)' = fresh(n)
    BY <2>1 DEF stored, fresh
  <2> QED
    BY <2>1, <2>2, <2>3, OthersKeep
<1> QED
  BY <1>1, <1>2

\* The inductive invariant: what the worker may rely on when it writes.
THEOREM Invariant == Spec => []Inv
BY InvInit, InvNext, PTL DEF Spec

\* Every variable of the Bucket controller always holds a value of its type.
THEOREM TypesAlwaysOK == Spec => []TypeOK
<1>1. Inv => TypeOK
  BY DEF Inv, TypeInv, EnvOK, JobOK, TypeOK, Logs, Version
<1> QED
  BY <1>1, Invariant, PTL

\* How any step changes what is stored: a user writes, or the worker patches
\* the version it has read.
LEMMA WhoStores ==
  ASSUME Inv, [Next]_vars
  PROVE  \/ \A n \in Names : stored(n)' = stored(n)
         \/ User
         \/ /\ PatchStatus /\ job.name \in Names /\ job.current
            /\ Store(job.name, Patched) /\ Patched \in Object
            /\ \A n \in Names :
                 stored(n)' = IF n = job.name THEN Patched ELSE stored(n)
<1>0. log \in Logs(Version)
  BY DEF Inv, TypeInv
<1>1. ASSUME UNCHANGED log PROVE \A n \in Names : stored(n)' = stored(n)
  BY <1>1 DEF stored
<1>2. CASE PatchStatus
  <2>1. CASE UNCHANGED log
    BY <1>1, <2>1
  <2>2. CASE Store(job.name, Patched) /\ job.current /\ Patched \in Object
    <3>1. job.name \in Names /\ Patched \in Version
      BY <1>2, <2>2, PatchFacts DEF Version
    <3>2. \A m \in Names : stored(m)' = IF m = job.name THEN Patched ELSE stored(m)
      BY <1>0, <2>2, <3>1, StoreEffect
    <3> QED
      BY <1>2, <2>2, <3>1, <3>2
  <2> QED
    BY <1>2, <2>1, <2>2, PatchFacts
<1>3. CASE \/ Get \/ GetBucket \/ CreateBucket \/ GetOwnerSecret \/ GetExisting
           \/ GetPermissions \/ UpdateBucket \/ GetConfigMap \/ WriteConfigMap
           \/ ListConfigMaps \/ DeleteConfigMaps
  <2>1. UNCHANGED log
    BY <1>3 DEF Get, GetBucket, CreateBucket, GetOwnerSecret, GetExisting,
                GetPermissions, UpdateBucket, GetConfigMap, WriteConfigMap,
                ListConfigMaps, DeleteConfigMaps
  <2> QED
    BY <1>1, <2>1
<1>4. CASE \/ Tamper \/ OwnershipChanges \/ UNCHANGED vars
           \/ \E c \in ConfigMapNames : CollectGarbage(c)
           \/ \E n \in Names : Dequeue(n)
  <2>1. UNCHANGED log
    BY <1>4 DEF Tamper, OwnershipChanges, vars, CollectGarbage, ConfigMapChanged,
                Dequeue
  <2> QED
    BY <1>1, <2>1
<1>5. ASSUME NEW n \in Names, Informer(n)
      PROVE  \A m \in Names : stored(m)' = stored(m)
  BY <1>0, <1>5, DeliverEffect DEF Informer
<1>6. CASE Crash
  BY <1>0, <1>6, KubeRelist DEF Crash
<1> QED
  BY <1>2, <1>3, <1>4, <1>5, <1>6 DEF Next, Step

\* What IDKept says of one step.
IDStep ==
  \A n \in Names :
    LET o == stored(n) IN
    (/\ o # NoObject /\ o.status.id # NoID
     /\ stored(n)' # NoObject /\ stored(n)'.uid = o.uid)
    => stored(n)'.status.id = o.status.id

LEMMA StepKeepsID ==
  ASSUME Inv, [Next]_vars
  PROVE  [IDStep]_vars
<1>1. SUFFICES ASSUME NEW n \in Names,
                      stored(n) # NoObject, stored(n).status.id # NoID,
                      stored(n)' # NoObject, stored(n)'.uid = stored(n).uid
               PROVE  stored(n)'.status.id = stored(n).status.id
  BY DEF IDStep
<1>2. CASE \A m \in Names : stored(m)' = stored(m)
  BY <1>1, <1>2
<1>3. CASE User
  <2>1. log \in Logs(Version) /\ EnvOK
    BY DEF Inv, TypeInv
  <2>2. PICK m \in Names, v \in Version :
          /\ UserWrites(m, v)
          /\ \/ stored(m) = NoObject
             \/ v.status = stored(m).status
             \/ v = NoObject
    BY <1>3, <2>1, UserFacts
  <2>3. \A k \in Names : stored(k)' = IF k = m THEN v ELSE stored(k)
    BY <2>1, <2>2, StoreEffect DEF UserWrites
  <2> QED
    BY <1>1, <2>2, <2>3
<1>4. CASE /\ PatchStatus /\ job.name \in Names /\ job.current
           /\ Patched \in Object
           /\ \A m \in Names :
                stored(m)' = IF m = job.name THEN Patched ELSE stored(m)
  <2>1. Patched.status.id = job.obj.status.id
    <3>1. UpdateBucketReadyCondition(job.obj).id = job.obj.status.id
      BY <1>4 DEF PatchStatus, At, Inv, TypeInv, JobOK, Path, Object, Status,
                  UpdateBucketReadyCondition
    <3>2. stored(job.name) \in Object
      <4>1. stored(job.name) # NoObject /\ log \in Logs(Version)
        BY <1>4 DEF Inv, CopyStored, PatchStatus, At, Path, TypeInv
      <4>2. stored(job.name) \in Version
        BY <1>4, <4>1, KubeLog
      <4> QED
        BY <4>1, <4>2 DEF Version
    <3> QED
      BY <3>1, <3>2 DEF Patched, Object
  <2>2. stored(job.name).status.id # NoID => job.obj.status.id = stored(job.name).status.id
    BY <1>4 DEF PatchStatus, At, Inv, CopyStored, FillsID, Path
  <2>3. CASE n = job.name
    BY <1>1, <1>4, <2>1, <2>2, <2>3
  <2>4. CASE n # job.name
    BY <1>4, <2>4
  <2> QED
    BY <2>3, <2>4
<1> QED
  BY <1>2, <1>3, <1>4, WhoStores

\* A Bucket's recorded ID stays for the life of the object, whatever is edited,
\* deleted in Garage, lost or restarted, with any number of Buckets.
THEOREM RecordedIDStays == Spec => IDKept
<1>1. Inv /\ [Next]_vars => [IDStep]_vars
  BY StepKeepsID
<1>2. Spec => [][IDStep]_vars
  BY <1>1, Invariant, PTL DEF Spec
<1> QED
  BY <1>2, PTL DEF IDKept, IDStep

\* What NoTakeover says of one step.
TakeoverStep ==
  Step => \A c \in ConfigMapNames :
    cms[c].exists /\ cms'[c].exists /\ cms'[c] # cms[c]
      => cms[c].owner = job.obj.uid

LEMMA StepTakesNothing ==
  ASSUME Inv, [Next]_vars
  PROVE  [TakeoverStep]_vars
<1>1. SUFFICES ASSUME Step, NEW c \in ConfigMapNames,
                      cms[c].exists, cms'[c].exists, cms'[c] # cms[c]
               PROVE  cms[c].owner = job.obj.uid
  BY DEF TakeoverStep
<1>2. /\ cms \in [ConfigMapNames -> ConfigMap] /\ JobOK
  BY DEF Inv, TypeInv, EnvOK
<1>3. WriteConfigMap \/ DeleteConfigMaps
  BY <1>1 DEF Step, Get, GetBucket, CreateBucket, GetOwnerSecret, GetExisting,
              GetPermissions, UpdateBucket, GetConfigMap, ListConfigMaps,
              PatchStatus
<1>4. CASE DeleteConfigMaps
  <2>1. PICK d \in job.stale : cms' \in {cms, [cms EXCEPT ![d] = NoConfigMap]}
    BY <1>4 DEF DeleteConfigMaps
  <2>2. cms'[c] \in {cms[c], NoConfigMap}
    BY <1>2, <2>1
  <2> QED
    BY <1>1, <2>2 DEF NoConfigMap
<1>5. CASE WriteConfigMap
  <2>1. /\ job.pc = "WriteConfigMap"
        /\ IF job.read.exists THEN job.readCurrent ELSE ~cms[job.obj.cm].exists
        /\ cms' = [cms EXCEPT ![job.obj.cm] =
                     [exists |-> TRUE, owner |-> job.obj.uid,
                      alias |-> job.obj.status.alias]]
    BY <1>1, <1>5 DEF WriteConfigMap, At
  <2>2. c = job.obj.cm
    BY <1>1, <1>2, <2>1
  <2>3. job.read.exists /\ job.readCurrent
    BY <1>1, <2>1, <2>2
  <2> QED
    BY <2>1, <2>2, <2>3 DEF Inv, ReadOwn
<1> QED
  BY <1>3, <1>4, <1>5

\* ensureConfigMap never takes over a ConfigMap that the Bucket does not
\* control, whoever creates, deletes or collects ConfigMaps meanwhile.
THEOREM NothingTakenOver == Spec => NoTakeover
<1>1. Inv /\ [Next]_vars => [TakeoverStep]_vars
  BY StepTakesNothing
<1>2. Spec => [][TakeoverStep]_vars
  BY <1>1, Invariant, PTL DEF Spec
<1> QED
  BY <1>2, PTL DEF NoTakeover, TakeoverStep

-----------------------------------------------------------------------------
(* What the worker's steps do to its copy, to Garage and to the ConfigMaps.  *)

LEMMA GetFacts ==
  ASSUME Inv, Get
  PROVE  /\ job.name \in Names /\ job.pc = "Get"
         /\ UNCHANGED <<log, buckets, nextID, cms, nextUID>>
         /\ \/ /\ cached(job.name) = NoObject /\ job' = Idle /\ UNCHANGED queue
            \/ /\ cached(job.name) \in Object /\ job'.obj = cached(job.name)
               /\ job'.name = job.name /\ job'.current = fresh(job.name)
               /\ job'.orig = cached(job.name).status
               /\ job'.pc = IF cached(job.name).existing
                            THEN "GetOwnerSecret" ELSE "GetBucket"
               /\ UNCHANGED queue
<1>1. /\ job.pc = "Get" /\ job.name \in Names /\ job \in Job
      /\ UNCHANGED <<log, buckets, nextID, cms, nextUID>>
      /\ log \in Logs(Version)
  BY DEF Get, At, Inv, TypeInv, JobOK, garage, env
<1>2. cached(job.name) \in Version
  BY <1>1, KubeLog
<1>3. CASE cached(job.name) = NoObject /\ Return(FALSE)
  BY <1>1, <1>3 DEF Return
<1>4. CASE /\ cached(job.name) # NoObject
           /\ job' = [job EXCEPT !.obj = cached(job.name),
                        !.orig = cached(job.name).status,
                        !.current = fresh(job.name),
                        !.pc = IF cached(job.name).existing
                               THEN "GetOwnerSecret" ELSE "GetBucket"]
           /\ UNCHANGED queue
  <2>1. cached(job.name) \in Object
    BY <1>2, <1>4 DEF Version
  <2> QED
    BY <1>1, <1>4, <2>1 DEF Job
<1> QED
  BY <1>3, <1>4 DEF Get

\* The buckets of Garage when the one that was found has the spec's quotas.
Requotaed ==
  {IF b.id = job.found.id THEN [b EXCEPT !.quota = Normal(job.obj.quota)] ELSE b
     : b \in buckets}

LEMMA UpdateBucketFacts ==
  ASSUME Inv, UpdateBucket
  PROVE  /\ Goes /\ job.pc = "UpdateBucket" /\ UNCHANGED <<nextID, cms>>
         /\ \/ /\ job'.pc = "GetConfigMap" /\ buckets' = Requotaed
               /\ job'.obj.status = [job.obj.status EXCEPT !.bucket = "True"]
            \/ /\ buckets' \in {buckets, Requotaed}
               /\ job'.pc = "PatchStatus"
               /\ job'.obj.status = [job.obj.status EXCEPT !.bucket = "False"]
<1>1. /\ job.pc = "UpdateBucket" /\ job.pc \in Path /\ TypeInv /\ job \in Job
      /\ job.obj \in Object /\ job.name \in Names /\ job.orig \in Status
      /\ UNCHANGED <<nextID, cms>>
  BY DEF UpdateBucket, At, Path, Inv, TypeInv, JobOK, garage, env
<1>2. CASE BucketNotReady
  <2>1. buckets' \in {buckets, Requotaed}
    BY DEF UpdateBucket, Requotaed
  <2> QED
    BY <1>1, <1>2, <2>1, NotReadyFacts
<1>3. CASE /\ job' = [job EXCEPT !.pc = "GetConfigMap", !.found = NoObject,
                                 !.obj.status.bucket = "True"]
           /\ buckets' = Requotaed
  <2> DEFINE st == [job.obj.status EXCEPT !.bucket = "True"]
             o == [job.obj EXCEPT !.status = st]
  <2>1. o \in Object /\ SameSpec(o, job.obj) /\ o.status = st
    BY <1>1 DEF Object, Status, SameSpec
  <2>2. job' = [job EXCEPT !.pc = "GetConfigMap", !.found = NoObject, !.obj = o]
    BY <1>1, <1>3 DEF Job, Object
  <2> HIDE DEF o
  <2>3. Goes /\ job'.pc = "GetConfigMap" /\ job'.obj = o
    BY <1>1, <2>1, <2>2 DEF Goes, JobOK, Job, Path
  <2> QED
    BY <1>1, <1>3, <2>1, <2>3
<1> QED
  BY <1>2, <1>3 DEF UpdateBucket, Requotaed

\* The ConfigMap the worker writes.
WrittenConfigMap ==
  [exists |-> TRUE, owner |-> job.obj.uid, alias |-> job.obj.status.alias]

LEMMA GetConfigMapFacts ==
  ASSUME Inv, GetConfigMap
  PROVE  /\ Goes /\ job.pc = "GetConfigMap" /\ UNCHANGED <<buckets, nextID, cms>>
         /\ \/ job'.pc = "WriteConfigMap" /\ job'.obj = job.obj
            \/ /\ job'.pc = "ListConfigMaps"
               /\ job'.obj.status = [job.obj.status EXCEPT !.cm = "True"]
               /\ cms[job.obj.cm] = WrittenConfigMap
            \/ /\ job'.pc = "PatchStatus"
               /\ \E r \in {"Failed", "Conflict"} :
                    job'.obj.status = [job.obj.status EXCEPT !.cm = r]
<1>1. /\ job.pc \in Path /\ job.pc = "GetConfigMap" /\ TypeInv /\ job \in Job
      /\ job.obj \in Object /\ job.name \in Names /\ job.orig \in Status
      /\ cms \in [ConfigMapNames -> ConfigMap]
      /\ UNCHANGED <<buckets, nextID, cms>>
  BY DEF GetConfigMap, At, Path, Inv, TypeInv, JobOK, EnvOK, garage, env
<1>2. cms[job.obj.cm] \in ConfigMap
  BY <1>1 DEF Object
<1>3. CASE job' = [job EXCEPT !.pc = "WriteConfigMap", !.read = cms[job.obj.cm],
                              !.readCurrent = TRUE]
  <2>1. /\ job'.pc = "WriteConfigMap" /\ job'.name = job.name
        /\ job'.orig = job.orig /\ job'.obj = job.obj
        /\ job'.current = job.current
    BY <1>1, <1>3 DEF Job
  <2>2. JobOK'
    BY <1>1, <1>2, <1>3, <2>1 DEF JobOK, Job
  <2> QED
    BY <1>1, <2>1, <2>2 DEF Goes, SameSpec
<1>4. CASE ConfigMapReady /\ cms[job.obj.cm].exists
             /\ ControlledBy(cms[job.obj.cm], job.obj)
             /\ cms[job.obj.cm].alias = job.obj.status.alias
  <2>1. cms[job.obj.cm] = WrittenConfigMap
    BY <1>2, <1>4, Zenon DEF WrittenConfigMap, ConfigMap, ControlledBy
  <2> QED
    BY <1>1, <1>4, <2>1, ConfigMapReadyFacts
<1>5. CASE \E r \in {"Failed", "Conflict"} : ConfigMapNotReady(r)
  BY <1>1, <1>5, ConfigMapNotReadyFacts
<1> QED
  BY <1>3, <1>4, <1>5 DEF GetConfigMap

LEMMA WriteConfigMapFacts ==
  ASSUME Inv, WriteConfigMap
  PROVE  /\ Goes /\ job.pc = "WriteConfigMap" /\ UNCHANGED <<buckets, nextID>>
         /\ \/ cms' = cms
            \/ /\ cms' = [cms EXCEPT ![job.obj.cm] = WrittenConfigMap]
               /\ cms[job.obj.cm].exists => cms[job.obj.cm].owner = job.obj.uid
         /\ \/ /\ job'.pc = "ListConfigMaps"
               /\ job'.obj.status = [job.obj.status EXCEPT !.cm = "True"]
               /\ cms' = [cms EXCEPT ![job.obj.cm] = WrittenConfigMap]
            \/ /\ job'.pc = "PatchStatus"
               /\ job'.obj.status = [job.obj.status EXCEPT !.cm = "Failed"]
<1>1. /\ job.pc \in Path /\ job.pc = "WriteConfigMap" /\ TypeInv
      /\ UNCHANGED <<buckets, nextID>>
  BY DEF WriteConfigMap, At, Path, Inv, TypeInv, garage
<1> DEFINE accepted == IF job.read.exists THEN job.readCurrent
                                          ELSE ~cms[job.obj.cm].exists
<1>2. accepted /\ cms[job.obj.cm].exists => cms[job.obj.cm].owner = job.obj.uid
  BY <1>1 DEF Inv, ReadOwn
<1>3. CASE /\ accepted /\ cms' = [cms EXCEPT ![job.obj.cm] = WrittenConfigMap]
           /\ ConfigMapReady
  BY <1>1, <1>2, <1>3, ConfigMapReadyFacts
<1>4. CASE /\ \/ cms' = cms
              \/ accepted /\ cms' = [cms EXCEPT ![job.obj.cm] = WrittenConfigMap]
           /\ ConfigMapNotReady("Failed")
  <2>1. /\ Goes /\ job'.pc = "PatchStatus"
        /\ job'.obj.status = [job.obj.status EXCEPT !.cm = "Failed"]
    BY <1>1, <1>4, ConfigMapNotReadyFacts
  <2> QED
    BY <1>1, <1>2, <1>4, <2>1
<1> QED
  BY <1>3, <1>4 DEF WriteConfigMap, WrittenConfigMap

\* Is c a ConfigMap that the Bucket with this UID controls?
Controls(c, uid) == cms[c].exists /\ cms[c].owner = uid

LEMMA ListFacts ==
  ASSUME Inv, ListConfigMaps
  PROVE  /\ Goes /\ job.pc = "ListConfigMaps" /\ UNCHANGED <<buckets, nextID, cms>>
         /\ job'.obj = job.obj /\ job'.pc \in {"DeleteConfigMaps", "PatchStatus"}
         /\ \/ job'.pc = "PatchStatus" /\ job'.again = TRUE
            \/ /\ job'.stale = {c \in ConfigMapNames \ {job.obj.cm} :
                                  Controls(c, job.obj.uid)}
               /\ job'.pc = "PatchStatus" => job'.stale = {}
<1>1. /\ job.pc \in Path /\ job.pc = "ListConfigMaps" /\ job \in Job
      /\ job.obj \in Object /\ job.name \in Names /\ job.orig \in Status
      /\ UNCHANGED <<buckets, nextID, cms>>
  BY DEF ListConfigMaps, At, Path, Inv, TypeInv, JobOK, garage
<1> DEFINE stale == {c \in ConfigMapNames \ {job.obj.cm} : Controls(c, job.obj.uid)}
<1>2. stale \subseteq ConfigMapNames /\ NoConfigMap \in ConfigMap
  BY DEF NoConfigMap, ConfigMap, Foreign, NoAlias
<1>3. \/ job' = [job EXCEPT !.stale = stale, !.read = NoConfigMap,
                            !.pc = IF stale = {} THEN "PatchStatus"
                                                 ELSE "DeleteConfigMaps"]
      \/ job' = [job EXCEPT !.pc = "PatchStatus", !.again = TRUE]
  BY DEF ListConfigMaps, Controls, ControlledBy
<1> HIDE DEF stale
<1>4. CASE job' = [job EXCEPT !.stale = stale, !.read = NoConfigMap,
                              !.pc = IF stale = {} THEN "PatchStatus"
                                                   ELSE "DeleteConfigMaps"]
  <2>1. Goes /\ job'.obj = job.obj
    BY <1>1, <1>2, <1>4 DEF Goes, JobOK, Job, SameSpec, Path
  <2>2. /\ job'.pc = IF stale = {} THEN "PatchStatus" ELSE "DeleteConfigMaps"
        /\ job'.stale = stale
    BY <1>1, <1>4 DEF Job
  <2> QED
    BY <1>1, <2>1, <2>2 DEF stale
<1>5. CASE job' = [job EXCEPT !.pc = "PatchStatus", !.again = TRUE]
  <2>1. Goes /\ job'.obj = job.obj
    BY <1>1, <1>5 DEF Goes, JobOK, Job, SameSpec, Path
  <2>2. job'.pc = "PatchStatus" /\ job'.again = TRUE
    BY <1>1, <1>5 DEF Job
  <2> QED
    BY <1>1, <2>1, <2>2
<1> QED
  BY <1>3, <1>4, <1>5

LEMMA DeleteFacts ==
  ASSUME Inv, DeleteConfigMaps
  PROVE  /\ Goes /\ job.pc = "DeleteConfigMaps" /\ UNCHANGED <<buckets, nextID>>
         /\ job'.obj = job.obj /\ job'.pc \in {"DeleteConfigMaps", "PatchStatus"}
         /\ \E c \in job.stale :
              /\ cms' \in {cms, [cms EXCEPT ![c] = NoConfigMap]}
              /\ \/ job'.pc = "PatchStatus" /\ job'.again = TRUE
                 \/ /\ cms' = [cms EXCEPT ![c] = NoConfigMap]
                    /\ job'.stale = job.stale \ {c}
                    /\ job'.pc = "PatchStatus" => job'.stale = {}
<1>1. /\ job.pc \in Path /\ job.pc = "DeleteConfigMaps" /\ job \in Job
      /\ job.obj \in Object /\ job.name \in Names /\ job.orig \in Status
      /\ UNCHANGED <<buckets, nextID>>
  BY DEF DeleteConfigMaps, At, Path, Inv, TypeInv, JobOK, garage
<1>2. PICK c \in job.stale :
        /\ cms' \in {cms, [cms EXCEPT ![c] = NoConfigMap]}
        /\ \/ /\ cms' = [cms EXCEPT ![c] = NoConfigMap]
              /\ job' = [job EXCEPT !.stale = job.stale \ {c},
                        !.pc = IF job.stale \ {c} = {} THEN "PatchStatus" ELSE @]
           \/ job' = [job EXCEPT !.stale = {}, !.again = TRUE,
                                 !.pc = "PatchStatus"]
  BY DEF DeleteConfigMaps
<1>3. job.stale \ {c} \in SUBSET ConfigMapNames
  BY <1>1 DEF Job
<1>4. CASE /\ cms' = [cms EXCEPT ![c] = NoConfigMap]
           /\ job' = [job EXCEPT !.stale = job.stale \ {c},
                        !.pc = IF job.stale \ {c} = {} THEN "PatchStatus" ELSE @]
  <2>1. Goes /\ job'.obj = job.obj
    BY <1>1, <1>3, <1>4 DEF Goes, JobOK, Job, SameSpec, Path
  <2>2. /\ job'.pc = IF job.stale \ {c} = {} THEN "PatchStatus" ELSE "DeleteConfigMaps"
        /\ job'.stale = job.stale \ {c}
    BY <1>1, <1>4 DEF Job
  <2> QED
    BY <1>1, <1>4, <2>1, <2>2
<1>5. CASE job' = [job EXCEPT !.stale = {}, !.again = TRUE, !.pc = "PatchStatus"]
  <2>1. Goes /\ job'.obj = job.obj
    BY <1>1, <1>5 DEF Goes, JobOK, Job, SameSpec, Path
  <2>2. job'.pc = "PatchStatus" /\ job'.again = TRUE
    BY <1>1, <1>5 DEF Job
  <2> QED
    BY <1>1, <1>2, <2>1, <2>2
<1> QED
  BY <1>2, <1>4, <1>5

\* reconcileBucket before the quotas: bucket b is resolved, or one is looked
\* for or created, or it failed.
FindStep ==
  \/ GetBucket \/ CreateBucket \/ GetOwnerSecret \/ GetExisting \/ GetPermissions

LEMMA FindFacts ==
  ASSUME Inv, FindStep
  PROVE  /\ Goes /\ job.pc \in Path /\ UNCHANGED cms
         /\ job'.pc \in {"CreateBucket", "GetExisting", "GetPermissions",
                         "UpdateBucket", "GetConfigMap", "PatchStatus"}
         /\ job'.pc = "PatchStatus" => job'.obj.status.bucket = "False"
<1>1. /\ job.pc \in Path /\ TypeInv /\ EnvOK /\ job \in Job
      /\ job.obj \in Object /\ job.name \in Names /\ job.orig \in Status
      /\ UNCHANGED cms
  BY DEF FindStep, GetBucket, CreateBucket, GetOwnerSecret, GetExisting,
         GetPermissions, At, Path, Inv, TypeInv, JobOK, env
<1>2. CASE BucketNotReady
  <2>1. /\ Goes /\ job'.pc = "PatchStatus"
        /\ job'.obj.status = [job.obj.status EXCEPT !.bucket = "False"]
    BY <1>1, <1>2, NotReadyFacts
  <2> QED
    BY <1>1, <2>1 DEF Object, Status
<1>3. ASSUME NEW b \in GarageBucket, Resolved(b)
      PROVE  Goes /\ job'.pc \in {"UpdateBucket", "GetConfigMap"}
  BY <1>1, <1>3, ResolvedFacts
<1>4. CASE GetBucket
  <2>1. CASE Goto("CreateBucket")
    BY <1>1, <2>1, GotoFacts DEF Path
  <2>2. CASE \E b \in BucketWithAlias(SuffixedResourceName(job.obj.uid)) : Resolved(b)
    BY <1>1, <1>3, <2>2 DEF BucketWithAlias, EnvOK
  <2> QED
    BY <1>2, <1>4, <2>1, <2>2 DEF GetBucket
<1>5. CASE CreateBucket
  <2> DEFINE b == [id |-> nextID, quota |-> 0,
                   alias |-> SuffixedResourceName(job.obj.uid)]
  <2>1. b \in GarageBucket
    BY <1>1 DEF EnvOK, GarageBucket, Object, SuffixedResourceName
  <2>2. Resolved(b) \/ BucketNotReady
    BY <1>5 DEF CreateBucket
  <2> QED
    BY <1>1, <1>2, <1>3, <2>1, <2>2
<1>6. CASE GetOwnerSecret
  <2>1. CASE Goto("GetExisting")
    BY <1>1, <2>1, GotoFacts DEF Path
  <2> QED
    BY <1>2, <1>6, <2>1 DEF GetOwnerSecret
<1>7. CASE GetExisting
  <2>1. ASSUME NEW b \in BucketWithAlias(Imported),
               job' = [job EXCEPT !.pc = "GetPermissions", !.found = b]
        PROVE  /\ Goes /\ job'.pc = "GetPermissions"
    <3>1. b \in GarageBucket
      BY <1>1, <2>1 DEF BucketWithAlias, EnvOK
    <3> QED
      BY <1>1, <2>1, <3>1 DEF Goes, JobOK, Job, SameSpec, Path
  <2> QED
    BY <1>1, <1>2, <1>7, <2>1 DEF GetExisting
<1>8. CASE GetPermissions
  <2>1. job.found \in GarageBucket
    BY <1>1, <1>8 DEF GetPermissions, At, TypeInv, JobOK
  <2> QED
    BY <1>1, <1>2, <1>3, <1>8, <2>1 DEF GetPermissions
<1> QED
  BY <1>4, <1>5, <1>6, <1>7, <1>8 DEF FindStep

\* The middle of Reconcile.
MiddleStep ==
  \/ FindStep \/ UpdateBucket \/ GetConfigMap \/ WriteConfigMap
  \/ ListConfigMaps \/ DeleteConfigMaps

LEMMA MiddleFacts ==
  ASSUME Inv, MiddleStep
  PROVE  /\ Goes /\ job.pc \in Path /\ job.name \in Names /\ job'.pc \in Path
         /\ UNCHANGED <<log, queue, nextUID>>
<1>1. Goes /\ job.pc \in Path /\ job'.pc \in Path
  BY FindFacts, UpdateBucketFacts, GetConfigMapFacts, WriteConfigMapFacts,
     ListFacts, DeleteFacts DEF MiddleStep, Path
<1>2. job.name \in Names
  BY <1>1 DEF Inv, TypeInv, JobOK, Path
<1>3. UNCHANGED <<log, queue, nextUID>>
  BY DEF MiddleStep, FindStep, GetBucket, CreateBucket, GetOwnerSecret, GetExisting,
         GetPermissions, UpdateBucket, GetConfigMap, WriteConfigMap,
         ListConfigMaps, DeleteConfigMaps, env
<1> QED
  BY <1>1, <1>2, <1>3

\* The last step of a reconcile.
LEMMA PatchEnds ==
  ASSUME Inv, PatchStatus
  PROVE  /\ job' = Idle /\ job.pc = "PatchStatus" /\ job.name \in Names
         /\ queue \subseteq queue' /\ UNCHANGED <<buckets, nextID, cms, nextUID>>
         /\ \/ /\ UNCHANGED log
               /\ \/ job.name \in queue'
                  \/ ~job.again /\ UpdateBucketReadyCondition(job.obj) = job.orig
                  \/ ~job.current
            \/ /\ Store(job.name, Patched) /\ Patched \in Object /\ job.current
               /\ UpdateBucketReadyCondition(job.obj) # job.orig
<1>1. /\ job.pc = "PatchStatus" /\ job.name \in Names /\ job \in Job
      /\ UNCHANGED <<buckets, nextID, cms, nextUID>>
  BY PatchFacts DEF Inv, TypeInv, JobOK
<1>2. job.again \in BOOLEAN
  BY <1>1 DEF Job
<1>3. job' = Idle /\ queue \subseteq queue'
  BY DEF PatchStatus, Return
<1>4. \/ /\ UNCHANGED log
         /\ \/ /\ UpdateBucketReadyCondition(job.obj) = job.orig
               /\ Return(job.again)
            \/ ~job.current
            \/ Return(TRUE)
      \/ /\ Store(job.name, Patched) /\ job.current
         /\ UpdateBucketReadyCondition(job.obj) # job.orig
  BY DEF PatchStatus, Patched, OptimisticLock
<1>5. job.current => Patched \in Object
  <2> SUFFICES ASSUME job.current PROVE Patched \in Object
    OBVIOUS
  <2>1. stored(job.name) \in Object
    <3>1. stored(job.name) # NoObject
      BY <1>1 DEF Inv, CopyStored, Path
    <3>2. stored(job.name) \in Version
      BY <1>1, KubeLog DEF Inv, TypeInv
    <3> QED
      BY <3>1, <3>2 DEF Version
  <2>2. job.obj \in Object
    BY <1>1 DEF Inv, TypeInv, JobOK, Path
  <2>3. UpdateBucketReadyCondition(job.obj) \in Status
    BY <2>2 DEF UpdateBucketReadyCondition, Object, Status
  <2> QED
    BY <2>1, <2>3 DEF Patched, Object
<1> QED
  BY <1>1, <1>2, <1>3, <1>4, <1>5 DEF Return

\* The worker's copy was read from the cache, and keeps its spec.
LEMMA JobCopy ==
  ASSUME Inv, [Next]_vars, job'.pc \in Path
  PROVE  /\ job'.name = job.name /\ job.name \in Names
         /\ \/ /\ job.pc \in Path /\ SameSpec(job'.obj, job.obj)
            \/ Get /\ job'.obj = cached(job.name) /\ cached(job.name) \in Object
<1>1. job \in Job /\ (job.pc \in Path => job.name \in Names)
  BY DEF Inv, TypeInv, JobOK, Path
<1>2. CASE Get
  BY <1>2, GetFacts DEF Idle, Path
<1>3. CASE MiddleStep
  BY <1>3, MiddleFacts DEF Goes
<1>4. CASE PatchStatus
  BY <1>4, PatchEnds DEF Idle, Path
<1>5. CASE (\E n \in Names : Dequeue(n)) \/ Crash
  <2>1. job'.pc \in {"Get", "idle"}
    <3>1. \A n \in Names : Dequeue(n) => job'.pc = "Get"
      BY DEF Dequeue, Idle
    <3>2. Crash => job'.pc = "idle"
      BY DEF Crash, Idle
    <3> QED
      BY <1>5, <3>1, <3>2
  <2> QED
    BY <2>1 DEF Path
<1>6. ASSUME job'.pc = job.pc, job'.obj = job.obj, job'.name = job.name
      PROVE  job'.name = job.name /\ job.name \in Names /\ job.pc \in Path
             /\ SameSpec(job'.obj, job.obj)
  BY <1>1, <1>6 DEF SameSpec
<1>7. CASE UNCHANGED job
  BY <1>6, <1>7
<1>8. ASSUME NEW x, job' = [job EXCEPT !.current = x] \/ job' = [job EXCEPT !.readCurrent = x]
      PROVE  job'.pc = job.pc /\ job'.obj = job.obj /\ job'.name = job.name
  BY <1>1, <1>8 DEF Job
<1>9. CASE User
  <2>1. ASSUME NEW n, NEW v, UserWrites(n, v)
        PROVE  job'.pc = job.pc /\ job'.obj = job.obj /\ job'.name = job.name
    BY <1>8, <2>1 DEF UserWrites
  <2>2. \E n, v : UserWrites(n, v)
    BY <1>9 DEF User, UserCreates, UserEdits, UserDeletes
  <2> QED
    BY <1>6, <2>1, <2>2
<1>10. CASE Tamper \/ (\E c \in ConfigMapNames : CollectGarbage(c))
  <2>1. (\E x : job' = [job EXCEPT !.readCurrent = x]) \/ UNCHANGED job
    BY <1>10 DEF Tamper, CollectGarbage, ConfigMapChanged
  <2> QED
    BY <1>6, <1>8, <2>1
<1>11. CASE OwnershipChanges \/ (\E n \in Names : Informer(n)) \/ UNCHANGED vars
  BY <1>7, <1>11 DEF OwnershipChanges, Informer, vars
<1> QED
  BY <1>2, <1>3, <1>4, <1>5, <1>9, <1>10, <1>11 DEF Next, Step, MiddleStep, FindStep

\* A version in a log was there before or is the stored one.
LEMMA LogChange ==
  ASSUME Inv, [Next]_vars, NEW n \in Names, NEW i \in Index(n)'
  PROVE  \/ \E j \in Index(n) : log'[n][i] = log[n][j]
         \/ log'[n][i] = stored(n)'
<1>1. log \in Logs(Version)
  BY DEF Inv, TypeInv
<1>2. CASE UNCHANGED log
  BY <1>2 DEF Index
<1>3. ASSUME NEW m \in Names, NEW v \in Version, Store(m, v)
      PROVE  \/ \E j \in Index(n) : log'[n][i] = log[n][j]
             \/ log'[n][i] = stored(n)'
  <2>1. /\ stored(m)' = v
        /\ \A x \in Names \ {m} : log'[x] = log[x]
        /\ \A j \in Index(m) : log'[m][j] = log[m][j]
        /\ \A j \in Index(m)' \ Index(m) : log'[m][j] = v
    BY <1>1, <1>3, KubeStore
  <2>2. CASE n = m
    BY <2>1, <2>2
  <2>3. CASE n # m
    BY <2>1, <2>3 DEF Index
  <2> QED
    BY <2>2, <2>3
<1>4. ASSUME NEW m \in Names, Informer(m)
      PROVE  \E j \in Index(n) : log'[n][i] = log[n][j]
  <2>1. /\ \A x \in Names \ {m} : log'[x] = log[x]
        /\ \A j \in Index(m)' : j + 1 \in Index(m) /\ log'[m][j] = log[m][j + 1]
    BY <1>1, <1>4, KubeDeliver DEF Informer
  <2> QED
    BY <2>1 DEF Index
<1>5. CASE Crash
  <2>1. Len(log'[n]) = 1 /\ log'[n][1] = stored(n) /\ stored(n)' = stored(n)
    BY <1>1, <1>5, KubeRelist DEF Crash
  <2> QED
    BY <2>1 DEF Index
<1>6. CASE User
  <2>1. \E m \in Names, v \in Version : Store(m, v)
    BY <1>1, <1>6, UserFacts DEF Inv, TypeInv, UserWrites
  <2> QED
    BY <1>3, <2>1
<1>7. CASE PatchStatus
  BY <1>2, <1>3, <1>7, PatchEnds DEF Version
<1>8. CASE Get \/ MiddleStep
  BY <1>2, <1>8, GetFacts, MiddleFacts
<1>9. CASE \/ Tamper \/ OwnershipChanges \/ UNCHANGED vars
           \/ \E c \in ConfigMapNames : CollectGarbage(c)
           \/ \E m \in Names : Dequeue(m)
  <2>1. UNCHANGED log
    BY <1>9 DEF Tamper, OwnershipChanges, vars, CollectGarbage, ConfigMapChanged,
                Dequeue
  <2> QED
    BY <1>2, <2>1
<1> QED
  BY <1>4, <1>5, <1>6, <1>7, <1>8, <1>9 DEF Next, Step, MiddleStep, FindStep

\* What is not a step of the worker.
World ==
  \/ \E n \in Names : Dequeue(n) \/ Informer(n)
  \/ User \/ Tamper \/ OwnershipChanges \/ Crash \/ UNCHANGED vars
  \/ \E c \in ConfigMapNames : CollectGarbage(c)

LEMMA NextParts ==
  ASSUME [Next]_vars
  PROVE  Get \/ MiddleStep \/ PatchStatus \/ World
BY DEF Next, Step, MiddleStep, FindStep, World

\* A user's write: a new Bucket, an edit or a deletion.
Edited(n, v) ==
  /\ UserWrites(n, v) /\ v # stored(n)
  /\ \/ /\ stored(n) = NoObject /\ v \in Object /\ nextUID' = nextUID + 1
        /\ v.uid = nextUID /\ v.gen = 1 /\ v.status = NewStatus
        /\ v.existing => "import" \in Changes
     \/ /\ stored(n) \in Object /\ v \in Object /\ nextUID' = nextUID
        /\ v.uid = stored(n).uid /\ v.gen = stored(n).gen + 1
        /\ v.status = stored(n).status
        /\ v.existing # stored(n).existing => "switch" \in Changes
     \/ v = NoObject /\ nextUID' = nextUID

LEMMA UserEdited ==
  ASSUME Inv, User
  PROVE  \E n \in Names, v \in Version :
           /\ Edited(n, v) /\ Store(n, v) /\ ~fresh(n)'
           /\ \A m \in Names : /\ stored(m)' = IF m = n THEN v ELSE stored(m)
                               /\ fresh(m)' => fresh(m)
           /\ UNCHANGED <<queue, buckets, nextID, cms>>
           /\ job'.pc = job.pc /\ job'.name = job.name /\ job'.obj = job.obj
           /\ job'.again = job.again /\ job'.stale = job.stale
           /\ job'.found = job.found
           /\ job'.current = (job.current /\ n # job.name)
<1>1. log \in Logs(Version) /\ EnvOK /\ job \in Job
  BY DEF Inv, TypeInv, JobOK
<1>2. PICK n \in Names, v \in Version : Edited(n, v)
  BY <1>1, UserFacts DEF Edited
<1>3. Store(n, v) /\ v # stored(n) /\ UNCHANGED <<queue, buckets, nextID, cms>>
  BY <1>2 DEF Edited, UserWrites, garage
<1>4. /\ \A m \in Names : /\ stored(m)' = IF m = n THEN v ELSE stored(m)
                          /\ fresh(m)' => fresh(m)
      /\ ~fresh(n)'
  BY <1>1, <1>3, StoreEffect
<1>5. job' = [job EXCEPT !.current = @ /\ n # job.name]
  BY <1>2 DEF Edited, UserWrites
<1>6. /\ job'.pc = job.pc /\ job'.name = job.name /\ job'.obj = job.obj
      /\ job'.again = job.again /\ job'.stale = job.stale
      /\ job'.found = job.found
      /\ job'.current = (job.current /\ n # job.name)
  BY <1>1, <1>5 DEF Job
<1> QED
  BY <1>2, <1>3, <1>4, <1>6

\* What others do to ConfigMaps: none gets a Bucket for its controller.
LEMMA OthersFacts ==
  ASSUME Inv,
         \/ Tamper \/ OwnershipChanges \/ UNCHANGED vars
         \/ \E c \in ConfigMapNames : CollectGarbage(c)
  PROVE  /\ UNCHANGED <<log, queue, nextUID>>
         /\ job'.pc = job.pc /\ job'.name = job.name /\ job'.obj = job.obj
         /\ job'.again = job.again /\ job'.stale = job.stale
         /\ job'.found = job.found /\ job'.current = job.current
         /\ \A c \in ConfigMapNames :
              \/ cms'[c] = cms[c]
              \/ ~cms'[c].exists /\ "deleteConfigMap" \in Changes
              \/ /\ ~cms[c].exists /\ cms'[c].owner = Foreign
              \/ /\ ~cms'[c].exists
                 /\ \A n \in Names :
                      stored(n) # NoObject => stored(n).uid # cms[c].owner
<1>1. job \in Job /\ cms \in [ConfigMapNames -> ConfigMap]
  BY DEF Inv, TypeInv, EnvOK, JobOK
<1>2. ASSUME NEW c \in ConfigMapNames, NEW v, ConfigMapChanged(c, v)
      PROVE  /\ UNCHANGED <<log, queue, nextUID>>
             /\ job'.pc = job.pc /\ job'.name = job.name /\ job'.obj = job.obj
             /\ job'.again = job.again /\ job'.stale = job.stale
             /\ job'.found = job.found /\ job'.current = job.current
             /\ cms'[c] = v
             /\ \A x \in ConfigMapNames \ {c} : cms'[x] = cms[x]
  <2>1. /\ UNCHANGED <<log, queue, nextUID>>
        /\ cms' = [cms EXCEPT ![c] = v]
        /\ job' = [job EXCEPT !.readCurrent = @ /\ c # job.obj.cm]
    BY <1>2 DEF ConfigMapChanged
  <2>2. /\ job'.pc = job.pc /\ job'.name = job.name /\ job'.obj = job.obj
        /\ job'.again = job.again /\ job'.stale = job.stale
        /\ job'.found = job.found /\ job'.current = job.current
    BY <1>1, <2>1 DEF Job
  <2> QED
    BY <1>1, <2>1, <2>2
<1>3. /\ ~NoConfigMap.exists /\ NoConfigMap.owner = Foreign
      /\ [NoConfigMap EXCEPT !.exists = TRUE].owner = Foreign
  BY DEF NoConfigMap
<1>4. CASE UNCHANGED <<log, queue, nextUID, job, cms>>
  BY <1>4
<1>5. ASSUME NEW c \in ConfigMapNames, CollectGarbage(c)
      PROVE  /\ ConfigMapChanged(c, NoConfigMap)
             /\ \A n \in Names :
                  stored(n) # NoObject => stored(n).uid # cms[c].owner
  BY <1>5 DEF CollectGarbage
<1>6. CASE Tamper
  <2>1. \/ \E c \in ConfigMapNames :
             ~cms[c].exists /\ ConfigMapChanged(c, [NoConfigMap EXCEPT !.exists = TRUE])
        \/ \E c \in ConfigMapNames :
             "deleteConfigMap" \in Changes /\ ConfigMapChanged(c, NoConfigMap)
        \/ UNCHANGED <<log, queue, nextUID, job, cms>>
    BY <1>6 DEF Tamper
  <2>2. ASSUME NEW c \in ConfigMapNames, ~cms[c].exists,
               ConfigMapChanged(c, [NoConfigMap EXCEPT !.exists = TRUE])
        PROVE  \A x \in ConfigMapNames :
                 cms'[x] = cms[x] \/ (~cms[x].exists /\ cms'[x].owner = Foreign)
    <3>1. PICK v : v = [NoConfigMap EXCEPT !.exists = TRUE]
      OBVIOUS
    <3>2. /\ cms'[c] = v /\ v.owner = Foreign
          /\ \A x \in ConfigMapNames \ {c} : cms'[x] = cms[x]
      BY <1>2, <1>3, <2>2, <3>1
    <3> QED
      BY <2>2, <3>2
  <2>3. ASSUME NEW c \in ConfigMapNames, ConfigMapChanged(c, NoConfigMap)
        PROVE  \A x \in ConfigMapNames : cms'[x] = cms[x] \/ ~cms'[x].exists
    BY <1>2, <1>3, <2>3
  <2>4. CASE \E c \in ConfigMapNames, v \in {NoConfigMap, [NoConfigMap EXCEPT !.exists = TRUE]} :
               ConfigMapChanged(c, v)
    <3>1. /\ UNCHANGED <<log, queue, nextUID>>
          /\ job'.pc = job.pc /\ job'.name = job.name /\ job'.obj = job.obj
          /\ job'.again = job.again /\ job'.stale = job.stale
          /\ job'.found = job.found /\ job'.current = job.current
      BY <1>2, <2>4
    <3>2. \/ \A x \in ConfigMapNames :
               cms'[x] = cms[x] \/ (~cms[x].exists /\ cms'[x].owner = Foreign)
          \/ /\ "deleteConfigMap" \in Changes
             /\ \A x \in ConfigMapNames : cms'[x] = cms[x] \/ ~cms'[x].exists
          \/ UNCHANGED <<log, queue, nextUID, job, cms>>
      BY <2>1, <2>2, <2>3
    <3> QED
      BY <3>1, <3>2
  <2> QED
    BY <1>4, <2>1, <2>4
<1> QED
  BY <1>2, <1>3, <1>4, <1>5, <1>6 DEF OwnershipChanges, vars, env

\* The queue, the informer and a restart: no version and no ConfigMap changes.
Delivery == (\E n \in Names : Dequeue(n) \/ Informer(n)) \/ Crash

LEMMA DeliveryFacts ==
  ASSUME Inv, Delivery
  PROVE  /\ UNCHANGED <<buckets, nextID, cms, nextUID>>
         /\ \A n \in Names : stored(n)' = stored(n)
         /\ job' = job \/ job'.pc \in {"Get", "idle"}
<1>1. log \in Logs(Version)
  BY DEF Inv, TypeInv
<1>2. ASSUME NEW m \in Names, Dequeue(m)
      PROVE  UNCHANGED log /\ job'.pc = "Get"
  BY <1>2 DEF Dequeue, Idle
<1>3. ASSUME NEW m \in Names, Informer(m)
      PROVE  job' = job /\ \A n \in Names : stored(n)' = stored(n)
  BY <1>1, <1>3, DeliverEffect DEF Informer
<1>4. CASE Crash
  BY <1>1, <1>4, KubeRelist DEF Crash, garage, env, Idle
<1>5. UNCHANGED <<buckets, nextID, cms, nextUID>>
  BY DEF Delivery, Dequeue, Informer, Crash, garage, env
<1> QED
  BY <1>2, <1>3, <1>4, <1>5 DEF Delivery, stored

LEMMA WorldParts ==
  World <=> \/ Delivery \/ User
            \/ Tamper \/ OwnershipChanges \/ UNCHANGED vars
            \/ \E c \in ConfigMapNames : CollectGarbage(c)
BY DEF World, Delivery

\* How any step changes what is stored.
LEMMA StoredChange ==
  ASSUME Inv, [Next]_vars
  PROVE  \/ /\ nextUID' = nextUID /\ \A n \in Names : stored(n)' = stored(n)
         \/ \E n \in Names, v \in Version :
              /\ Edited(n, v) /\ User
              /\ \A m \in Names : stored(m)' = IF m = n THEN v ELSE stored(m)
         \/ /\ nextUID' = nextUID /\ PatchStatus /\ job.current
            /\ Patched \in Object /\ stored(job.name) \in Object
            /\ SameSpec(Patched, stored(job.name)) /\ SameSpec(Patched, job.obj)
            /\ Patched.status = UpdateBucketReadyCondition(job.obj)
            /\ \A m \in Names :
                 stored(m)' = IF m = job.name THEN Patched ELSE stored(m)
<1>1. log \in Logs(Version)
  BY DEF Inv, TypeInv
<1>2. CASE Get \/ MiddleStep
  BY <1>2, GetFacts, MiddleFacts DEF stored
<1>3. CASE PatchStatus
  <2>1. nextUID' = nextUID /\ job.name \in Names /\ job.pc = "PatchStatus"
    BY <1>3, PatchEnds
  <2>2. CASE UNCHANGED log
    BY <2>1, <2>2 DEF stored
  <2>3. CASE Store(job.name, Patched) /\ job.current /\ Patched \in Object
    <3>1. /\ stored(job.name) # NoObject /\ stored(job.name) \in Version
          /\ SameSpec(stored(job.name), job.obj)
      BY <1>1, <2>1, <2>3, KubeLog DEF Inv, CopyStored, Path
    <3>2. stored(job.name) \in Object
      BY <3>1 DEF Version
    <3>3. /\ SameSpec(Patched, stored(job.name))
          /\ Patched.status = UpdateBucketReadyCondition(job.obj)
      BY <3>2 DEF Patched, SameSpec, Object
    <3>4. SameSpec(Patched, job.obj)
      BY <3>1, <3>3 DEF SameSpec
    <3>5. \A m \in Names : stored(m)' = IF m = job.name THEN Patched ELSE stored(m)
      BY <1>1, <2>1, <2>3, StoreEffect DEF Version
    <3> QED
      BY <1>3, <2>1, <2>3, <3>2, <3>3, <3>4, <3>5
  <2> QED
    BY <1>3, <2>2, <2>3, PatchEnds
<1>4. CASE User
  BY <1>4, UserEdited
<1>5. CASE Delivery
  BY <1>5, DeliveryFacts
<1>6. CASE \/ Tamper \/ OwnershipChanges \/ UNCHANGED vars
           \/ \E c \in ConfigMapNames : CollectGarbage(c)
  BY <1>6, OthersFacts DEF stored
<1> QED
  BY <1>2, <1>3, <1>4, <1>5, <1>6, NextParts, WorldParts

-----------------------------------------------------------------------------
(* The UIDs of the Buckets are apart.                                       *)

\* Is it the UID of a Bucket called n, now or in the past?
UIDOf(n, uid) ==
  /\ uid # Foreign /\ uid < nextUID
  /\ \A m \in Names : stored(m) \in Object /\ stored(m).uid = uid => m = n

UIDsApart ==
  /\ \A n \in Names : \A i \in Index(n) :
       log[n][i] \in Object => UIDOf(n, log[n][i].uid)
  /\ job.pc \in Path => UIDOf(job.name, job.obj.uid)

LEMMA UIDStays ==
  ASSUME Inv, [Next]_vars, NEW n \in Names, NEW uid \in Nat, UIDOf(n, uid)
  PROVE  UIDOf(n, uid)'
<1>1. nextUID \in Nat
  BY DEF Inv, TypeInv, EnvOK
<1>2. CASE nextUID' = nextUID /\ \A m \in Names : stored(m)' = stored(m)
  BY <1>2 DEF UIDOf
<1>3. ASSUME NEW k \in Names, NEW v \in Version, Edited(k, v),
             \A m \in Names : stored(m)' = IF m = k THEN v ELSE stored(m)
      PROVE  UIDOf(n, uid)'
  <2>1. uid < nextUID'
    BY <1>1, <1>3 DEF Edited, UIDOf
  <2>2. v \in Object /\ v.uid = uid => k = n
    BY <1>1, <1>3, NoObjectAssumption DEF Edited, UIDOf, NoObjectAssumption
  <2> QED
    BY <1>3, <2>1, <2>2 DEF UIDOf
<1>4. CASE /\ nextUID' = nextUID
           /\ stored(job.name) \in Object /\ SameSpec(Patched, stored(job.name))
           /\ \A m \in Names :
                stored(m)' = IF m = job.name THEN Patched ELSE stored(m)
  BY <1>4 DEF UIDOf, SameSpec
<1> QED
  BY <1>2, <1>3, <1>4, StoredChange

\* A UID is handed out once.
LEMMA NewUID ==
  ASSUME Inv, UIDsApart, [Next]_vars, NEW n \in Names, stored(n)' \in Object
  PROVE  \/ stored(n) \in Object /\ stored(n)'.uid = stored(n).uid
         \/ stored(n)'.uid = nextUID /\ \A uid : uid = nextUID => UIDOf(n, uid)'
<1>1. nextUID \in Nat \ {0} /\ log \in Logs(Version)
  BY DEF Inv, TypeInv, EnvOK
<1>2. \A m \in Names : stored(m) \in Object => stored(m).uid < nextUID
  BY <1>1, KubeLog DEF UIDsApart, UIDOf, stored
<1>3. CASE \A m \in Names : stored(m)' = stored(m)
  BY <1>3
<1>4. ASSUME NEW k \in Names, NEW v \in Version, Edited(k, v),
             \A m \in Names : stored(m)' = IF m = k THEN v ELSE stored(m)
      PROVE  \/ stored(n) \in Object /\ stored(n)'.uid = stored(n).uid
             \/ stored(n)'.uid = nextUID /\ \A uid : uid = nextUID => UIDOf(n, uid)'
  <2>1. CASE n # k
    BY <1>4, <2>1
  <2>2. CASE n = k /\ stored(n) \in Object
    BY <1>4, <2>2, NoObjectAssumption DEF Edited, NoObjectAssumption
  <2>3. CASE n = k /\ stored(n) \notin Object
    <3>1. v.uid = nextUID /\ nextUID' = nextUID + 1
      BY <1>4, <2>3, NoObjectAssumption DEF Edited, NoObjectAssumption
    <3>2. \A uid : uid = nextUID =>
            /\ uid # Foreign /\ uid < nextUID'
            /\ \A m \in Names : stored(m)' \in Object /\ stored(m)'.uid = uid => m = n
      BY <1>1, <1>2, <1>4, <2>3, <3>1 DEF Foreign
    <3> QED
      BY <1>4, <2>3, <3>1, <3>2 DEF UIDOf
  <2> QED
    BY <2>1, <2>2, <2>3
<1>5. CASE /\ stored(job.name) \in Object /\ SameSpec(Patched, stored(job.name))
           /\ \A m \in Names :
                stored(m)' = IF m = job.name THEN Patched ELSE stored(m)
  BY <1>5 DEF SameSpec
<1> QED
  BY <1>3, <1>4, <1>5, StoredChange

LEMMA UIDsNext == Inv /\ UIDsApart /\ [Next]_vars => UIDsApart'
<1> SUFFICES ASSUME Inv, UIDsApart, [Next]_vars PROVE UIDsApart'
  OBVIOUS
<1>1. log \in Logs(Version) /\ nextUID \in Nat
  BY DEF Inv, TypeInv, EnvOK
<1>2. \A o \in Object : o.uid \in Nat
  BY DEF Object
<1>3. \A n \in Names : stored(n) \in Object => UIDOf(n, stored(n).uid)
  BY <1>1, KubeLog DEF UIDsApart, stored
<1>4. ASSUME NEW n \in Names, NEW i \in Index(n)', log'[n][i] \in Object,
             NEW uid \in Nat, uid = log'[n][i].uid
      PROVE  UIDOf(n, uid)'
  <2>1. CASE \E j \in Index(n) : log'[n][i] = log[n][j]
    BY <1>4, <2>1, UIDStays DEF UIDsApart
  <2>2. CASE log'[n][i] = stored(n)'
    <3>1. CASE stored(n) \in Object /\ stored(n)'.uid = stored(n).uid
      BY <1>3, <1>4, <2>2, <3>1, UIDStays
    <3>2. CASE stored(n)'.uid = nextUID /\ \A u : u = nextUID => UIDOf(n, u)'
      BY <1>4, <2>2, <3>2
    <3> QED
      BY <1>4, <2>2, <3>1, <3>2, NewUID
  <2> QED
    BY <2>1, <2>2, LogChange
<1>5. ASSUME job'.pc \in Path, NEW uid \in Nat, uid = job'.obj.uid
      PROVE  \A n \in Names : n = job'.name => UIDOf(n, uid)'
  <2>1. job'.name = job.name /\ job.name \in Names
    BY <1>5, JobCopy
  <2>2. CASE job.pc \in Path /\ SameSpec(job'.obj, job.obj)
    BY <1>5, <2>1, <2>2, UIDStays DEF UIDsApart, SameSpec
  <2>3. CASE job'.obj = cached(job.name) /\ cached(job.name) \in Object
    <3>1. cached(job.name) = log[job.name][1] /\ 1 \in Index(job.name)
      BY <1>1, <2>1, KubeLog DEF cached
    <3> QED
      BY <1>5, <2>1, <2>3, <3>1, UIDStays DEF UIDsApart
  <2> QED
    BY <1>5, <2>2, <2>3, JobCopy
<1>6. job'.pc \in Path => job'.obj \in Object /\ job'.name \in Names
  BY InvNext DEF Inv, TypeInv, JobOK, Path
<1>7. \A n \in Names : \A i \in Index(n)' : log'[n][i] \in Object =>
        /\ log'[n][i].uid # Foreign /\ log'[n][i].uid < nextUID'
        /\ \A m \in Names :
             stored(m)' \in Object /\ stored(m)'.uid = log'[n][i].uid => m = n
  BY <1>2, <1>4 DEF UIDOf
<1>8. job'.pc \in Path =>
        /\ job'.obj.uid # Foreign /\ job'.obj.uid < nextUID'
        /\ \A m \in Names :
             stored(m)' \in Object /\ stored(m)'.uid = job'.obj.uid => m = job'.name
  BY <1>2, <1>5, <1>6 DEF UIDOf
<1> QED
  BY <1>7, <1>8 DEF UIDsApart, UIDOf

LEMMA UIDsInit == Init => UIDsApart
<1> SUFFICES ASSUME Init PROVE UIDsApart
  OBVIOUS
<1>1. job.pc \notin Path
  BY DEF Init, Idle, Path
<1>2. \A n \in Names : \A i \in Index(n) : log[n][i] = NoObject
  BY DEF Init, KubeInit, Index
<1> QED
  BY <1>1, <1>2, NoObjectAssumption DEF UIDsApart, NoObjectAssumption

-----------------------------------------------------------------------------
(* No stale ConfigMap is left.                                              *)

\* Nothing about Bucket n is on its way to the worker.
Quiet(n) == n \notin queue /\ fresh(n)

\* The worker has been through with n, and nothing happened since.
Stays(n) == Quiet(n) /\ stored(n) # NoObject

AtRest(n) == Stays(n) /\ (job.pc = "idle" \/ job.name # n)

\* A copy that is behind will be read again.
Behind == job.pc \in Path /\ ~job.current => ~Quiet(job.name)

\* The worker's Bucket controls the ConfigMap of its copy's spec, and others in
\* S only.
Only(S) ==
  \A c \in ConfigMapNames : Controls(c, job.obj.uid) => c = job.obj.cm \/ c \in S

StaleListed ==
  /\ job.pc = "DeleteConfigMaps" => Only(job.stale)
  /\ job.pc = "PatchStatus" /\ Ready(job.obj.status) /\ ~job.again => Only({})

StaleGone ==
  \A n \in Names : AtRest(n) /\ Ready(stored(n).status) =>
    \A c \in ConfigMapNames : Controls(c, stored(n).uid) => c = stored(n).cm

StaleInv == Behind /\ StaleListed /\ StaleGone

\* The world lets no Bucket rest that did not.
LEMMA WorldRests ==
  ASSUME Inv, World, NEW n \in Names, AtRest(n)'
  PROVE  AtRest(n) /\ stored(n)' = stored(n)
<1>1. log \in Logs(Version)
  BY DEF Inv, TypeInv
<1>2. CASE User
  BY <1>2, UserEdited DEF AtRest, Stays, Quiet
<1>3. ASSUME NEW m \in Names, Dequeue(m)
      PROVE  AtRest(n) /\ stored(n)' = stored(n)
  <2>1. /\ job.pc = "idle" /\ queue' = queue \ {m} /\ UNCHANGED log
        /\ job'.pc = "Get" /\ job'.name = m
    BY <1>3 DEF Dequeue, At, Idle
  <2> QED
    BY <2>1 DEF AtRest, Stays, Quiet, stored, fresh
<1>4. ASSUME NEW m \in Names, Informer(m)
      PROVE  AtRest(n) /\ stored(n)' = stored(n)
  <2>1. Deliver(m) /\ UNCHANGED job
    BY <1>4 DEF Informer
  <2>2. /\ queue' = queue \cup {m}
        /\ \A x \in Names : stored(x)' = stored(x)
        /\ \A x \in Names \ {m} : fresh(x)' = fresh(x)
    BY <1>1, <2>1, DeliverEffect
  <2> QED
    BY <2>1, <2>2 DEF AtRest, Stays, Quiet
<1>5. ~Crash
  <2>1. ASSUME Crash
        PROVE  n \in queue' \/ stored(n)' = NoObject
    <3>1. /\ queue' = {m \in Names : stored(m) # NoObject}
          /\ \A m \in Names : stored(m)' = stored(m)
      BY <1>1, <2>1, KubeRelist DEF Crash
    <3> QED
      BY <3>1
  <2> QED
    BY <2>1 DEF AtRest, Stays, Quiet
<1>6. CASE \/ Tamper \/ OwnershipChanges \/ UNCHANGED vars
           \/ \E c \in ConfigMapNames : CollectGarbage(c)
  BY <1>6, OthersFacts DEF AtRest, Stays, Quiet, stored, fresh
<1> QED
  BY <1>2, <1>3, <1>4, <1>5, <1>6 DEF World

\* The worker lets its own Bucket rest only with a patch that changed nothing.
LEMMA PatchQuiet ==
  ASSUME Inv, Behind, PatchStatus, NEW n \in Names, n = job.name, Stays(n)'
  PROVE  /\ ~job.again /\ stored(n)' = stored(n) /\ stored(n) \in Object
         /\ SameSpec(stored(n), job.obj)
         /\ stored(n).status = UpdateBucketReadyCondition(job.obj)
<1>1. job.pc \in Path /\ log \in Logs(Version) /\ job.name \in Names /\ queue \subseteq queue'
  BY PatchEnds DEF Path, Inv, TypeInv
<1>2. CASE Store(job.name, Patched) /\ Patched \in Object /\ job.current
             /\ UpdateBucketReadyCondition(job.obj) # job.orig
  <2>1. stored(n).status = job.orig /\ stored(n) # NoObject /\ stored(n) \in Version
    BY <1>1, <1>2, KubeLog DEF Inv, CopyStored
  <2>2. stored(n) \in Object
    BY <2>1 DEF Version
  <2>3. Patched.status = UpdateBucketReadyCondition(job.obj)
    BY <2>2 DEF Patched, Object
  <2>4. Patched # stored(n)
    BY <1>2, <2>1, <2>3
  <2>5. ~fresh(n)'
    BY <1>1, <1>2, <2>4, StoreEffect DEF Version
  <2> QED
    BY <2>5 DEF Stays, Quiet
<1>3. CASE /\ UNCHANGED log
           /\ \/ job.name \in queue'
              \/ ~job.again /\ UpdateBucketReadyCondition(job.obj) = job.orig
              \/ ~job.current
  <2>1. Quiet(n) /\ stored(n)' = stored(n)
    BY <1>1, <1>3 DEF Stays, Quiet, fresh, stored
  <2>2. job.current
    BY <1>1, <2>1 DEF Behind
  <2>3. ~job.again /\ UpdateBucketReadyCondition(job.obj) = job.orig
    BY <1>3, <2>2 DEF Stays, Quiet
  <2>4. /\ stored(n).status = job.orig /\ stored(n) # NoObject
        /\ SameSpec(stored(n), job.obj) /\ stored(n) \in Version
    BY <1>1, <2>2, KubeLog DEF Inv, CopyStored
  <2> QED
    BY <2>1, <2>3, <2>4 DEF Version
<1> QED
  BY <1>2, <1>3, PatchEnds

\* So does every other step of the worker with the other Buckets.
LEMMA StepRests ==
  ASSUME Inv, Get \/ MiddleStep \/ PatchStatus, NEW n \in Names, AtRest(n)'
  PROVE  \/ n # job.name /\ AtRest(n) /\ stored(n)' = stored(n)
         \/ n = job.name /\ PatchStatus /\ Stays(n)'
<1>1. log \in Logs(Version)
  BY DEF Inv, TypeInv
<1>2. CASE Get
  <2>1. CASE n = job.name
    <3>1. cached(n) = NoObject /\ job' = Idle /\ UNCHANGED log
      BY <1>2, <2>1, GetFacts DEF AtRest
    <3>2. fresh(n)' = fresh(n) /\ stored(n)' = stored(n)
      BY <3>1 DEF fresh, stored
    <3> QED
      BY <1>1, <3>1, <3>2, KubeLog DEF AtRest, Stays, Quiet
  <2>2. CASE n # job.name
    BY <1>2, <2>2, GetFacts DEF AtRest, Stays, Quiet, fresh, stored
  <2> QED
    BY <2>1, <2>2
<1>3. CASE MiddleStep
  BY <1>3, MiddleFacts DEF Goes, Path, AtRest, Stays, Quiet, fresh, stored
<1>4. CASE PatchStatus
  <2>1. CASE n = job.name
    BY <1>4, <2>1 DEF AtRest
  <2>2. CASE n # job.name
    <3>1. /\ queue \subseteq queue' /\ job.name \in Names
          /\ stored(n)' = stored(n) /\ (fresh(n)' => fresh(n))
      <4>1. CASE UNCHANGED log
        BY <1>4, <4>1, PatchEnds DEF fresh, stored
      <4>2. CASE Store(job.name, Patched) /\ Patched \in Object
        BY <1>1, <1>4, <2>2, <4>2, PatchEnds, StoreEffect DEF Version
      <4> QED
        BY <1>4, <4>1, <4>2, PatchEnds
    <3> QED
      BY <2>2, <3>1 DEF AtRest, Stays, Quiet
  <2> QED
    BY <2>1, <2>2
<1> QED
  BY <1>2, <1>3, <1>4

\* Only the worker makes a Bucket the controller of a ConfigMap, of the one
\* its copy's spec names.
LEMMA ControlsChange ==
  ASSUME Inv, [Next]_vars, NEW c \in ConfigMapNames, NEW uid \in Nat \ {Foreign},
         Controls(c, uid)', ~Controls(c, uid)
  PROVE  WriteConfigMap /\ c = job.obj.cm /\ uid = job.obj.uid
<1>1. cms \in [ConfigMapNames -> ConfigMap]
  BY DEF Inv, TypeInv, EnvOK
<1>2. CASE \/ Get \/ FindStep \/ UpdateBucket \/ GetConfigMap \/ ListConfigMaps
           \/ PatchStatus
  <2>1. cms' = cms
    BY <1>2, GetFacts, FindFacts, UpdateBucketFacts, GetConfigMapFacts, ListFacts,
       PatchEnds
  <2> QED
    BY <2>1 DEF Controls
<1>3. CASE WriteConfigMap
  <2>1. \/ cms' = cms
        \/ cms' = [cms EXCEPT ![job.obj.cm] = WrittenConfigMap]
    BY <1>3, WriteConfigMapFacts
  <2> QED
    BY <1>1, <1>3, <2>1 DEF Controls, WrittenConfigMap
<1>4. CASE DeleteConfigMaps
  <2>1. PICK x \in job.stale : cms' \in {cms, [cms EXCEPT ![x] = NoConfigMap]}
    BY <1>4, DeleteFacts
  <2> QED
    BY <1>1, <2>1 DEF Controls, NoConfigMap
<1>5. CASE Delivery \/ User
  BY <1>5, DeliveryFacts, UserEdited DEF Controls
<1>6. CASE \/ Tamper \/ OwnershipChanges \/ UNCHANGED vars
           \/ \E x \in ConfigMapNames : CollectGarbage(x)
  BY <1>6, OthersFacts DEF Controls
<1> QED
  BY <1>2, <1>3, <1>4, <1>5, <1>6, NextParts, WorldParts DEF MiddleStep

LEMMA BehindNext == Inv /\ Behind /\ [Next]_vars => Behind'
<1> SUFFICES ASSUME Inv, Behind, [Next]_vars PROVE Behind'
  OBVIOUS
<1>1. log \in Logs(Version) /\ (job.pc \in Path => job.name \in Names)
  BY DEF Inv, TypeInv, JobOK, Path
<1>2. CASE Get
  <2>1. CASE job' = Idle
    BY <2>1 DEF Behind, Idle, Path
  <2>2. CASE job'.name = job.name /\ job'.current = fresh(job.name)
    BY <1>2, <2>2, GetFacts DEF Behind, Quiet, fresh
  <2> QED
    BY <1>2, <2>1, <2>2, GetFacts
<1>3. CASE MiddleStep
  BY <1>3, MiddleFacts DEF Goes, Behind, Quiet, fresh
<1>4. CASE PatchStatus
  BY <1>4, PatchEnds DEF Behind, Idle, Path
<1>5. CASE User
  <2>1. PICK n \in Names, v \in Version :
             /\ ~fresh(n)' /\ \A m \in Names : fresh(m)' => fresh(m)
             /\ queue' = queue /\ job'.pc = job.pc /\ job'.name = job.name
             /\ job'.current = (job.current /\ n # job.name)
    BY <1>5, UserEdited
  <2>2. ASSUME NEW m \in Names, m = job.name, job.pc \in Path, ~job'.current
        PROVE  ~Quiet(m)'
    BY <2>1, <2>2 DEF Behind, Quiet
  <2>3. job.pc \in Path => \A m \in Names : m = job.name => Quiet(job.name)' = Quiet(m)'
    BY <2>1 DEF Quiet, fresh
  <2> QED
    BY <1>1, <2>1, <2>2, <2>3 DEF Behind
<1>6. ASSUME NEW m \in Names, Informer(m)
      PROVE  Behind'
  <2>1. Deliver(m) /\ UNCHANGED job
    BY <1>6 DEF Informer
  <2>2. /\ queue' = queue \cup {m}
        /\ \A x \in Names \ {m} : fresh(x)' = fresh(x)
    BY <1>1, <2>1, DeliverEffect
  <2>3. \A x \in Names : Quiet(x)' => Quiet(x)
    BY <2>2 DEF Quiet
  <2>4. job.pc \in Path => (Quiet(job.name)' => Quiet(job.name))
    <3>1. \A x \in Names : x = job.name => (Quiet(job.name)' = Quiet(x)')
      BY <2>1 DEF Quiet, fresh
    <3> QED
      BY <1>1, <2>3, <3>1
  <2> QED
    BY <2>1, <2>4 DEF Behind
<1>7. CASE job'.pc \in {"Get", "idle"}
  BY <1>7 DEF Behind, Path
<1>8. CASE (\E n \in Names : Dequeue(n)) \/ Crash
  <2>1. \A n \in Names : Dequeue(n) => job'.pc = "Get"
    BY DEF Dequeue, Idle
  <2>2. Crash => job'.pc = "idle"
    BY DEF Crash, Idle
  <2> QED
    BY <1>7, <1>8, <2>1, <2>2
<1>9. CASE \/ Tamper \/ OwnershipChanges \/ UNCHANGED vars
           \/ \E c \in ConfigMapNames : CollectGarbage(c)
  BY <1>9, OthersFacts DEF Behind, Quiet, fresh
<1> QED
  BY <1>2, <1>3, <1>4, <1>5, <1>6, <1>8, <1>9, NextParts DEF World

\* deleteStaleConfigMap: what is listed, what is deleted and what is left.
LEMMA StaleListedNext ==
  ASSUME Inv, UIDsApart, StaleListed, [Next]_vars
  PROVE  StaleListed'
<1>1. /\ job.pc \in Path => job.obj \in Object /\ job.obj.uid # Foreign
      /\ cms \in [ConfigMapNames -> ConfigMap]
  BY DEF Inv, TypeInv, EnvOK, JobOK, Path, UIDsApart, UIDOf
<1>2. CASE FindStep \/ UpdateBucket \/ GetConfigMap \/ WriteConfigMap
  <2>1. job'.pc # "DeleteConfigMaps"
    BY <1>2, FindFacts, UpdateBucketFacts, GetConfigMapFacts, WriteConfigMapFacts
  <2>2. ASSUME job'.pc = "PatchStatus"
        PROVE  ~Ready(job'.obj.status)
    <3>1. job.obj.status \in Status
      <4>1. job.pc \in Path
        BY <1>2, FindFacts, UpdateBucketFacts, GetConfigMapFacts,
           WriteConfigMapFacts DEF Path
      <4> QED
        BY <1>1, <4>1 DEF Object
    <3>2. \/ job'.obj.status.bucket = "False"
          \/ \E st \in {"Failed", "Conflict"} :
               job'.obj.status = [job.obj.status EXCEPT !.cm = st]
          \/ job'.obj.status = [job.obj.status EXCEPT !.bucket = "False"]
      BY <1>2, <2>2, FindFacts, UpdateBucketFacts, GetConfigMapFacts,
         WriteConfigMapFacts
    <3> QED
      BY <3>1, <3>2 DEF Ready, Status
  <2> QED
    BY <2>1, <2>2 DEF StaleListed
<1>3. CASE ListConfigMaps
  <2>1. UNCHANGED cms /\ job'.obj = job.obj
    BY <1>3, ListFacts
  <2>2. job'.pc = "PatchStatus" /\ job'.again = TRUE => StaleListed'
    BY DEF StaleListed
  <2>3. CASE job'.stale = {c \in ConfigMapNames \ {job.obj.cm} :
                             Controls(c, job.obj.uid)}
             /\ (job'.pc = "PatchStatus" => job'.stale = {})
    BY <2>1, <2>3 DEF StaleListed, Only, Controls
  <2> QED
    BY <1>3, <2>2, <2>3, ListFacts
<1>4. CASE DeleteConfigMaps
  <2>1. job'.obj = job.obj /\ Only(job.stale)
    BY <1>4, DeleteFacts DEF StaleListed
  <2>2. job'.pc = "PatchStatus" /\ job'.again = TRUE => StaleListed'
    BY DEF StaleListed
  <2>3. ASSUME NEW c \in job.stale, cms' = [cms EXCEPT ![c] = NoConfigMap],
               job'.stale = job.stale \ {c},
               job'.pc = "PatchStatus" => job'.stale = {}
        PROVE  StaleListed'
    <3>1. \A x \in ConfigMapNames : Controls(x, job.obj.uid)' =>
            Controls(x, job.obj.uid) /\ x # c
      BY <1>1, <2>1, <2>3 DEF Controls, NoConfigMap
    <3> QED
      BY <2>1, <2>3, <3>1 DEF StaleListed, Only
  <2> QED
    BY <1>4, <2>2, <2>3, DeleteFacts
<1>5. CASE job'.pc \notin {"DeleteConfigMaps", "PatchStatus"}
  BY <1>5 DEF StaleListed
<1>6. CASE Get \/ PatchStatus
  <2>1. job'.pc \notin {"DeleteConfigMaps", "PatchStatus"}
    BY <1>6, GetFacts, PatchEnds DEF Idle
  <2> QED
    BY <1>5, <2>1
<1>7. CASE World
  <2>1. \/ /\ job'.pc = job.pc /\ job'.obj = job.obj
           /\ job'.again = job.again /\ job'.stale = job.stale
        \/ job'.pc \in {"Get", "idle"}
    BY <1>7, WorldParts, DeliveryFacts, UserEdited, OthersFacts
  <2>2. CASE /\ job'.pc = job.pc /\ job'.obj = job.obj
             /\ job'.again = job.again /\ job'.stale = job.stale
             /\ job.pc \in {"DeleteConfigMaps", "PatchStatus"}
    <3>1. job.pc \in Path /\ job.obj.uid \in Nat \ {Foreign} /\ job.pc # "WriteConfigMap"
      BY <1>1, <2>2 DEF Path, Object
    <3>2. ~WriteConfigMap
      BY <3>1 DEF WriteConfigMap, At
    <3>3. \A c \in ConfigMapNames, uid \in Nat \ {Foreign} :
            Controls(c, uid)' => Controls(c, uid)
      BY <3>2, ControlsChange
    <3>4. \A c \in ConfigMapNames : Controls(c, job.obj.uid)' => Controls(c, job.obj.uid)
      <4>1. \A c \in ConfigMapNames : Controls(c, job.obj.uid)' =>
              \A uid : uid = job.obj.uid => Controls(c, uid)'
        BY <2>2 DEF Controls
      <4> QED
        BY <3>1, <3>3, <4>1
    <3> QED
      BY <2>2, <3>4 DEF StaleListed, Only
  <2> QED
    BY <1>5, <2>1, <2>2
<1> QED
  BY <1>2, <1>3, <1>4, <1>6, <1>7, NextParts DEF MiddleStep

LEMMA StaleGoneNext ==
  ASSUME Inv, UIDsApart, StaleInv, [Next]_vars
  PROVE  StaleGone'
<1> SUFFICES ASSUME NEW n \in Names, AtRest(n)', Ready(stored(n)'.status),
                    NEW c \in ConfigMapNames, Controls(c, stored(n).uid)'
             PROVE  c = stored(n)'.cm
  BY DEF StaleGone
<1>1. log \in Logs(Version)
  BY DEF Inv, TypeInv
<1>2. CASE AtRest(n) /\ stored(n)' = stored(n) /\ (MiddleStep => n # job.name)
  <2>1. stored(n) \in Version /\ stored(n) # NoObject
    BY <1>1, <1>2, KubeLog DEF AtRest, Stays
  <2>2. stored(n) \in Object /\ stored(n).uid \in Nat
    BY <2>1 DEF Version, Object
  <2>3. UIDOf(n, stored(n).uid)
    BY <1>1, <2>2, KubeLog DEF UIDsApart, stored
  <2>4. \A uid : uid = stored(n).uid => Controls(c, uid)'
    BY <1>2 DEF Controls
  <2>5. Controls(c, stored(n).uid)
    <3>1. ASSUME WriteConfigMap, stored(n).uid = job.obj.uid
          PROVE  FALSE
      <4>1. job.pc \in Path /\ MiddleStep
        BY <3>1, WriteConfigMapFacts DEF Path, MiddleStep
      <4>2. UIDOf(job.name, job.obj.uid)
        BY <4>1 DEF UIDsApart
      <4>3. n = job.name
        BY <2>2, <3>1, <4>2 DEF UIDOf
      <4> QED
        BY <1>2, <4>1, <4>3
    <3>2. stored(n).uid \in Nat \ {Foreign}
      BY <2>2, <2>3 DEF UIDOf
    <3> QED
      BY <2>4, <3>1, <3>2, ControlsChange
  <2> QED
    BY <1>2, <2>5 DEF StaleInv, StaleGone
<1>3. CASE n = job.name /\ PatchStatus /\ Stays(n)'
  <2>1. /\ ~job.again /\ stored(n)' = stored(n) /\ stored(n) \in Object
        /\ SameSpec(stored(n), job.obj)
        /\ stored(n).status = UpdateBucketReadyCondition(job.obj)
    BY <1>3, PatchQuiet DEF StaleInv
  <2>2. job.pc = "PatchStatus" /\ UNCHANGED cms
    BY <1>3, PatchEnds
  <2>3. job.obj \in Object
    BY <2>2 DEF Inv, TypeInv, JobOK, Path
  <2>4. Ready(job.obj.status)
    BY <2>1, <2>3 DEF Ready, UpdateBucketReadyCondition, Object, Status
  <2>5. Only({})
    BY <2>1, <2>2, <2>4 DEF StaleInv, StaleListed
  <2> QED
    BY <2>1, <2>2, <2>5 DEF Only, Controls, SameSpec
<1>4. CASE World
  <2>1. ~MiddleStep \/ n # job.name
    <3>1. AtRest(n) /\ stored(n)' = stored(n)
      BY <1>4, WorldRests
    <3>2. MiddleStep => job.pc # "idle"
      BY MiddleFacts DEF Path
    <3> QED
      BY <3>1, <3>2 DEF AtRest
  <2> QED
    BY <1>2, <1>4, <2>1, WorldRests
<1> QED
  BY <1>2, <1>3, <1>4, StepRests, NextParts

LEMMA StaleNext == Inv /\ UIDsApart /\ StaleInv /\ [Next]_vars => StaleInv'
BY BehindNext, StaleListedNext, StaleGoneNext DEF StaleInv

LEMMA StaleInit == Init => StaleInv
<1> SUFFICES ASSUME Init PROVE StaleInv
  OBVIOUS
<1>1. job.pc = "idle"
  BY DEF Init, Idle
<1>2. NoObject \in Version /\ KubeInit
  BY DEF Init, Version
<1>3. \A n \in Names : stored(n) = NoObject
  BY <1>2, KubeStart
<1> QED
  BY <1>1, <1>3 DEF StaleInv, Behind, StaleListed, StaleGone, AtRest, Stays, Path

\* deleteStaleConfigMap leaves nothing behind: a Bucket that is Ready and at
\* rest controls no ConfigMap but the one its spec names, whatever others
\* create, delete and edit meanwhile, and whatever fails.
THEOREM NothingStale == Spec => []NoStaleConfigMap
<1>1. Inv /\ UIDsApart /\ StaleInv => NoStaleConfigMap
  <2> SUFFICES ASSUME StaleInv, NEW n \in Names, NEW c \in ConfigMapNames,
                      ClaimsReady(stored(n)), Rests(n), cms[c].exists,
                      cms[c].owner = stored(n).uid
               PROVE  c = stored(n).cm
    BY DEF NoStaleConfigMap
  <2>1. AtRest(n) /\ Ready(stored(n).status)
    BY DEF ClaimsReady, Rests, AtRest, Stays, Quiet
  <2> QED
    BY <2>1 DEF StaleInv, StaleGone, Controls
<1> QED
  BY <1>1, Invariant, UIDsInit, UIDsNext, StaleInit, StaleNext, PTL DEF Spec

-----------------------------------------------------------------------------
(* Ready tells the truth, as long as others neither delete what the         *)
(* controller made nor move a Bucket between creating and importing.        *)

Calm == Changes \cap {"switch", "deleteConfigMap", "deleteBucket"} = {}

\* Two Buckets that import the same bucket of Garage write their quotas on it
\* in turn, and neither learns of it: while the worker is on one of them there
\* is no other.
NoSharedBucket ==
  job.pc \in Path /\ job.obj.existing =>
    \A n \in Names \ {job.name} : stored(n) # NoObject => ~stored(n).existing

\* Neither two IDs nor two aliases name the same bucket.
BucketsApart ==
  /\ \A b \in buckets : b.id < nextID /\ b.id # NoID /\ b.alias # NoAlias
  /\ \A b, c \in buckets : b.id = c.id \/ b.alias = c.alias => b = c

\* What is recorded is nothing or the bucket the spec asks for.
Identifies(o) ==
  \/ o.status.id = NoID /\ o.status.alias = NoAlias
  \/ /\ o.status.alias = SpecAlias(o)
     /\ \E b \in buckets : b.id = o.status.id /\ b.alias = o.status.alias

Valid(v) == v \in Object => v.gen > 0 /\ v.status.og <= v.gen /\ Identifies(v)

\* v is a version of a name that has come to o: none was Ready before it was
\* read, and one of the same generation has the same spec.
Follows(v, o) ==
  /\ o.status.og > 0 => v \in Object /\ v.uid = o.uid /\ o.status.og <= v.gen
  /\ v \in Object /\ v.uid = o.uid =>
       /\ v.gen <= o.gen /\ v.existing = o.existing
       /\ v.gen = o.gen => v.quota = o.quota /\ v.cm = o.cm

Known(n, v) == Valid(v) /\ (stored(n) \in Object => Follows(v, stored(n)))

VersionsOK ==
  /\ \A n \in Names : \A i \in Index(n) : Known(n, log[n][i])
  /\ job.pc \in Path => Known(job.name, job.obj)

HasBucket(o) ==
  [id |-> o.status.id, alias |-> SpecAlias(o), quota |-> Normal(o.quota)] \in buckets

HasConfigMap(o) ==
  cms[o.cm] = [exists |-> TRUE, owner |-> o.uid, alias |-> SpecAlias(o)]

\* Does the Bucket the worker has read exist?
Alive == stored(job.name) \in Object /\ stored(job.name).uid = job.obj.uid

\* What the worker has achieved when it comes to a call.
Progress ==
  /\ job.pc = "CreateBucket" => BucketWithAlias(SpecAlias(job.obj)) = {}
  /\ job.pc \in {"GetBucket", "CreateBucket"} => ~job.obj.existing
  /\ job.pc \in {"GetOwnerSecret", "GetExisting", "GetPermissions"}
       => job.obj.existing
  /\ job.pc \in {"GetPermissions", "UpdateBucket"}
       => job.found \in buckets /\ job.found.alias = SpecAlias(job.obj)
  /\ job.pc = "UpdateBucket"
       => /\ job.obj.status.id = job.found.id
          /\ job.obj.status.alias = job.found.alias
  /\ job.pc \in {"GetConfigMap", "WriteConfigMap", "ListConfigMaps",
                 "DeleteConfigMaps"}
       => HasBucket(job.obj) /\ job.obj.status.alias = SpecAlias(job.obj)
  /\ job.pc \in {"ListConfigMaps", "DeleteConfigMaps"}
       => (Alive => HasConfigMap(job.obj))
  /\ job.pc = "PatchStatus" /\ Ready(job.obj.status)
       => HasBucket(job.obj) /\ (Alive => HasConfigMap(job.obj))

\* The ConfigMaps about to be deleted are the Bucket's old ones, or foreign
\* ones in their place.
StaleApart ==
  job.pc = "DeleteConfigMaps" =>
    \A c \in job.stale :
      c # job.obj.cm /\ (cms[c].exists => cms[c].owner \in {Foreign, job.obj.uid})

Truth ==
  \A n \in Names :
    stored(n) \in Object /\ ClaimsReady(stored(n)) =>
      HasBucket(stored(n)) /\ HasConfigMap(stored(n))

ReadyInv == BucketsApart /\ VersionsOK /\ Progress /\ StaleApart /\ Truth

\* Everything that is inductive together.
FullInv == Inv /\ UIDsApart /\ ReadyInv

\* The world leaves the buckets of Garage alone.
LEMMA WorldBuckets ==
  ASSUME Calm, Inv, World
  PROVE  UNCHANGED <<buckets, nextID>>
<1>1. "deleteBucket" \notin Changes
  BY DEF Calm
<1>2. CASE Tamper
  BY <1>1, <1>2 DEF Tamper, garage
<1>3. CASE User
  BY <1>3, UserEdited
<1>4. CASE Delivery
  BY <1>4, DeliveryFacts
<1>5. CASE \/ OwnershipChanges \/ UNCHANGED vars
           \/ \E c \in ConfigMapNames : CollectGarbage(c)
  BY <1>5 DEF OwnershipChanges, vars, garage, CollectGarbage
<1> QED
  BY <1>2, <1>3, <1>4, <1>5, WorldParts

\* A version without a status of its own: SameSpec and an equal identity.
LEMMA SameAlias ==
  ASSUME NEW o, NEW p, SameSpec(o, p)
  PROVE  SpecAlias(o) = SpecAlias(p)
BY DEF SameSpec, SpecAlias, SuffixedResourceName

\* An alias names one Bucket's own bucket, or the one that is imported.
LEMMA AliasOf ==
  ASSUME NEW o \in Object, NEW p \in Object, SpecAlias(o) = SpecAlias(p),
         o.uid # Foreign, p.uid # Foreign
  PROVE  o.existing = p.existing /\ (~o.existing => o.uid = p.uid)
<1>1. /\ o.uid \in Nat \ {0} /\ p.uid \in Nat \ {0}
      /\ o.existing \in BOOLEAN /\ p.existing \in BOOLEAN
  BY DEF Object, Foreign
<1>2. \A q \in {o, p} : /\ q.existing => SpecAlias(q) = 1
                        /\ ~q.existing => SpecAlias(q) = q.uid + 1
  BY Zenon DEF SpecAlias, SuffixedResourceName, Imported
<1>3. CASE o.existing /\ p.existing
  BY <1>1, <1>3, Zenon
<1>4. CASE ~o.existing /\ ~p.existing
  <2>1. o.uid + 1 = p.uid + 1
    BY <1>2, <1>4, Zenon
  <2>2. o.uid = p.uid
    BY <1>1, <2>1
  <2> QED
    BY <1>1, <1>4, <2>2, Zenon
<1>5. CASE o.existing /\ ~p.existing
  <2>1. p.uid + 1 = 1
    BY <1>2, <1>5, Zenon
  <2> QED
    BY <1>1, <2>1
<1>6. CASE ~o.existing /\ p.existing
  <2>1. o.uid + 1 = 1
    BY <1>2, <1>6, Zenon
  <2> QED
    BY <1>1, <2>1
<1> QED
  BY <1>3, <1>4, <1>5, <1>6

\* Every bucket keeps its ID and its alias.
IDsStay == \A b \in buckets : \E c \in buckets' : c.id = b.id /\ c.alias = b.alias

\* A copy keeps what it identifies when its spec, ID and alias stay.
LEMMA JobIdentifies ==
  ASSUME IDsStay, Identifies(job.obj), SameSpec(job'.obj, job.obj),
         job'.obj.status.id = job.obj.status.id,
         job'.obj.status.alias = job.obj.status.alias
  PROVE  Identifies(job.obj)'
BY SameAlias DEF IDsStay, Identifies, SpecAlias, SameSpec, SuffixedResourceName

\* Resolved records the bucket the spec asks for, or finds it recorded.
LEMMA ResolvedReady ==
  ASSUME TypeInv, job.pc \in Path, Identifies(job.obj), buckets \subseteq buckets',
         BucketsApart', NEW b \in GarageBucket, b \in buckets', Resolved(b),
         b.alias = SpecAlias(job.obj)
  PROVE  /\ Progress' /\ Identifies(job.obj)' /\ StaleApart'
         /\ job'.obj.status.og = job.obj.status.og
<1>1. /\ Goes /\ job'.obj.status.og = job.obj.status.og
      /\ job'.obj.status.id = IF job.obj.status.id = NoID
                              THEN b.id ELSE job.obj.status.id
      /\ job'.obj.status.alias = IF job.obj.status.alias = NoAlias
                                 THEN b.alias ELSE job.obj.status.alias
      /\ \/ /\ job'.pc = "UpdateBucket" /\ job'.found = b
         \/ /\ job'.pc = "GetConfigMap" /\ b.quota = job.obj.quota
  BY ResolvedFacts
<1>2. SameSpec(job'.obj, job.obj) /\ SpecAlias(job.obj)' = SpecAlias(job.obj)
  BY <1>1 DEF Goes, SameSpec, SpecAlias, SuffixedResourceName
<1>3. job'.obj.status.id = b.id /\ job'.obj.status.alias = b.alias
  <2>1. b.alias # NoAlias
    BY DEF BucketsApart
  <2>2. CASE job.obj.status.id = NoID /\ job.obj.status.alias = NoAlias
    BY <1>1, <2>2
  <2>3. ASSUME NEW c \in buckets, c.id = job.obj.status.id,
               c.alias = job.obj.status.alias, job.obj.status.alias = SpecAlias(job.obj)
        PROVE  job'.obj.status.id = b.id /\ job'.obj.status.alias = b.alias
    <3>1. c = b
      BY <2>3 DEF BucketsApart
    <3> QED
      BY <1>1, <2>3, <3>1
  <2> QED
    BY <2>2, <2>3 DEF Identifies
<1>4. Identifies(job.obj)'
  BY <1>2, <1>3 DEF Identifies
<1>5. StaleApart'
  BY <1>1 DEF StaleApart
<1>6. CASE job'.pc = "UpdateBucket" /\ job'.found = b
  BY <1>1, <1>2, <1>3, <1>4, <1>5, <1>6 DEF Progress
<1>7. CASE job'.pc = "GetConfigMap" /\ b.quota = job.obj.quota
  <2>1. b = [id |-> b.id, alias |-> b.alias, quota |-> b.quota] /\ b.quota \in Nat
    BY DEF GarageBucket
  <2>2. Normal(job'.obj.quota) = b.quota
    BY <1>2, <1>7, <2>1 DEF Normal, SameSpec
  <2>3. HasBucket(job.obj)'
    BY <1>2, <1>3, <2>1, <2>2 DEF HasBucket
  <2> QED
    BY <1>1, <1>2, <1>3, <1>4, <1>5, <1>7, <2>3 DEF Progress
<1> QED
  BY <1>1, <1>4, <1>5, <1>6, <1>7

\* A failure leaves what is recorded.
LEMMA NotReadyReady ==
  ASSUME TypeInv, job.pc \in Path, Identifies(job.obj), IDsStay, BucketNotReady
  PROVE  /\ Progress' /\ Identifies(job.obj)' /\ StaleApart'
         /\ job'.obj.status.og = job.obj.status.og
<1>1. job.obj.status \in Status
  BY DEF TypeInv, JobOK, Path, Object
<1>2. /\ Goes /\ job'.pc = "PatchStatus"
      /\ job'.obj.status = [job.obj.status EXCEPT !.bucket = "False"]
  BY NotReadyFacts
<1>3. /\ job'.obj.status.id = job.obj.status.id
      /\ job'.obj.status.alias = job.obj.status.alias
      /\ job'.obj.status.og = job.obj.status.og
      /\ job'.obj.status.bucket = "False"
  BY <1>1, <1>2 DEF Status
<1>4. Identifies(job.obj)'
  BY <1>2, <1>3, JobIdentifies DEF Goes
<1> QED
  BY <1>2, <1>3, <1>4 DEF Progress, StaleApart, Ready

\* reconcileBucket before the quotas.
LEMMA FindReady ==
  ASSUME Inv, UIDsApart, BucketsApart, Progress, Identifies(job.obj), FindStep
  PROVE  /\ BucketsApart' /\ buckets \subseteq buckets'
         /\ Progress' /\ Identifies(job.obj)' /\ StaleApart'
         /\ job'.obj.status.og = job.obj.status.og
<1>1. /\ TypeInv /\ job.pc \in Path /\ Goes /\ job \in Job /\ job.obj \in Object
      /\ buckets \subseteq GarageBucket /\ nextID \in Nat \ {0} /\ job.obj.uid \in Nat
  BY FindFacts DEF Inv, TypeInv, EnvOK, JobOK, Path, Object
<1>2. SameSpec(job'.obj, job.obj) /\ SpecAlias(job.obj)' = SpecAlias(job.obj)
  BY <1>1 DEF Goes, SameSpec, SpecAlias, SuffixedResourceName
<1>3. CASE GetBucket
  <2> DEFINE alias == SuffixedResourceName(job.obj.uid)
  <2>1. /\ UNCHANGED <<buckets, nextID>> /\ job.pc = "GetBucket"
        /\ alias = SpecAlias(job.obj)
    BY <1>3 DEF GetBucket, At, garage, Progress, SpecAlias
  <2>2. BucketsApart' /\ buckets \subseteq buckets' /\ IDsStay
    BY <2>1 DEF BucketsApart, IDsStay
  <2>3. ASSUME NEW b \in BucketWithAlias(alias), Resolved(b)
        PROVE  /\ Progress' /\ Identifies(job.obj)' /\ StaleApart'
               /\ job'.obj.status.og = job.obj.status.og
    <3>1. b \in GarageBucket /\ b \in buckets' /\ b.alias = SpecAlias(job.obj)
      BY <1>1, <2>1, <2>3 DEF BucketWithAlias
    <3> QED
      BY <1>1, <2>2, <2>3, <3>1, ResolvedReady
  <2>4. CASE BucketWithAlias(alias) = {} /\ Goto("CreateBucket")
    <3>1. job'.pc = "CreateBucket" /\ job'.obj = job.obj
      BY <1>1, <2>4 DEF Goto, Job
    <3>2. Identifies(job.obj)' /\ ~job'.obj.existing
      BY <2>1, <2>2, <1>2, <3>1, JobIdentifies DEF Progress
    <3>3. (BucketWithAlias(SpecAlias(job.obj)) = {})'
      BY <1>2, <2>1, <2>4 DEF BucketWithAlias
    <3> QED
      BY <2>2, <3>1, <3>2, <3>3 DEF Progress, StaleApart
  <2> QED
    BY <1>1, <1>3, <2>2, <2>3, <2>4, NotReadyReady DEF GetBucket
<1>4. CASE CreateBucket
  <2> DEFINE b == [id |-> nextID, quota |-> 0,
                   alias |-> SuffixedResourceName(job.obj.uid)]
             created == buckets' = buckets \cup {b} /\ nextID' = nextID + 1
  <2>1. /\ b \in GarageBucket /\ b.id = nextID /\ b.alias = SpecAlias(job.obj)
        /\ b.alias # NoAlias /\ BucketWithAlias(b.alias) = {}
    BY <1>1, <1>4 DEF CreateBucket, At, Progress, SpecAlias, SuffixedResourceName,
                      GarageBucket, NoAlias
  <2>2. /\ created \/ UNCHANGED <<buckets, nextID>>
        /\ \/ created /\ Resolved(b)
           \/ BucketNotReady
    BY <1>4 DEF CreateBucket
  <2> HIDE DEF b
  <2>3. BucketsApart' /\ buckets \subseteq buckets' /\ IDsStay
    <3>1. CASE created
      <4>1. \A x \in buckets : x.id # b.id /\ x.alias # b.alias /\ x.id < nextID + 1
        BY <1>1, <2>1 DEF BucketsApart, BucketWithAlias, GarageBucket
      <4> QED
        BY <1>1, <2>1, <3>1, <4>1 DEF BucketsApart, IDsStay, NoID
    <3> QED
      BY <2>2, <3>1 DEF BucketsApart, IDsStay
  <2> QED
    BY <1>1, <2>1, <2>2, <2>3, NotReadyReady, ResolvedReady
<1>5. CASE GetOwnerSecret
  <2>1. UNCHANGED <<buckets, nextID>> /\ job.pc = "GetOwnerSecret"
    BY <1>5 DEF GetOwnerSecret, At, garage
  <2>2. BucketsApart' /\ buckets \subseteq buckets' /\ IDsStay
    BY <2>1 DEF BucketsApart, IDsStay
  <2>3. CASE Goto("GetExisting")
    <3>1. job'.pc = "GetExisting" /\ job'.obj = job.obj
      BY <1>1, <2>3 DEF Goto, Job
    <3>2. Identifies(job.obj)' /\ job'.obj.existing
      BY <2>1, <2>2, <1>2, <3>1, JobIdentifies DEF Progress
    <3> QED
      BY <2>2, <3>1, <3>2 DEF Progress, StaleApart
  <2> QED
    BY <1>1, <1>5, <2>2, <2>3, NotReadyReady DEF GetOwnerSecret
<1>6. CASE GetExisting
  <2>1. UNCHANGED <<buckets, nextID>> /\ job.pc = "GetExisting" /\ job.obj.existing
    BY <1>6 DEF GetExisting, At, garage, Progress
  <2>2. BucketsApart' /\ buckets \subseteq buckets' /\ IDsStay
    BY <2>1 DEF BucketsApart, IDsStay
  <2>3. ASSUME NEW b \in BucketWithAlias(Imported),
               job' = [job EXCEPT !.pc = "GetPermissions", !.found = b]
        PROVE  /\ Progress' /\ Identifies(job.obj)' /\ StaleApart'
               /\ job'.obj.status.og = job.obj.status.og
    <3>1. job'.pc = "GetPermissions" /\ job'.obj = job.obj /\ job'.found = b
      BY <1>1, <2>3 DEF Job
    <3>2. b \in buckets' /\ b.alias = SpecAlias(job.obj)
      BY <2>1, <2>3 DEF BucketWithAlias, SpecAlias
    <3>3. Identifies(job.obj)'
      BY <2>2, <1>2, <3>1, JobIdentifies
    <3> QED
      BY <1>2, <2>1, <3>1, <3>2, <3>3 DEF Progress, StaleApart
  <2> QED
    BY <1>1, <1>6, <2>2, <2>3, NotReadyReady DEF GetExisting
<1>7. CASE GetPermissions
  <2>1. /\ UNCHANGED <<buckets, nextID>> /\ job.found \in buckets
        /\ job.found.alias = SpecAlias(job.obj)
    BY <1>7 DEF GetPermissions, At, garage, Progress
  <2>2. /\ BucketsApart' /\ buckets \subseteq buckets' /\ IDsStay
        /\ job.found \in GarageBucket
    BY <1>1, <2>1 DEF BucketsApart, IDsStay
  <2> QED
    BY <1>1, <1>7, <2>1, <2>2, NotReadyReady, ResolvedReady DEF GetPermissions
<1> QED
  BY <1>3, <1>4, <1>5, <1>6, <1>7 DEF FindStep

\* The quotas change only where the worker sets them.
QuotasStep ==
  \A b \in buckets :
    \/ b \in buckets'
    \/ /\ UpdateBucket /\ b.id = job.found.id
       /\ [b EXCEPT !.quota = Normal(job.obj.quota)] \in buckets'

LEMMA UpdateReady ==
  ASSUME Inv, BucketsApart, Progress, Identifies(job.obj), UpdateBucket
  PROVE  /\ BucketsApart' /\ IDsStay /\ QuotasStep
         /\ Progress' /\ Identifies(job.obj)' /\ StaleApart'
         /\ job'.obj.status.og = job.obj.status.og
<1>1. /\ job.obj \in Object /\ job.obj.status \in Status /\ Goes
      /\ buckets \subseteq GarageBucket /\ nextID' = nextID
  BY UpdateBucketFacts DEF Inv, TypeInv, EnvOK, JobOK, Path, Object
<1>2. /\ job.found \in buckets /\ job.found.alias = SpecAlias(job.obj)
      /\ job.obj.status.id = job.found.id /\ job.obj.status.alias = job.found.alias
  BY UpdateBucketFacts DEF Progress
<1>3. SameSpec(job'.obj, job.obj) /\ SpecAlias(job.obj)' = SpecAlias(job.obj)
  BY <1>1 DEF Goes, SameSpec, SpecAlias, SuffixedResourceName
<1>4. /\ job'.obj.status.id = job.obj.status.id
      /\ job'.obj.status.alias = job.obj.status.alias
      /\ job'.obj.status.og = job.obj.status.og
      /\ \/ job'.pc = "GetConfigMap" /\ buckets' = Requotaed
         \/ /\ job'.pc = "PatchStatus" /\ job'.obj.status.bucket = "False"
            /\ buckets' \in {buckets, Requotaed}
  BY <1>1, UpdateBucketFacts DEF Status
<1> DEFINE New(b) == IF b.id = job.found.id
                     THEN [b EXCEPT !.quota = Normal(job.obj.quota)] ELSE b
<1>5. \A b \in buckets : /\ New(b).id = b.id /\ New(b).alias = b.alias
                         /\ b.id = job.found.id =>
                              New(b) = [b EXCEPT !.quota = Normal(job.obj.quota)]
                         /\ b.id # job.found.id => New(b) = b
  BY <1>1 DEF GarageBucket
<1>6. Requotaed = {New(b) : b \in buckets}
  BY DEF Requotaed
<1> HIDE DEF New
<1>7. BucketsApart' /\ IDsStay /\ QuotasStep
  <2>1. CASE buckets' = buckets
    BY <1>1, <2>1 DEF BucketsApart, IDsStay, QuotasStep
  <2>2. CASE buckets' = Requotaed
    <3>1. \A c \in buckets' : \E b \in buckets : c = New(b)
      BY <1>6, <2>2
    <3>2. \A b \in buckets : New(b) \in buckets'
      BY <1>6, <2>2
    <3>3. BucketsApart'
      BY <1>1, <1>5, <3>1 DEF BucketsApart
    <3>4. IDsStay
      BY <1>5, <3>2 DEF IDsStay
    <3>5. QuotasStep
      BY <1>5, <3>2 DEF QuotasStep
    <3> QED
      BY <3>3, <3>4, <3>5
  <2> QED
    BY <1>4, <2>1, <2>2
<1>8. Identifies(job.obj)'
  BY <1>3, <1>4, <1>7, JobIdentifies
<1>9. job'.pc = "GetConfigMap" => HasBucket(job.obj)'
  <2> SUFFICES ASSUME job'.pc = "GetConfigMap" PROVE HasBucket(job.obj)'
    OBVIOUS
  <2>1. [job.found EXCEPT !.quota = Normal(job.obj.quota)] \in buckets'
    BY <1>2, <1>4, <1>5, <1>6
  <2>2. [job.found EXCEPT !.quota = Normal(job.obj.quota)]
          = [id |-> job.found.id, alias |-> job.found.alias,
             quota |-> Normal(job.obj.quota)]
    BY <1>1, <1>2 DEF GarageBucket
  <2>3. Normal(job'.obj.quota) = Normal(job.obj.quota)
    BY <1>3 DEF SameSpec
  <2> QED
    BY <1>2, <1>3, <1>4, <2>1, <2>2, <2>3 DEF HasBucket
<1>10. Progress' /\ StaleApart'
  BY <1>2, <1>3, <1>4, <1>9 DEF Progress, StaleApart, Ready
<1> QED
  BY <1>4, <1>7, <1>8, <1>10

LEMMA ConfigMapStepReady ==
  ASSUME Inv, Progress, StaleApart, Identifies(job.obj),
         GetConfigMap \/ WriteConfigMap \/ ListConfigMaps \/ DeleteConfigMaps
  PROVE  /\ UNCHANGED <<buckets, nextID>>
         /\ Progress' /\ Identifies(job.obj)' /\ StaleApart'
         /\ job'.obj.status.og = job.obj.status.og
<1>1. /\ job.obj \in Object /\ job.obj.status \in Status /\ Goes
      /\ UNCHANGED <<buckets, nextID>> /\ job.obj.cm \in ConfigMapNames
      /\ cms \in [ConfigMapNames -> ConfigMap]
      /\ job.pc = "DeleteConfigMaps" => job.stale \subseteq ConfigMapNames
      /\ job'.name = job.name /\ job.name \in Names /\ UNCHANGED log
  BY GetConfigMapFacts, WriteConfigMapFacts, ListFacts, DeleteFacts, MiddleFacts
     DEF Inv, TypeInv, EnvOK, JobOK, Job, Path, Object, Goes, MiddleStep
<1>2. /\ SameSpec(job'.obj, job.obj) /\ SpecAlias(job.obj)' = SpecAlias(job.obj)
      /\ job'.obj.cm = job.obj.cm /\ job'.obj.uid = job.obj.uid
  BY <1>1 DEF Goes, SameSpec, SpecAlias, SuffixedResourceName
<1>3. HasBucket(job.obj) /\ job.obj.status.alias = SpecAlias(job.obj)
  BY GetConfigMapFacts, WriteConfigMapFacts, ListFacts, DeleteFacts DEF Progress
<1>4. Alive' = Alive
  BY <1>1, <1>2 DEF Alive, stored
<1>5. ASSUME job'.obj.status.id = job.obj.status.id,
             job'.obj.status.alias = job.obj.status.alias
      PROVE  HasBucket(job.obj)' /\ Identifies(job.obj)'
  <2>1. IDsStay
    BY <1>1 DEF IDsStay
  <2> QED
    BY <1>1, <1>2, <1>3, <1>5, <2>1, JobIdentifies DEF HasBucket, SameSpec
<1>6. ASSUME NEW st \in {"True", "Failed", "Conflict"},
             job'.obj.status = [job.obj.status EXCEPT !.cm = st]
      PROVE  /\ job'.obj.status.id = job.obj.status.id
             /\ job'.obj.status.alias = job.obj.status.alias
             /\ job'.obj.status.og = job.obj.status.og
             /\ job'.obj.status.cm = st
  BY <1>1, <1>6 DEF Status
<1>7. CASE job'.pc = "WriteConfigMap" /\ job'.obj = job.obj
  BY <1>1, <1>2, <1>3, <1>5, <1>7 DEF Progress, StaleApart
<1>8. ASSUME job'.pc = "ListConfigMaps", cms'[job.obj.cm] = WrittenConfigMap,
             job'.obj.status = [job.obj.status EXCEPT !.cm = "True"]
      PROVE  /\ Progress' /\ Identifies(job.obj)' /\ StaleApart'
             /\ job'.obj.status.og = job.obj.status.og
  <2>1. HasConfigMap(job.obj)'
    BY <1>2, <1>3, <1>8 DEF HasConfigMap, WrittenConfigMap
  <2>2. /\ HasBucket(job.obj)' /\ Identifies(job.obj)'
        /\ job'.obj.status.alias = SpecAlias(job.obj)
        /\ job'.obj.status.og = job.obj.status.og
    BY <1>3, <1>5, <1>6, <1>8
  <2> QED
    BY <1>2, <1>8, <2>1, <2>2 DEF Progress, StaleApart
<1>9. ASSUME job'.pc = "PatchStatus", NEW st \in {"Failed", "Conflict"},
             job'.obj.status = [job.obj.status EXCEPT !.cm = st]
      PROVE  /\ Progress' /\ Identifies(job.obj)' /\ StaleApart'
             /\ job'.obj.status.og = job.obj.status.og
  <2>1. /\ Identifies(job.obj)' /\ job'.obj.status.og = job.obj.status.og
        /\ job'.obj.status.cm = st
    BY <1>5, <1>6, <1>9
  <2> QED
    BY <1>9, <2>1 DEF Progress, StaleApart, Ready
<1>10. CASE GetConfigMap
  <2>1. cms' = cms
    BY <1>10, GetConfigMapFacts
  <2> QED
    BY <1>7, <1>8, <1>9, <1>10, <2>1, GetConfigMapFacts
<1>11. CASE WriteConfigMap
  <2>1. cms' = [cms EXCEPT ![job.obj.cm] = WrittenConfigMap] =>
          cms'[job.obj.cm] = WrittenConfigMap
    BY <1>1
  <2> QED
    BY <1>8, <1>9, <1>11, <2>1, WriteConfigMapFacts
<1>12. ASSUME job'.obj = job.obj, job.pc \in {"ListConfigMaps", "DeleteConfigMaps"},
              job'.pc \in {"DeleteConfigMaps", "PatchStatus"},
              cms'[job.obj.cm] = cms[job.obj.cm]
       PROVE  Progress' /\ Identifies(job.obj)'
  <2>1. HasBucket(job.obj)' /\ Identifies(job.obj)'
    BY <1>5, <1>12
  <2>2. Alive' => HasConfigMap(job.obj)'
    BY <1>2, <1>4, <1>12 DEF HasConfigMap, Progress
  <2> QED
    BY <1>2, <1>3, <1>12, <2>1, <2>2 DEF Progress
<1>13. CASE ListConfigMaps
  <2>1. StaleApart'
    BY <1>13, ListFacts DEF StaleApart, Controls
  <2> QED
    BY <1>12, <1>13, <2>1, ListFacts
<1>14. CASE DeleteConfigMaps
  <2>1. /\ job.pc = "DeleteConfigMaps" /\ job'.obj = job.obj
        /\ job'.pc \in {"DeleteConfigMaps", "PatchStatus"}
    BY <1>14, DeleteFacts
  <2>2. PICK c \in job.stale :
          /\ cms' \in {cms, [cms EXCEPT ![c] = NoConfigMap]}
          /\ \/ job'.pc = "PatchStatus"
             \/ /\ cms' = [cms EXCEPT ![c] = NoConfigMap]
                /\ job'.stale = job.stale \ {c}
    BY <1>14, DeleteFacts
  <2>3. c # job.obj.cm /\ \A x \in ConfigMapNames \ {c} : cms'[x] = cms[x]
    BY <1>1, <2>1, <2>2 DEF StaleApart
  <2>4. StaleApart'
    BY <1>1, <2>1, <2>2, <2>3 DEF StaleApart
  <2> QED
    BY <1>1, <1>12, <2>1, <2>3, <2>4
<1> QED
  BY <1>1, <1>10, <1>11, <1>13, <1>14

\* The middle of Reconcile, whole.
LEMMA MiddleReady ==
  ASSUME FullInv, MiddleStep
  PROVE  /\ BucketsApart' /\ IDsStay /\ QuotasStep
         /\ Progress' /\ Identifies(job.obj)' /\ StaleApart'
         /\ job'.obj.status.og = job.obj.status.og
<1>1. job.pc \in Path /\ job.obj \in Object
  BY MiddleFacts DEF FullInv, Inv, TypeInv, JobOK, Path
<1>2. Identifies(job.obj)
  BY <1>1 DEF FullInv, ReadyInv, VersionsOK, Known, Valid
<1>3. CASE FindStep
  <2>1. IDsStay /\ QuotasStep
    BY <1>2, <1>3, FindReady DEF FullInv, ReadyInv, IDsStay, QuotasStep
  <2> QED
    BY <1>2, <1>3, <2>1, FindReady DEF FullInv, ReadyInv
<1>4. CASE UpdateBucket
  BY <1>2, <1>4, UpdateReady DEF FullInv, ReadyInv
<1>5. CASE GetConfigMap \/ WriteConfigMap \/ ListConfigMaps \/ DeleteConfigMaps
  <2>1. UNCHANGED <<buckets, nextID>>
    BY <1>2, <1>5, ConfigMapStepReady DEF FullInv, ReadyInv
  <2>2. BucketsApart' /\ IDsStay /\ QuotasStep
    BY <2>1 DEF FullInv, ReadyInv, BucketsApart, IDsStay, QuotasStep
  <2> QED
    BY <1>2, <1>5, <2>2, ConfigMapStepReady DEF FullInv, ReadyInv
<1> QED
  BY <1>3, <1>4, <1>5 DEF MiddleStep

LEMMA BucketsNext ==
  ASSUME Calm, FullInv, [Next]_vars
  PROVE  BucketsApart' /\ IDsStay /\ QuotasStep
<1>1. CASE UNCHANGED <<buckets, nextID>>
  BY <1>1 DEF FullInv, ReadyInv, BucketsApart, IDsStay, QuotasStep
<1>2. CASE MiddleStep
  BY <1>2, MiddleReady
<1>3. CASE Get \/ PatchStatus \/ World
  BY <1>1, <1>3, GetFacts, PatchEnds, WorldBuckets DEF FullInv
<1> QED
  BY <1>2, <1>3, NextParts

LEMMA ValidStays ==
  ASSUME IDsStay, NEW v, Valid(v)
  PROVE  Valid(v)'
BY DEF IDsStay, Valid, Identifies

\* What a name comes to is a valid version, and follows the earlier ones.
LEMMA StoredFollows ==
  ASSUME Calm, FullInv, [Next]_vars, NEW n \in Names
  PROVE  \A w \in Object : w = stored(n)' =>
           /\ Valid(w)' /\ Follows(w, w)
           /\ \A v \in Version :
                /\ v \in Object => v.uid < nextUID
                /\ stored(n) \in Object => Follows(v, stored(n))
                /\ PatchStatus /\ job.current /\ n = job.name => v = stored(n)
                => Follows(v, w)
<1>1. /\ log \in Logs(Version) /\ nextUID \in Nat /\ IDsStay
      /\ \A o \in Object : /\ o.uid \in Nat /\ o.gen \in Nat /\ o.status \in Status
                           /\ o.status.og \in Nat
      /\ Inv /\ UIDsApart
  BY BucketsNext DEF FullInv, Inv, TypeInv, EnvOK, Object, Status
<1>2. stored(n) \in Version /\ Known(n, stored(n))
  BY <1>1, KubeLog DEF FullInv, ReadyInv, VersionsOK, stored
<1> SUFFICES ASSUME NEW w \in Object, w = stored(n)'
             PROVE  /\ Valid(w)' /\ Follows(w, w)
                    /\ \A v \in Version :
                         /\ v \in Object => v.uid < nextUID
                         /\ stored(n) \in Object => Follows(v, stored(n))
                         /\ PatchStatus /\ job.current /\ n = job.name
                              => v = stored(n)
                         => Follows(v, w)
  OBVIOUS
<1>3. CASE w = stored(n)
  <2>1. Valid(w) /\ Follows(w, w)
    BY <1>2, <1>3 DEF Known
  <2> QED
    BY <1>1, <1>3, <2>1, ValidStays
<1>4. ASSUME NEW k \in Names, NEW x \in Version, Edited(k, x),
             \A m \in Names : stored(m)' = IF m = k THEN x ELSE stored(m)
      PROVE  \/ w = stored(n)
             \/ /\ w.uid = nextUID /\ w.gen = 1 /\ w.status = NewStatus
             \/ /\ stored(n) \in Object /\ w.uid = stored(n).uid
                /\ w.gen = stored(n).gen + 1 /\ w.status = stored(n).status
                /\ w.existing = stored(n).existing
  <2>1. "switch" \notin Changes
    BY DEF Calm
  <2>2. CASE n # k
    BY <1>4, <2>2
  <2>3. CASE n = k
    <3>1. w = x
      BY <1>4, <2>3
    <3> QED
      BY <1>4, <2>1, <2>3, <3>1, NoObjectAssumption DEF Edited, NoObjectAssumption
  <2> QED
    BY <2>2, <2>3
<1>5. CASE w.uid = nextUID /\ w.gen = 1 /\ w.status = NewStatus
  <2>1. Valid(w)'
    BY <1>5 DEF Valid, Identifies, NewStatus
  <2>2. /\ w.status.og = 0
        /\ \A v \in Version : v \in Object /\ v.uid < nextUID => v.uid # w.uid
    BY <1>1, <1>5 DEF NewStatus
  <2>3. Follows(w, w)
    BY <1>1, <2>2 DEF Follows
  <2> QED
    BY <2>1, <2>2, <2>3 DEF Follows
<1>6. CASE /\ stored(n) \in Object /\ w.uid = stored(n).uid
           /\ w.gen = stored(n).gen + 1 /\ w.status = stored(n).status
           /\ w.existing = stored(n).existing
  <2>1. SpecAlias(w) = SpecAlias(stored(n))
    BY <1>6 DEF SpecAlias, SuffixedResourceName
  <2>2. Valid(w)'
    BY <1>1, <1>2, <1>6, <2>1 DEF Known, Valid, Identifies, IDsStay
  <2>3. Follows(w, w)
    BY <1>1, <1>2, <1>6 DEF Known, Follows, Valid
  <2>4. ASSUME NEW v \in Version, Follows(v, stored(n))
        PROVE  Follows(v, w)
    BY <1>1, <1>6, <2>4 DEF Follows
  <2> QED
    BY <1>6, <2>2, <2>3, <2>4
<1>7. CASE /\ PatchStatus /\ job.current /\ n = job.name /\ w = Patched
           /\ Patched \in Object /\ stored(job.name) \in Object
           /\ SameSpec(Patched, stored(job.name)) /\ SameSpec(Patched, job.obj)
           /\ Patched.status = UpdateBucketReadyCondition(job.obj)
  <2>1. job.pc \in Path /\ job.obj \in Object
    BY <1>1, <1>7, PatchEnds DEF Inv, TypeInv, JobOK, Path
  <2>2. Valid(job.obj)
    BY <2>1 DEF FullInv, ReadyInv, VersionsOK, Known
  <2>3. /\ w.status.id = job.obj.status.id /\ w.status.alias = job.obj.status.alias
        /\ w.status.og \in {job.obj.gen, job.obj.status.og}
    <3> DEFINE og == IF Ready(job.obj.status) THEN job.obj.gen
                                             ELSE job.obj.status.og
    <3>1. og \in {job.obj.gen, job.obj.status.og}
      OBVIOUS
    <3>2. w.status = [job.obj.status EXCEPT !.og = og, !.seen = job.obj.gen]
      BY <1>7 DEF UpdateBucketReadyCondition
    <3> HIDE DEF og
    <3> QED
      BY <1>1, <2>1, <3>1, <3>2 DEF Status
  <2>4. SpecAlias(w) = SpecAlias(job.obj)
    BY <1>7 DEF SpecAlias, SameSpec, SuffixedResourceName
  <2>5. w.gen = job.obj.gen /\ w.status.og <= w.gen /\ w.gen > 0
    BY <1>1, <1>7, <2>1, <2>2, <2>3 DEF SameSpec, Valid
  <2>6. Valid(w)'
    BY <1>1, <2>1, <2>2, <2>3, <2>4, <2>5 DEF Valid, Identifies, IDsStay
  <2>7. Follows(w, w)
    BY <1>1, <2>5 DEF Follows
  <2>8. Follows(stored(n), w)
    BY <1>1, <1>7, <2>5 DEF Follows, SameSpec
  <2> QED
    BY <1>7, <2>6, <2>7, <2>8
<1> QED
  <2>1. CASE \A m \in Names : stored(m)' = stored(m)
    BY <1>3, <2>1
  <2>2. CASE \E k \in Names, x \in Version :
               /\ Edited(k, x)
               /\ \A m \in Names : stored(m)' = IF m = k THEN x ELSE stored(m)
    BY <1>3, <1>4, <1>5, <1>6, <2>2
  <2>3. CASE /\ PatchStatus /\ job.current
             /\ Patched \in Object /\ stored(job.name) \in Object
             /\ SameSpec(Patched, stored(job.name)) /\ SameSpec(Patched, job.obj)
             /\ Patched.status = UpdateBucketReadyCondition(job.obj)
             /\ \A m \in Names :
                  stored(m)' = IF m = job.name THEN Patched ELSE stored(m)
    BY <1>3, <1>7, <2>3
  <2> QED
    BY <1>1, <2>1, <2>2, <2>3, StoredChange

LEMMA VersionsNext ==
  ASSUME Calm, FullInv, [Next]_vars
  PROVE  VersionsOK'
<1>1. /\ log \in Logs(Version) /\ Inv /\ UIDsApart /\ IDsStay /\ VersionsOK
      /\ NoObject \notin Object
  BY BucketsNext, NoObjectAssumption
     DEF FullInv, ReadyInv, Inv, TypeInv, NoObjectAssumption
<1>2. /\ (log \in Logs(Version))' /\ (job.pc \in Path => job.obj \in Object)'
      /\ (job.pc \in Path => job.name \in Names)'
  BY <1>1, InvNext DEF Inv, TypeInv, JobOK, Path
<1>3. job.current /\ PatchStatus => fresh(job.name)
  BY <1>1, PatchEnds DEF Inv, CopyStored, Path
<1>4. ASSUME NEW n \in Names, NEW i \in Index(n)', NEW v, v = log'[n][i]
      PROVE  Valid(v)' /\ (stored(n)' \in Object => Follows(v, stored(n)'))
  <2>1. CASE v = stored(n)'
    <3>1. CASE v \in Object
      BY <2>1, <3>1, StoredFollows
    <3>2. CASE v \notin Object
      BY <2>1, <3>2 DEF Valid
    <3> QED
      BY <3>1, <3>2
  <2>2. ASSUME NEW j \in Index(n), v = log[n][j]
        PROVE  Valid(v)' /\ (stored(n)' \in Object => Follows(v, stored(n)'))
    <3>1. /\ Known(n, v) /\ v \in Version /\ (v \in Object => v.uid < nextUID)
      BY <1>1, <2>2, KubeLog DEF VersionsOK, UIDsApart, UIDOf
    <3>2. Valid(v)'
      BY <1>1, <3>1, ValidStays DEF Known
    <3>3. fresh(n) => v = stored(n)
      BY <1>1, <2>2 DEF fresh, stored, Index
    <3> QED
      BY <1>3, <3>1, <3>2, <3>3, StoredFollows DEF Known
  <2> QED
    BY <1>1, <1>4, <2>1, <2>2, LogChange
<1>5. ASSUME job'.pc \in Path, NEW n \in Names, n = job'.name
      PROVE  /\ job'.obj.gen > 0 /\ job'.obj.status.og <= job'.obj.gen
             /\ Identifies(job.obj)'
             /\ stored(n)' \in Object => Follows(job'.obj, stored(n)')
  <2>1. job'.name = job.name /\ n = job.name
    BY <1>1, <1>5, JobCopy
  <2>2. CASE Get /\ job'.obj = cached(n) /\ cached(n) \in Object
    <3>1. /\ 1 \in Index(n)' /\ cached(n) = log'[n][1]
      <4>1. log' = log
        BY <1>1, <2>2, GetFacts
      <4> QED
        BY <1>1, <4>1, KubeLog DEF Index, cached
    <3>2. /\ Valid(cached(n)) /\ 1 \in Index(n)
      BY <1>1, KubeLog DEF VersionsOK, Known, cached
    <3>3. Identifies(job.obj)'
      BY <1>1, <2>2, <3>2 DEF Valid, Identifies, IDsStay
    <3> QED
      BY <1>4, <2>2, <3>1, <3>2, <3>3 DEF Valid
  <2>3. CASE job.pc \in Path /\ SameSpec(job'.obj, job.obj)
    <3>1. job.obj \in Object /\ Known(n, job.obj) /\ job.obj.uid < nextUID
      BY <1>1, <2>1, <2>3 DEF Inv, TypeInv, JobOK, Path, VersionsOK, UIDsApart, UIDOf
    <3>2. Identifies(job.obj)' /\ job'.obj.status.og = job.obj.status.og
      <4>1. CASE MiddleStep
        BY <4>1, MiddleReady
      <4>2. CASE World
        <5>1. job'.obj = job.obj
          BY <1>1, <1>5, <4>2, WorldParts, UserEdited, DeliveryFacts, OthersFacts
             DEF Path
        <5> QED
          BY <1>1, <3>1, <5>1 DEF Known, Valid, Identifies, IDsStay
      <4>3. ~Get /\ ~PatchStatus
        BY <1>1, <1>5, <2>3, GetFacts, PatchEnds DEF Idle, Path
      <4> QED
        BY <4>1, <4>2, <4>3, NextParts
    <3>3. ~PatchStatus
      BY <1>1, <1>5, PatchEnds DEF Idle, Path
    <3>4. stored(n)' \in Object => Follows(job.obj, stored(n)')
      BY <3>1, <3>3, StoredFollows DEF Known, Version
    <3>5. \A o : Follows(job.obj, o) => Follows(job'.obj, o)
      BY <1>2, <1>5, <2>3, <3>1 DEF Follows, SameSpec
    <3> QED
      BY <2>3, <3>1, <3>2, <3>4, <3>5 DEF Known, Valid, SameSpec
  <2> QED
    BY <1>1, <1>5, <2>1, <2>2, <2>3, JobCopy
<1>6. \A n \in Names : \A i \in Index(n)' :
        /\ log'[n][i] \in Object =>
             /\ log'[n][i].gen > 0 /\ log'[n][i].status.og <= log'[n][i].gen
             /\ Identifies(log[n][i])'
        /\ stored(n)' \in Object => Follows(log'[n][i], stored(n)')
  BY <1>4 DEF Valid, Identifies
<1> QED
  BY <1>2, <1>5, <1>6 DEF VersionsOK, Known, Valid, stored

\* What the world may do to a ConfigMap when nobody deletes one that is needed.
LEMMA WorldConfigMaps ==
  ASSUME Calm, Inv, World, NEW c \in ConfigMapNames
  PROVE  \/ cms'[c] = cms[c]
         \/ ~cms[c].exists /\ cms'[c].owner = Foreign
         \/ /\ ~cms'[c].exists
            /\ \A n \in Names : stored(n) # NoObject => stored(n).uid # cms[c].owner
<1>1. "deleteConfigMap" \notin Changes
  BY DEF Calm
<1>2. CASE Delivery
  BY <1>2, DeliveryFacts
<1>3. CASE User
  BY <1>3, UserEdited
<1>4. CASE \/ Tamper \/ OwnershipChanges \/ UNCHANGED vars
           \/ \E x \in ConfigMapNames : CollectGarbage(x)
  BY <1>1, <1>4, OthersFacts
<1> QED
  BY <1>2, <1>3, <1>4, WorldParts

\* The world cannot take from the worker what it has achieved.
LEMMA WorldProgress ==
  ASSUME Calm, FullInv, World
  PROVE  Progress' /\ StaleApart'
<1>1. /\ Inv /\ UIDsApart /\ Progress /\ StaleApart /\ [Next]_vars
      /\ cms \in [ConfigMapNames -> ConfigMap] /\ UNCHANGED <<buckets, nextID>>
      /\ nextUID \in Nat /\ NoObject \notin Object
  BY WorldBuckets, NoObjectAssumption
     DEF FullInv, ReadyInv, Inv, TypeInv, EnvOK, World, Next, NoObjectAssumption
<1>2. CASE job'.pc \notin Path
  BY <1>2 DEF Progress, StaleApart, Path
<1>3. CASE job'.pc \in Path
  <2>1. /\ job'.pc = job.pc /\ job'.name = job.name /\ job'.obj = job.obj
        /\ job'.found = job.found /\ job'.stale = job.stale
    BY <1>1, <1>3, WorldParts, DeliveryFacts, UserEdited, OthersFacts DEF Path
  <2>2. /\ job.name \in Names /\ job.obj \in Object /\ job.obj.cm \in ConfigMapNames
        /\ UIDOf(job.name, job.obj.uid) /\ job.stale \subseteq ConfigMapNames
        /\ job.obj.uid \in Nat
    BY <1>1, <1>3, <2>1 DEF UIDsApart, Inv, TypeInv, JobOK, Job, Path, Object
  <2>3. Alive' => Alive
    <3>1. ASSUME NEW m \in Names, m = job.name, stored(m)' \in Object,
                 stored(m)'.uid = job.obj.uid
          PROVE  stored(m) \in Object /\ stored(m).uid = job.obj.uid
      BY <1>1, <2>2, <3>1, NewUID DEF UIDOf
    <3> QED
      BY <2>1, <2>2, <3>1 DEF Alive, stored
  <2>4. Alive /\ HasConfigMap(job.obj) => HasConfigMap(job.obj)'
    <3> SUFFICES ASSUME Alive, HasConfigMap(job.obj)
                 PROVE  HasConfigMap(job.obj)'
      OBVIOUS
    <3>1. cms[job.obj.cm].exists /\ cms[job.obj.cm].owner = job.obj.uid
      BY DEF HasConfigMap
    <3>2. stored(job.name) # NoObject /\ stored(job.name).uid = job.obj.uid
      BY <1>1 DEF Alive
    <3>3. cms'[job.obj.cm] = cms[job.obj.cm]
      BY <1>1, <2>2, <3>1, <3>2, WorldConfigMaps
    <3> QED
      BY <2>1, <3>3 DEF HasConfigMap, SpecAlias
  <2>5. HasBucket(job.obj)' = HasBucket(job.obj)
    BY <1>1, <2>1 DEF HasBucket, SpecAlias
  <2>6. SpecAlias(job.obj)' = SpecAlias(job.obj)
    BY <2>1 DEF SpecAlias
  <2>7. BucketWithAlias(SpecAlias(job.obj))' = BucketWithAlias(SpecAlias(job.obj))
    BY <1>1, <2>6 DEF BucketWithAlias
  <2>8. Progress'
    BY <1>1, <2>1, <2>3, <2>4, <2>5, <2>6, <2>7 DEF Progress
  <2>9. StaleApart'
    <3> SUFFICES ASSUME job.pc = "DeleteConfigMaps", NEW c \in job.stale
                 PROVE  /\ c # job.obj.cm
                        /\ cms'[c].exists => cms'[c].owner \in {Foreign, job.obj.uid}
      BY <2>1 DEF StaleApart
    <3> QED
      BY <1>1, <2>2, WorldConfigMaps DEF StaleApart
  <2> QED
    BY <2>8, <2>9
<1> QED
  BY <1>2, <1>3

LEMMA ProgressNext ==
  ASSUME Calm, FullInv, [Next]_vars
  PROVE  Progress' /\ StaleApart'
<1>1. CASE Get
  <2>1. \/ job'.pc = "idle"
        \/ job'.pc = "GetOwnerSecret" /\ job'.obj.existing
        \/ job'.pc = "GetBucket" /\ ~job'.obj.existing
    BY <1>1, GetFacts DEF FullInv, Idle
  <2> QED
    BY <2>1 DEF Progress, StaleApart
<1>2. CASE PatchStatus
  <2>1. job'.pc = "idle"
    BY <1>2, PatchEnds DEF FullInv, Idle
  <2> QED
    BY <2>1 DEF Progress, StaleApart
<1> QED
  BY <1>1, <1>2, MiddleReady, WorldProgress, NextParts

\* The worker's copy of a Bucket that claims to be Ready has its spec.
LEMMA ClaimedCopy ==
  ASSUME FullInv, job.pc \in Path, NEW o \in Object, o = stored(job.name),
         ClaimsReady(o)
  PROVE  SameSpec(o, job.obj)
<1>1. job.name \in Names /\ log \in Logs(Version) /\ job.obj \in Object
  BY DEF FullInv, Inv, TypeInv, JobOK, Path
<1>2. Follows(job.obj, o) /\ Known(job.name, stored(job.name))
  BY <1>1, KubeLog DEF FullInv, ReadyInv, VersionsOK, Known, stored
<1>3. o.gen > 0 /\ o.status.og = o.gen
  BY <1>2 DEF Known, Valid, ClaimsReady
<1>4. o.gen \in Nat /\ job.obj.gen \in Nat
  BY <1>1 DEF Object
<1>5. job.obj.uid = o.uid /\ o.gen <= job.obj.gen
  BY <1>1, <1>2, <1>3, <1>4 DEF Follows
<1>6. job.obj.gen = o.gen
  BY <1>1, <1>2, <1>4, <1>5 DEF Follows
<1> QED
  BY <1>1, <1>2, <1>5, <1>6 DEF Follows, SameSpec

\* Only the Bucket's own worker could disturb what it has, and it leaves it so.
LEMMA TruthKept ==
  ASSUME Calm, NoSharedBucket, FullInv, [Next]_vars, NEW n \in Names,
         NEW o \in Object, o = stored(n), ClaimsReady(o)
  PROVE  HasBucket(o)' /\ HasConfigMap(o)'
<1>1. /\ Inv /\ UIDsApart /\ log \in Logs(Version) /\ NoObject \notin Object
      /\ cms \in [ConfigMapNames -> ConfigMap] /\ o.cm \in ConfigMapNames
      /\ buckets \subseteq GarageBucket
  BY NoObjectAssumption
     DEF FullInv, Inv, TypeInv, EnvOK, Object, NoObjectAssumption
<1>2. HasBucket(o) /\ HasConfigMap(o)
  BY DEF FullInv, ReadyInv, Truth
<1>3. UIDOf(n, o.uid)
  BY <1>1, KubeLog DEF UIDsApart, stored
<1>4. job.pc \in Path => /\ UIDOf(job.name, job.obj.uid) /\ job.name \in Names
                         /\ job.obj \in Object
  BY <1>1 DEF UIDsApart, Inv, TypeInv, JobOK, Path
<1>5. job.pc \in Path /\ job.obj.uid = o.uid => n = job.name
  BY <1>4 DEF UIDOf
<1>6. job.pc \in Path /\ n = job.name => SameSpec(o, job.obj)
  BY ClaimedCopy
<1>7. HasBucket(o)'
  <2> DEFINE b == [id |-> o.status.id, alias |-> SpecAlias(o),
                   quota |-> Normal(o.quota)]
  <2>1. b \in buckets /\ b.alias = SpecAlias(o) /\ b.quota = Normal(o.quota)
    BY <1>2 DEF HasBucket
  <2> HIDE DEF b
  <2>2. ASSUME UpdateBucket, b.id = job.found.id,
               [b EXCEPT !.quota = Normal(job.obj.quota)] \in buckets'
        PROVE  b \in buckets'
    <3>1. /\ job.pc \in Path /\ job.found \in buckets
          /\ job.found.alias = SpecAlias(job.obj)
      BY <1>1, <2>2, UpdateBucketFacts DEF FullInv, ReadyInv, Progress, Path
    <3>2. SpecAlias(o) = SpecAlias(job.obj)
      BY <2>1, <2>2, <3>1 DEF FullInv, ReadyInv, BucketsApart
    <3>3. o.existing = job.obj.existing /\ (~o.existing => o.uid = job.obj.uid)
      BY <1>3, <1>4, <3>1, <3>2, AliasOf DEF UIDOf
    <3>4. n = job.name
      <4>1. CASE o.existing
        BY <1>1, <3>1, <3>3, <4>1 DEF NoSharedBucket
      <4>2. CASE ~o.existing
        BY <1>5, <3>1, <3>3, <4>2
      <4> QED
        BY <4>1, <4>2
    <3>5. b.quota = Normal(job.obj.quota)
      BY <1>6, <2>1, <3>1, <3>4 DEF SameSpec
    <3>6. [b EXCEPT !.quota = Normal(job.obj.quota)] = b
      BY <1>1, <2>1, <3>5 DEF GarageBucket
    <3> QED
      BY <2>2, <3>6
  <2>3. b \in buckets'
    BY <2>1, <2>2, BucketsNext DEF QuotasStep
  <2> QED
    BY <2>3 DEF b, HasBucket
<1>8. cms'[o.cm] = cms[o.cm]
  <2>1. cms[o.cm].exists /\ cms[o.cm].owner = o.uid /\ o.uid # Foreign
    BY <1>2, <1>3 DEF HasConfigMap, UIDOf
  <2>2. CASE \/ Get \/ FindStep \/ UpdateBucket \/ GetConfigMap
             \/ ListConfigMaps \/ PatchStatus
    BY <1>1, <2>2, GetFacts, FindFacts, UpdateBucketFacts, GetConfigMapFacts,
       ListFacts, PatchEnds
  <2>3. CASE WriteConfigMap
    <3>1. /\ job.pc \in Path /\ job.obj.status.alias = SpecAlias(job.obj)
          /\ \/ cms' = cms
             \/ /\ cms' = [cms EXCEPT ![job.obj.cm] = WrittenConfigMap]
                /\ cms[job.obj.cm].exists => cms[job.obj.cm].owner = job.obj.uid
      BY <1>1, <2>3, WriteConfigMapFacts DEF FullInv, ReadyInv, Progress, Path
    <3>2. CASE /\ cms' = [cms EXCEPT ![job.obj.cm] = WrittenConfigMap]
               /\ o.cm = job.obj.cm /\ cms[job.obj.cm].owner = job.obj.uid
      <4>1. SameSpec(o, job.obj)
        BY <1>5, <1>6, <2>1, <3>1, <3>2
      <4>2. SpecAlias(o) = SpecAlias(job.obj) /\ o.uid = job.obj.uid
        BY <4>1, SameAlias DEF SameSpec
      <4> QED
        BY <1>1, <1>2, <3>1, <3>2, <4>2 DEF HasConfigMap, WrittenConfigMap
    <3>3. CASE /\ cms' = [cms EXCEPT ![job.obj.cm] = WrittenConfigMap]
               /\ o.cm # job.obj.cm
      BY <1>1, <3>3
    <3> QED
      BY <2>1, <3>1, <3>2, <3>3
  <2>4. CASE DeleteConfigMaps
    <3>1. PICK c \in job.stale : cms' \in {cms, [cms EXCEPT ![c] = NoConfigMap]}
      BY <1>1, <2>4, DeleteFacts
    <3>2. /\ job.pc \in Path /\ c # job.obj.cm
          /\ cms[c].exists => cms[c].owner \in {Foreign, job.obj.uid}
      BY <1>1, <2>4, <3>1, DeleteFacts DEF FullInv, ReadyInv, StaleApart, Path
    <3>3. c # o.cm
      <4>1. o.uid = job.obj.uid => o.cm = job.obj.cm
        BY <1>5, <1>6, <3>2 DEF SameSpec
      <4> QED
        BY <2>1, <3>2, <4>1
    <3> QED
      BY <1>1, <3>1, <3>3
  <2>5. CASE World
    BY <1>1, <2>1, <2>5, WorldConfigMaps
  <2> QED
    BY <2>2, <2>3, <2>4, <2>5, NextParts DEF MiddleStep
<1> QED
  BY <1>2, <1>7, <1>8 DEF HasConfigMap

LEMMA TruthNext ==
  ASSUME Calm, NoSharedBucket, FullInv, [Next]_vars
  PROVE  Truth'
<1>1. /\ Inv /\ log \in Logs(Version) /\ NoObject \notin Object
      /\ \A o \in Object : o.gen \in Nat /\ o.status \in Status /\ o.status.og \in Nat
  BY NoObjectAssumption
     DEF FullInv, Inv, TypeInv, Object, Status, NoObjectAssumption
<1>2. ASSUME NEW n \in Names, NEW w \in Object, w = stored(n)', ClaimsReady(w)
      PROVE  HasBucket(w)' /\ HasConfigMap(w)'
  <2>1. CASE w = stored(n)
    BY <1>2, <2>1, TruthKept
  <2>2. ASSUME NEW k \in Names, NEW x \in Version, Edited(k, x),
               \A m \in Names : stored(m)' = IF m = k THEN x ELSE stored(m)
        PROVE  w = stored(n)
    <3>1. CASE n # k
      BY <1>2, <2>2, <3>1
    <3>2. CASE n = k
      <4>1. w = x /\ w.status.og = w.gen
        BY <1>2, <2>2, <3>2 DEF ClaimsReady
      <4>2. CASE w.gen = 1 /\ w.status = NewStatus
        BY <4>1, <4>2 DEF NewStatus
      <4>3. CASE /\ stored(n) \in Object /\ w.gen = stored(n).gen + 1
                 /\ w.status = stored(n).status
        <5>1. stored(n).status.og <= stored(n).gen
          BY <1>1, <4>3, KubeLog DEF FullInv, ReadyInv, VersionsOK, Known, Valid, stored
        <5> QED
          BY <1>1, <4>1, <4>3, <5>1
      <4> QED
        BY <1>1, <1>2, <2>2, <3>2, <4>1, <4>2, <4>3 DEF Edited
    <3> QED
      BY <3>1, <3>2
  <2>3. CASE /\ PatchStatus /\ job.current /\ n = job.name /\ w = Patched
             /\ SameSpec(Patched, stored(job.name)) /\ SameSpec(Patched, job.obj)
             /\ stored(job.name) \in Object
             /\ Patched.status = UpdateBucketReadyCondition(job.obj)
    <3>1. /\ job.pc = "PatchStatus" /\ UNCHANGED <<buckets, cms>>
          /\ job.obj \in Object /\ job.obj.status \in Status
      BY <1>1, <2>3, PatchEnds DEF Inv, TypeInv, JobOK, Path, Object
    <3>2. /\ w.status.id = job.obj.status.id
          /\ w.status.bucket = job.obj.status.bucket
          /\ w.status.cm = job.obj.status.cm
      BY <2>3, <3>1 DEF UpdateBucketReadyCondition, Status
    <3>3. Ready(job.obj.status)
      BY <1>2, <3>2 DEF ClaimsReady, Ready
    <3>4. Alive
      BY <2>3 DEF Alive, SameSpec
    <3>5. HasBucket(job.obj) /\ HasConfigMap(job.obj)
      BY <3>1, <3>3, <3>4 DEF FullInv, ReadyInv, Progress
    <3>6. SpecAlias(w) = SpecAlias(job.obj)
      BY <2>3, SameAlias
    <3>7. Normal(w.quota) = Normal(job.obj.quota) /\ w.cm = job.obj.cm
          /\ w.uid = job.obj.uid
      BY <2>3 DEF SameSpec
    <3> QED
      BY <3>1, <3>2, <3>5, <3>6, <3>7 DEF HasBucket, HasConfigMap
  <2>4. CASE /\ n # job.name
             /\ \A m \in Names : stored(m)' = IF m = job.name THEN Patched ELSE stored(m)
    BY <1>2, <2>1, <2>4
  <2> QED
    BY <1>1, <1>2, <2>1, <2>2, <2>3, <2>4, StoredChange
<1> QED
  BY <1>2 DEF Truth, HasBucket, HasConfigMap

LEMMA ReadyInit == Init => ReadyInv
<1> SUFFICES ASSUME Init PROVE ReadyInv
  OBVIOUS
<1>1. /\ job.pc = "idle" /\ NoObject \notin Object /\ NoObject \in Version
      /\ buckets = {[id |-> 1, alias |-> Imported, quota |-> 0]} /\ nextID = 2
  BY NoObjectAssumption DEF Init, Idle, Version, NoObjectAssumption
<1>2. \A n \in Names : stored(n) = NoObject /\ \A i \in Index(n) : log[n][i] = NoObject
  <2>1. log \in Logs(Version) /\ \A n \in Names : fresh(n) /\ stored(n) = NoObject
    BY <1>1, KubeStart DEF Init
  <2>2. ASSUME NEW n \in Names, NEW i \in Index(n)
        PROVE  i = Len(log[n])
    <3>1. Len(log[n]) = 1
      BY <2>1 DEF fresh
    <3>2. i \in 1 .. 1
      BY <3>1 DEF Index
    <3> QED
      BY <3>1, <3>2
  <2> QED
    BY <2>1, <2>2 DEF stored
<1>3. BucketsApart
  BY <1>1 DEF BucketsApart, Imported, NoID, NoAlias
<1>4. VersionsOK
  BY <1>1, <1>2 DEF VersionsOK, Known, Valid, Path
<1>5. Progress /\ StaleApart /\ Truth
  BY <1>1, <1>2 DEF Progress, StaleApart, Truth
<1> QED
  BY <1>3, <1>4, <1>5 DEF ReadyInv

LEMMA FullNext ==
  ASSUME Calm
  PROVE  FullInv /\ NoSharedBucket /\ [Next]_vars => FullInv'
BY InvNext, UIDsNext, BucketsNext, VersionsNext, ProgressNext, TruthNext
   DEF FullInv, ReadyInv

LEMMA FullReady == FullInv => ReadyIsTrue
<1> SUFFICES ASSUME FullInv, NEW n \in Names, ClaimsReady(stored(n))
             PROVE  HasBucket(stored(n)) /\ HasConfigMap(stored(n))
  BY DEF ReadyIsTrue, HasBucket, HasConfigMap
<1>1. stored(n) \in Object
  BY KubeLog DEF FullInv, Inv, TypeInv, Version, ClaimsReady
<1> QED
  BY <1>1 DEF FullInv, ReadyInv, Truth

\* Ready tells the truth, although the worker may have read any older version
\* and every create, update and patch may have lost its answer: the recorded
\* bucket is the one the spec asks for, with the spec's quotas, and the
\* ConfigMap the spec names is the Bucket's own and publishes it.
THEOREM ReadyTellsTheTruth ==
  ASSUME Calm
  PROVE  Spec /\ []NoSharedBucket => []ReadyIsTrue
<1>1. Init => FullInv
  BY InvInit, UIDsInit, ReadyInit DEF FullInv
<1> QED
  BY <1>1, FullNext, FullReady, PTL DEF Spec

\* Nothing is imported.
NoneImported == \A n \in Names : stored(n) \in Object => ~stored(n).existing

LEMMA NoneImportedNext ==
  ASSUME Calm, "import" \notin Changes, Inv, NoneImported, [Next]_vars
  PROVE  NoneImported'
<1>1. "switch" \notin Changes
  BY DEF Calm
<1>2. CASE \A n \in Names : stored(n)' = stored(n)
  BY <1>2 DEF NoneImported
<1>3. ASSUME NEW n \in Names, NEW v \in Version, Edited(n, v),
             \A m \in Names : stored(m)' = IF m = n THEN v ELSE stored(m)
      PROVE  NoneImported'
  <2>1. v \in Object => ~v.existing
    BY <1>1, <1>3, NoObjectAssumption DEF Edited, NoneImported, NoObjectAssumption
  <2> QED
    BY <1>3, <2>1 DEF NoneImported
<1>4. CASE /\ stored(job.name) \in Object /\ SameSpec(Patched, stored(job.name))
           /\ \A m \in Names :
                stored(m)' = IF m = job.name THEN Patched ELSE stored(m)
  BY <1>4 DEF NoneImported, SameSpec
<1> QED
  BY <1>2, <1>3, <1>4, StoredChange

\* Where every bucket is one the controller creates, nothing else is needed:
\* no two Buckets can share one.
THEOREM ReadyOfOwnBuckets ==
  ASSUME Calm, "import" \notin Changes
  PROVE  Spec => []ReadyIsTrue
<1>1. Init => NoneImported
  BY KubeStart, NoObjectAssumption DEF Init, NoneImported, Version, NoObjectAssumption
<1>2. Inv /\ NoneImported => NoSharedBucket
  <2> SUFFICES ASSUME Inv, NoneImported, NEW n \in Names, stored(n) # NoObject
               PROVE  ~stored(n).existing
    BY DEF NoSharedBucket
  <2>1. stored(n) \in Object
    BY KubeLog DEF Inv, TypeInv, Version
  <2> QED
    BY <2>1 DEF NoneImported
<1>3. Inv /\ NoneImported /\ [Next]_vars => NoneImported'
  BY NoneImportedNext
<1>4. Spec => []NoSharedBucket
  BY <1>1, <1>2, <1>3, Invariant, PTL DEF Spec
<1> QED
  BY <1>4, ReadyTellsTheTruth, PTL
=============================================================================
