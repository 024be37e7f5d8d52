------------------------- MODULE AccessPolicyProofs -------------------------
(***************************************************************************)
(* Theorems about the AccessPolicy controller, for any number of policies,  *)
(* AccessKeys, Buckets, permissions, changes, failing calls and crashes.    *)
(***************************************************************************)
EXTENDS AccessPolicyController, KubeProofs, TLAPS

Version == Object \cup {NoObject}

\* The calls made for a policy that is kept, and for one the worker has read.
ApplyPath == {"CheckBucket", "RevokeBucket", "CheckAccessKey", "RevokeKey",
              "Deny", "Allow", "PatchStatus"}
Path == {"Revoke", "RemoveFinalizer", "UpdateMeta"} \cup ApplyPath

\* Two versions differ in nothing but the status.
SameSpec(o, p) ==
  /\ o.gen = p.gen /\ o.perms = p.perms /\ o.labelled = p.labelled
  /\ o.finalizer = p.finalizer /\ o.deleting = p.deleting

Grant == [key : Nat, bucket : Nat, perm : Perms]

-----------------------------------------------------------------------------
(* The inductive invariant.                                                 *)

\* The types of everything but the log and the worker.
EnvOK ==
  /\ queue \subseteq Names
  /\ keyCR \in [KeyNames -> Dependency]
  /\ bucketCR \in [BucketNames -> Dependency]
  /\ liveKeys \subseteq Nat /\ nextKey \in Nat \ {0}
  /\ grants \subseteq Grant
  /\ changes \in Nat /\ faults \in Nat

\* The worker has a request, and a version once it is past Get.
JobOK ==
  /\ job \in Job
  /\ job.pc # "idle" => job.name \in Names
  /\ job.pc \in Path => job.obj \in Object /\ job.orig \in Status

TypeInv == log \in Logs(Version) /\ EnvOK /\ JobOK

\* Garage has grants of keys and buckets it knows only, and never hands out
\* the ID that stands for an unset one.
GrantsLive ==
  /\ \A g \in grants : g.key \in liveKeys /\ g.bucket \in BucketIDs
  /\ \A k \in liveKeys : k # NoID /\ k < nextKey

\* A current copy is the stored version, but for what the worker has changed
\* in the status, and so is the cached one.
CopyStored ==
  job.pc \in Path /\ job.current =>
    /\ stored(job.name) # NoObject /\ fresh(job.name)
    /\ SameSpec(stored(job.name), job.obj)
    /\ stored(job.name).status = job.orig

\* Before the dependencies are checked the status is the one that was read.
Untouched ==
  job.pc \in {"Revoke", "RemoveFinalizer", "UpdateMeta"} =>
    job.obj.status = job.orig

\* When SetPermissions allows, it has denied.
Narrowed ==
  job.pc = "Allow" =>
    Granted(job.obj.status.keyID, job.obj.status.bucketID) \subseteq job.obj.perms

\* When the finalizer is removed, nothing is left on the recorded pair.
Revoked ==
  job.pc = "RemoveFinalizer" =>
    \A g \in grants : ~(/\ g.key = job.obj.status.keyID
                        /\ g.bucket = job.obj.status.bucketID)

Inv == TypeInv /\ GrantsLive /\ CopyStored /\ Untouched /\ Narrowed /\ Revoked

-----------------------------------------------------------------------------
(* The helpers of Reconcile.                                                *)

\* The worker moves on within its request.
Goes ==
  /\ JobOK' /\ job'.pc \in Path
  /\ job'.name = job.name /\ job'.orig = job.orig
  /\ job'.current = job.current
  /\ SameSpec(job'.obj, job.obj)

LEMMA FaultsLeft ==
  ASSUME EnvOK, Fault \/ NoFault
  PROVE  faults' \in Nat
<1>1. CASE Fault
  BY <1>1 DEF Fault, EnvOK
<1>2. CASE NoFault
  BY <1>2 DEF NoFault, EnvOK
<1> QED
  BY <1>1, <1>2

LEMMA IdleType == Idle \in Job /\ Idle.pc = "idle"
BY DEF Idle, Job

LEMMA ReturnFacts ==
  ASSUME TypeInv, job.pc # "idle", NEW again \in BOOLEAN, Return(again)
  PROVE  /\ JobOK' /\ (queue \subseteq Names)'
         /\ job'.pc = "idle" /\ job' = Idle
         /\ queue' = IF again THEN queue \cup {job.name} ELSE queue
<1>1. job' = Idle /\ queue' = IF again THEN queue \cup {job.name} ELSE queue
  BY DEF Return
<1>2. queue \subseteq Names /\ job.name \in Names
  BY DEF TypeInv, EnvOK, JobOK
<1> QED
  BY <1>1, <1>2, IdleType DEF JobOK, Path, ApplyPath

LEMMA GotoFacts ==
  ASSUME TypeInv, job.pc \in Path, NEW p \in Path, Goto(p)
  PROVE  Goes /\ job'.pc = p /\ job'.obj = job.obj /\ job'.failed = job.failed
BY DEF TypeInv, JobOK, Goto, Job, Goes, SameSpec, Path, ApplyPath

\* The worker puts a status into its copy, with or without an error.
LEMMA SetStatus ==
  ASSUME TypeInv, job.pc \in Path, NEW st \in Status, NEW p \in Path,
         NEW f \in BOOLEAN,
         \/ job' = [job EXCEPT !.pc = p, !.failed = f,
                               !.obj = [job.obj EXCEPT !.status = st]]
         \/ /\ job' = [job EXCEPT !.pc = p, !.obj = [job.obj EXCEPT !.status = st]]
            /\ f = job.failed
  PROVE  Goes /\ job'.pc = p /\ job'.obj.status = st /\ job'.failed = f
<1>1. job \in Job /\ job.obj \in Object /\ job.orig \in Status /\ job.name \in Names
  BY DEF TypeInv, JobOK, Path, ApplyPath
<1> DEFINE o == [job.obj EXCEPT !.status = st]
<1>2. o \in Object /\ SameSpec(o, job.obj) /\ o.status = st
  BY <1>1 DEF Object, SameSpec
<1> HIDE DEF o
<1>3. CASE job' = [job EXCEPT !.pc = p, !.failed = f, !.obj = o]
  BY <1>1, <1>2, <1>3 DEF Goes, JobOK, Job, Path, ApplyPath
<1>4. CASE job' = [job EXCEPT !.pc = p, !.obj = o] /\ f = job.failed
  BY <1>1, <1>2, <1>4 DEF Goes, JobOK, Job, Path, ApplyPath
<1> QED
  BY <1>3, <1>4 DEF o

LEMMA AssignedFacts ==
  ASSUME TypeInv, job.pc \in Path, Assigned
  PROVE  /\ Goes /\ job'.pc = "PatchStatus" /\ job'.failed = job.failed
         /\ job'.obj.status = [job.obj.status EXCEPT !.assigned = "True"]
<1>1. job \in Job /\ job.obj \in Object
  BY DEF TypeInv, JobOK
<1> DEFINE st == [job.obj.status EXCEPT !.assigned = "True"]
<1>2. st \in Status /\ job.failed \in BOOLEAN
  BY <1>1 DEF Object, Status, Cond, Job
<1>3. job' = [job EXCEPT !.pc = "PatchStatus", !.obj = [job.obj EXCEPT !.status = st]]
  BY <1>1 DEF Assigned, Job, Object
<1> HIDE DEF st
<1>4. "PatchStatus" \in Path
  BY DEF Path, ApplyPath
<1> QED
  BY <1>2, <1>3, <1>4, SetStatus DEF st

LEMMA AssignmentFailedFacts ==
  ASSUME TypeInv, job.pc \in Path, AssignmentFailed
  PROVE  /\ Goes /\ job'.pc = "PatchStatus"
         /\ job'.obj.status = [job.obj.status EXCEPT !.assigned = "False"]
<1>1. job \in Job /\ job.obj \in Object
  BY DEF TypeInv, JobOK
<1> DEFINE st == [job.obj.status EXCEPT !.assigned = "False"]
<1>2. st \in Status
  BY <1>1 DEF Object, Status, Cond
<1>3. job' = [job EXCEPT !.pc = "PatchStatus", !.failed = TRUE,
                         !.obj = [job.obj EXCEPT !.status = st]]
  BY <1>1 DEF AssignmentFailed, Job, Object
<1> HIDE DEF st
<1>4. "PatchStatus" \in Path
  BY DEF Path, ApplyPath
<1> QED
  BY <1>2, <1>3, <1>4, SetStatus DEF st

\* The recorded pair of the worker's copy.
JobKey == job.obj.status.keyID
JobBucket == job.obj.status.bucketID

\* Setting two fields of a status.
LEMMA StatusFields ==
  ASSUME NEW o \in Object, NEW i, NEW t
  PROVE  /\ [o EXCEPT !.status.bucketID = i, !.status.bucket = t] =
              [o EXCEPT !.status = [o.status EXCEPT !.bucketID = i, !.bucket = t]]
         /\ [o EXCEPT !.status.keyID = i, !.status.key = t] =
              [o EXCEPT !.status = [o.status EXCEPT !.keyID = i, !.key = t]]
<1>1. [o EXCEPT !.status.bucketID = i, !.status.bucket = t] =
        [o EXCEPT !.status = [o.status EXCEPT !.bucketID = i, !.bucket = t]]
  BY DEF Object, Status
<1>2. [o EXCEPT !.status.keyID = i, !.status.key = t] =
        [o EXCEPT !.status = [o.status EXCEPT !.keyID = i, !.key = t]]
  BY DEF Object, Status
<1> QED
  BY <1>1, <1>2

\* checkBucket and checkAccessKey.
LEMMA CheckBucketFacts ==
  ASSUME TypeInv, CheckBucket
  PROVE  LET b == bucketCR[BucketOf[job.name]] IN
         /\ Goes /\ job.pc = "CheckBucket"
         /\ job'.pc \in {"RevokeBucket", "CheckAccessKey"}
         /\ job'.obj.status.key = job.obj.status.key
         /\ job'.obj.status.keyID = job.obj.status.keyID
         /\ job'.failed => job'.obj.status.bucket = "False"
         /\ b.exists => /\ job'.pc = "CheckAccessKey"
                        /\ job'.obj.status.bucketID = b.id
                        /\ job'.obj.status.bucket = "True" => b.ready
         /\ ~b.exists => /\ job'.obj.status.bucket = "False"
                         /\ job'.obj.status.bucketID = job.obj.status.bucketID
<1>1. /\ job \in Job /\ job.obj \in Object /\ job.name \in Names
      /\ job.pc = "CheckBucket" /\ job.pc \in Path
  BY DEF TypeInv, JobOK, CheckBucket, At, Path, ApplyPath
<1> DEFINE b == bucketCR[BucketOf[job.name]]
<1>2. b \in Dependency
  BY <1>1, ReferencesAssumption DEF ReferencesAssumption, TypeInv, EnvOK
<1>3. job.obj.status \in Status /\ b.id \in Nat /\ b.ready \in BOOLEAN
  BY <1>1, <1>2 DEF Object, Dependency
<1>4. "CheckAccessKey" \in Path /\ "RevokeBucket" \in Path
  BY DEF Path, ApplyPath
<1>5. CASE ~b.exists
  <2> DEFINE st == [job.obj.status EXCEPT !.bucket = "False"]
             p == IF job.obj.status.bucketID # NoID THEN "RevokeBucket"
                                                    ELSE "CheckAccessKey"
  <2>1. /\ st \in Status /\ st.bucket = "False"
        /\ st.bucketID = job.obj.status.bucketID
        /\ st.key = job.obj.status.key /\ st.keyID = job.obj.status.keyID
    BY <1>3 DEF Status, Cond
  <2>2. job' = [job EXCEPT !.pc = p, !.failed = TRUE,
                           !.obj = [job.obj EXCEPT !.status = st]]
    BY <1>1, <1>5 DEF CheckBucket, Job, Object
  <2>3. p \in {"RevokeBucket", "CheckAccessKey"} /\ p \in Path
    BY <1>4
  <2> HIDE DEF st, p
  <2>4. Goes /\ job'.pc = p /\ job'.obj.status = st
    BY <1>1, <2>1, <2>2, <2>3, SetStatus
  <2> QED
    BY <1>1, <1>5, <2>1, <2>3, <2>4
<1>6. CASE b.exists
  <2> DEFINE st == [job.obj.status EXCEPT !.bucketID = b.id,
                      !.bucket = IF b.ready THEN "True" ELSE "False"]
  <2>1. /\ st \in Status /\ st.bucketID = b.id
        /\ st.bucket = IF b.ready THEN "True" ELSE "False"
        /\ st.key = job.obj.status.key /\ st.keyID = job.obj.status.keyID
    BY <1>3 DEF Status, Cond
  <2>2. PICK f \in BOOLEAN :
          /\ f <=> ~b.ready
          /\ job' = [job EXCEPT !.pc = "CheckAccessKey", !.failed = f,
                                !.obj = [job.obj EXCEPT !.status = st]]
    <3>1. job' = [job EXCEPT !.pc = "CheckAccessKey", !.failed = ~b.ready,
                             !.obj.status.bucketID = b.id,
                             !.obj.status.bucket = IF b.ready THEN "True"
                                                              ELSE "False"]
      BY <1>6, Zenon DEF CheckBucket
    <3>2. PICK f \in BOOLEAN, i \in Nat, t \in Cond :
            /\ f = ~b.ready /\ i = b.id
            /\ t = IF b.ready THEN "True" ELSE "False"
            /\ job' = [job EXCEPT !.pc = "CheckAccessKey", !.failed = f,
                                  !.obj.status.bucketID = i,
                                  !.obj.status.bucket = t]
      <4>1. (~b.ready) \in BOOLEAN
        OBVIOUS
      <4>2. (IF b.ready THEN "True" ELSE "False") \in Cond
        BY DEF Cond
      <4>3. b.id \in Nat
        BY <1>3
      <4> QED
        BY <3>1, <4>1, <4>2, <4>3, Zenon
    <3>3. job' = [job EXCEPT !.pc = "CheckAccessKey", !.failed = f,
                    !.obj = [job.obj EXCEPT !.status =
                      [job.obj.status EXCEPT !.bucketID = i, !.bucket = t]]]
      <4> HIDE DEF b, st
      <4>1. job' = [job EXCEPT !.pc = "CheckAccessKey", !.failed = f,
                               !.obj.status.bucketID = i,
                               !.obj.status.bucket = t]
        BY <3>2
      <4>2. job' = [job EXCEPT !.pc = "CheckAccessKey", !.failed = f,
                      !.obj = [job.obj EXCEPT !.status.bucketID = i,
                                              !.status.bucket = t]]
        BY <1>1, <4>1 DEF Job, Object
      <4>3. [job.obj EXCEPT !.status.bucketID = i, !.status.bucket = t] =
              [job.obj EXCEPT !.status =
                [job.obj.status EXCEPT !.bucketID = i, !.bucket = t]]
        BY <1>1, StatusFields
      <4> QED
        BY <4>2, <4>3
    <3>4. f <=> ~b.ready
      BY <3>2, Zenon
    <3> QED
      BY <3>2, <3>3, <3>4, Zenon
  <2> HIDE DEF st
  <2>3. Goes /\ job'.pc = "CheckAccessKey" /\ job'.obj.status = st /\ job'.failed = f
    BY <1>1, <1>4, <2>1, <2>2, SetStatus
  <2> QED
    BY <1>1, <1>6, <2>1, <2>2, <2>3
<1> QED
  BY <1>5, <1>6

LEMMA CheckAccessKeyFacts ==
  ASSUME TypeInv, CheckAccessKey
  PROVE  LET k == keyCR[KeyOf[job.name]] IN
         /\ Goes /\ job.pc = "CheckAccessKey"
         /\ job'.pc \in {"RevokeKey", "Deny", "PatchStatus"}
         /\ job'.obj.status.bucket = job.obj.status.bucket
         /\ job'.obj.status.bucketID = job.obj.status.bucketID
         /\ k.exists => /\ job'.pc # "RevokeKey"
                        /\ job'.obj.status.keyID = k.id
                        /\ job'.obj.status.key = "True" => k.ready
                        /\ job'.pc = "PatchStatus" =>
                             job.failed \/ job'.obj.status.key = "False"
         /\ ~k.exists => /\ job'.obj.status.key = "False"
                         /\ job'.obj.status.keyID = job.obj.status.keyID
                         /\ job'.pc # "Deny"
<1>1. /\ job \in Job /\ job.obj \in Object /\ job.name \in Names
      /\ job.pc = "CheckAccessKey" /\ job.pc \in Path
  BY DEF TypeInv, JobOK, CheckAccessKey, At, Path, ApplyPath
<1> DEFINE k == keyCR[KeyOf[job.name]]
<1>2. k \in Dependency
  BY <1>1, ReferencesAssumption DEF ReferencesAssumption, TypeInv, EnvOK
<1>3. /\ job.obj.status \in Status /\ k.id \in Nat /\ k.ready \in BOOLEAN
      /\ job.failed \in BOOLEAN
  BY <1>1, <1>2 DEF Object, Dependency, Job
<1>4. "RevokeKey" \in Path /\ "Deny" \in Path /\ "PatchStatus" \in Path
  BY DEF Path, ApplyPath
<1>5. CASE ~k.exists
  <2> DEFINE st == [job.obj.status EXCEPT !.key = "False"]
             p == IF job.obj.status.keyID # NoID THEN "RevokeKey" ELSE "PatchStatus"
  <2>1. /\ st \in Status /\ st.key = "False"
        /\ st.keyID = job.obj.status.keyID
        /\ st.bucket = job.obj.status.bucket
        /\ st.bucketID = job.obj.status.bucketID
    BY <1>3 DEF Status, Cond
  <2>2. job' = [job EXCEPT !.pc = p, !.failed = TRUE,
                           !.obj = [job.obj EXCEPT !.status = st]]
    BY <1>1, <1>5 DEF CheckAccessKey, Job, Object
  <2>3. p \in {"RevokeKey", "PatchStatus"} /\ p \in Path
    BY <1>4
  <2> HIDE DEF st, p
  <2>4. Goes /\ job'.pc = p /\ job'.obj.status = st
    BY <1>1, <2>1, <2>2, <2>3, SetStatus
  <2> QED
    BY <1>1, <1>5, <2>1, <2>3, <2>4
<1>6. CASE k.exists
  <2> DEFINE st == [job.obj.status EXCEPT !.keyID = k.id,
                      !.key = IF k.ready THEN "True" ELSE "False"]
             p == IF job.failed \/ ~k.ready THEN "PatchStatus" ELSE "Deny"
  <2>1. /\ st \in Status /\ st.keyID = k.id
        /\ st.key = IF k.ready THEN "True" ELSE "False"
        /\ st.bucket = job.obj.status.bucket
        /\ st.bucketID = job.obj.status.bucketID
    BY <1>3 DEF Status, Cond
  <2>2. PICK f \in BOOLEAN :
          job' = [job EXCEPT !.pc = p, !.failed = f,
                             !.obj = [job.obj EXCEPT !.status = st]]
    <3>1. job' = [job EXCEPT !.pc = p, !.failed = job.failed \/ ~k.ready,
                             !.obj.status.keyID = k.id,
                             !.obj.status.key = IF k.ready THEN "True"
                                                           ELSE "False"]
      BY <1>6, Zenon DEF CheckAccessKey
    <3>2. PICK f \in BOOLEAN, i \in Nat, t \in Cond :
            /\ i = k.id /\ t = IF k.ready THEN "True" ELSE "False"
            /\ job' = [job EXCEPT !.pc = p, !.failed = f,
                                  !.obj.status.keyID = i,
                                  !.obj.status.key = t]
      <4>1. (job.failed \/ ~k.ready) \in BOOLEAN
        OBVIOUS
      <4>2. (IF k.ready THEN "True" ELSE "False") \in Cond
        BY DEF Cond
      <4>3. k.id \in Nat
        BY <1>3
      <4> QED
        BY <3>1, <4>1, <4>2, <4>3, Zenon
    <3>3. job' = [job EXCEPT !.pc = p, !.failed = f,
                    !.obj = [job.obj EXCEPT !.status =
                      [job.obj.status EXCEPT !.keyID = i, !.key = t]]]
      <4> HIDE DEF k, st, p
      <4>1. job' = [job EXCEPT !.pc = p, !.failed = f,
                               !.obj.status.keyID = i, !.obj.status.key = t]
        BY <3>2
      <4>2. job' = [job EXCEPT !.pc = p, !.failed = f,
                      !.obj = [job.obj EXCEPT !.status.keyID = i,
                                              !.status.key = t]]
        BY <1>1, <4>1 DEF Job, Object
      <4>3. [job.obj EXCEPT !.status.keyID = i, !.status.key = t] =
              [job.obj EXCEPT !.status =
                [job.obj.status EXCEPT !.keyID = i, !.key = t]]
        BY <1>1, StatusFields
      <4> QED
        BY <4>2, <4>3
    <3> QED
      BY <3>2, <3>3, Zenon
  <2>3. /\ p \in {"Deny", "PatchStatus"} /\ p \in Path
        /\ p = "PatchStatus" => job.failed \/ ~k.ready
    BY <1>4
  <2> HIDE DEF st, p
  <2>4. Goes /\ job'.pc = p /\ job'.obj.status = st
    BY <1>1, <2>1, <2>2, <2>3, SetStatus
  <2> QED
    BY <1>1, <1>6, <2>1, <2>3, <2>4
<1> QED
  BY <1>5, <1>6
\* What a denied call leaves: less for the pair, the same for the others.
Denies(P) ==
  grants' = grants \/ grants' = Without(JobKey, JobBucket, P)

LEMMA DeniesFacts ==
  ASSUME NEW P, Denies(P)
  PROVE  /\ grants' \subseteq grants
         /\ \A g \in grants : g.key # JobKey \/ g.bucket # JobBucket => g \in grants'
BY DEF Denies, Without

\* Everything is denied: the pair has nothing.
LEMMA WithoutAll ==
  ASSUME grants \subseteq Grant, NEW k, NEW b, grants' = Without(k, b, Perms)
  PROVE  \A g \in grants' : ~(g.key = k /\ g.bucket = b)
BY DEF Without, Grant

\* The permissions of the spec are allowed as well.
LEMMA WithFacts ==
  ASSUME grants \subseteq Grant, NEW k \in Nat, NEW b \in Nat,
         NEW P \in SUBSET Perms, grants' = With(k, b, P)
  PROVE  /\ grants' \subseteq Grant
         /\ \A g \in grants' : g \in grants \/ (g.key = k /\ g.bucket = b)
         /\ Granted(k, b)' = Granted(k, b) \cup P
         /\ \A c, d : c # k \/ d # b => Granted(c, d)' = Granted(c, d)
<1> DEFINE New == [key : {k}, bucket : {b}, perm : P]
<1>1. grants' = grants \cup New
  BY DEF With
<1>2. \A g \in New : g \in Grant /\ g.key = k /\ g.bucket = b /\ g.perm \in P
  BY DEF Grant
<1>3. \A p \in P : [key |-> k, bucket |-> b, perm |-> p] \in New
  OBVIOUS
<1>4. \A c, d : Granted(c, d)' =
        {g.perm : g \in {h \in grants' : h.key = c /\ h.bucket = d}}
  BY DEF Granted
<1> HIDE DEF New
<1>5. ASSUME NEW c, NEW d, c # k \/ d # b
      PROVE  Granted(c, d)' = Granted(c, d)
  <2>1. {h \in grants' : h.key = c /\ h.bucket = d} =
          {h \in grants : h.key = c /\ h.bucket = d}
    BY <1>1, <1>2, <1>5
  <2> QED
    BY <1>4, <2>1 DEF Granted
<1>6. Granted(k, b)' = Granted(k, b) \cup P
  <2>1. ASSUME NEW p \in Granted(k, b)'
        PROVE  p \in Granted(k, b) \cup P
    <3>1. PICK g \in grants' : g.key = k /\ g.bucket = b /\ p = g.perm
      BY <1>4, <2>1
    <3> QED
      BY <1>1, <1>2, <3>1 DEF Granted
  <2>2. ASSUME NEW p \in Granted(k, b)
        PROVE  p \in Granted(k, b)'
    <3>1. PICK g \in grants : g.key = k /\ g.bucket = b /\ p = g.perm
      BY <2>2 DEF Granted
    <3> QED
      BY <1>1, <1>4, <3>1
  <2>3. ASSUME NEW p \in P
        PROVE  p \in Granted(k, b)'
    <3>1. PICK g \in New : g.perm = p
      BY <1>3, <2>3
    <3> QED
      BY <1>1, <1>2, <1>4, <3>1
  <2> QED
    BY <2>1, <2>2, <2>3
<1> QED
  BY <1>1, <1>2, <1>5, <1>6

-----------------------------------------------------------------------------
(* Every step keeps the invariant.                                          *)

\* The worker moves on, and Garage may have changed.
LEMMA GoesKeeps ==
  ASSUME Inv, Goes,
         UNCHANGED <<log, queue, keyCR, bucketCR, liveKeys, nextKey, changes>>,
         faults' \in Nat, grants' \subseteq Grant,
         \A g \in grants' : g.key \in liveKeys /\ g.bucket \in BucketIDs,
         job'.pc \in {"Revoke", "RemoveFinalizer", "UpdateMeta"} =>
           job'.obj.status = job.orig,
         Narrowed', Revoked', job.pc \in Path
  PROVE  Inv'
<1>1. TypeInv'
  BY DEF Inv, TypeInv, EnvOK, Goes, Logs
<1>2. GrantsLive'
  BY DEF Inv, GrantsLive
<1>3. CopyStored'
  <2>1. /\ job'.name = job.name /\ job'.orig = job.orig
        /\ job'.current = job.current /\ SameSpec(job'.obj, job.obj)
    BY DEF Goes
  <2>2. /\ stored(job.name)' = stored(job.name)
        /\ fresh(job.name)' = fresh(job.name)
    BY <2>1 DEF stored, fresh
  <2> QED
    BY <2>1, <2>2 DEF Inv, CopyStored, SameSpec
<1>4. Untouched'
  BY DEF Goes, Untouched
<1> QED
  BY <1>1, <1>2, <1>3, <1>4 DEF Inv

\* The worker stops, or has not read anything yet.
LEMMA IdleKeeps ==
  ASSUME Inv, EnvOK', JobOK', (log \in Logs(Version))', job'.pc \notin Path,
         GrantsLive'
  PROVE  Inv'
BY DEF Inv, TypeInv, CopyStored, Untouched, Narrowed, Revoked, Path, ApplyPath

LEMMA GetKeeps ==
  ASSUME Inv, Get
  PROVE  Inv'
<1> DEFINE n == job.name
           o == cached(n)
<1>1. /\ job.pc = "Get" /\ job \in Job /\ n \in Names
      /\ log \in Logs(Version) /\ EnvOK /\ TypeInv /\ GrantsLive
  BY DEF Inv, TypeInv, JobOK, Get, At, Path, ApplyPath
<1>2. /\ o \in Version /\ fresh(n) \in BOOLEAN
      /\ fresh(n) => o = stored(n)
  BY <1>1, KubeLog
<1>3. UNCHANGED <<log, keyCR, bucketCR, liveKeys, nextKey, grants, changes, faults>>
  BY DEF Get, deps, garage
<1>4. CASE Return(FALSE)
  <2>1. JobOK' /\ (queue \subseteq Names)' /\ job'.pc = "idle"
    BY <1>1, <1>4, ReturnFacts
  <2>2. EnvOK' /\ (log \in Logs(Version))' /\ GrantsLive'
    BY <1>1, <1>3, <2>1 DEF EnvOK, Logs, Version, GrantsLive
  <2> QED
    BY <2>1, <2>2, IdleKeeps DEF Path, ApplyPath
<1>5. ASSUME NEW p \in {"Revoke", "RemoveFinalizer", "UpdateMeta", "CheckBucket"},
             o # NoObject, UNCHANGED queue,
             job' = [job EXCEPT !.pc = p, !.obj = o, !.orig = o.status,
                                !.current = fresh(n)],
             p = "RemoveFinalizer" =>
               o.status.keyID = NoID \/ o.status.bucketID = NoID
      PROVE  Inv'
  <2>1. o \in Object /\ o.status \in Status
    BY <1>2, <1>5 DEF Version, Object
  <2>2. /\ job' \in Job /\ job'.pc = p /\ job'.name = n
        /\ job'.obj = o /\ job'.orig = o.status /\ job'.current = fresh(n)
    BY <1>1, <1>2, <1>5, <2>1 DEF Job
  <2>3. TypeInv' /\ GrantsLive'
    BY <1>1, <1>3, <1>5, <2>1, <2>2
       DEF TypeInv, JobOK, EnvOK, Logs, Version, GrantsLive
  <2>4. CopyStored'
    BY <1>2, <1>3, <1>5, <2>1, <2>2 DEF CopyStored, SameSpec, stored, fresh, Version
  <2>5. Untouched' /\ Narrowed'
    BY <2>2 DEF Untouched, Narrowed
  <2>6. p # "RemoveFinalizer" => Revoked'
    BY <2>2 DEF Revoked
  <2>7. CASE p = "RemoveFinalizer"
    <3>1. o.status.keyID = NoID \/ o.status.bucketID = NoID
      BY <1>5, <2>7
    <3>2. \A g \in grants : g.key # NoID /\ g.bucket # NoID
      BY <1>1, ReferencesAssumption DEF GrantsLive, ReferencesAssumption
    <3>3. Revoked'
      BY <1>3, <2>2, <3>1, <3>2 DEF Revoked
    <3> QED
      BY <2>3, <2>4, <2>5, <3>3 DEF Inv
  <2> QED
    BY <2>3, <2>4, <2>5, <2>6, <2>7 DEF Inv
<1> QED
  BY <1>4, <1>5 DEF Get
\* The finalizer revokes, whatever Garage answers.
LEMMA RevokeKeeps ==
  ASSUME Inv, Revoke
  PROVE  Inv'
<1>1. /\ job.pc = "Revoke" /\ job.pc \in Path /\ TypeInv /\ EnvOK
      /\ log \in Logs(Version) /\ grants \subseteq Grant
      /\ "RemoveFinalizer" \in Path /\ GrantsLive
  BY DEF Inv, TypeInv, EnvOK, Revoke, At, Path, ApplyPath
<1>2. UNCHANGED <<log, keyCR, bucketCR, liveKeys, nextKey, changes>>
  BY DEF Revoke, deps
<1>3. Fault \/ NoFault
  BY DEF Revoke, Deny
<1>4. faults' \in Nat
  BY <1>1, <1>3, FaultsLeft
<1>5. Denies(Perms)
  BY DEF Revoke, Deny, Denies, JobKey, JobBucket
<1>6. /\ grants' \subseteq Grant
      /\ \A g \in grants' : g.key \in liveKeys /\ g.bucket \in BucketIDs
  BY <1>1, <1>5, DeniesFacts DEF GrantsLive
<1>7. CASE Return(TRUE)
  <2>1. JobOK' /\ (queue \subseteq Names)' /\ job'.pc = "idle"
    BY <1>1, <1>7, ReturnFacts
  <2>2. EnvOK' /\ (log \in Logs(Version))' /\ GrantsLive'
    BY <1>1, <1>2, <1>4, <1>6, <2>1 DEF EnvOK, Logs, Version, GrantsLive
  <2> QED
    BY <2>1, <2>2, IdleKeeps DEF Path, ApplyPath
<1>8. CASE /\ Goto("RemoveFinalizer") /\ UNCHANGED queue
           /\ \/ Known(JobKey, JobBucket) /\ grants' = Without(JobKey, JobBucket, Perms)
              \/ ~Known(JobKey, JobBucket) /\ UNCHANGED grants
  <2>1. Goes /\ job'.pc = "RemoveFinalizer" /\ job'.obj = job.obj /\ job'.orig = job.orig
    <3>1. Goes /\ job'.pc = "RemoveFinalizer" /\ job'.obj = job.obj
      BY <1>1, <1>8, GotoFacts
    <3> QED
      BY <3>1 DEF Goes
  <2>2. job'.obj.status = job.orig
    BY <1>1, <2>1 DEF Inv, Untouched
  <2>3. Narrowed'
    BY <2>1 DEF Narrowed
  <2>4. \A g \in grants' : ~(g.key = JobKey /\ g.bucket = JobBucket)
    <3>1. CASE grants' = Without(JobKey, JobBucket, Perms)
      BY <1>1, <3>1, WithoutAll
    <3>2. CASE ~Known(JobKey, JobBucket) /\ UNCHANGED grants
      BY <1>1, <3>2 DEF Known, GrantsLive
    <3> QED
      BY <1>8, <3>1, <3>2
  <2>5. Revoked'
    BY <2>1, <2>4 DEF Revoked, JobKey, JobBucket
  <2> QED
    BY <1>1, <1>2, <1>4, <1>6, <1>8, <2>1, <2>2, <2>3, <2>5, GoesKeeps
<1> QED
  BY <1>7, <1>8 DEF Revoke, Deny, JobKey, JobBucket

\* A write of the worker, or none, and the end of the reconcile.
Finishes(v) ==
  /\ job.pc \in Path /\ v \in Version
  /\ \E again \in BOOLEAN : Return(again)
  /\ Fault \/ NoFault
  /\ \/ UNCHANGED log
     \/ job.current /\ Store(job.name, v)
  /\ UNCHANGED <<keyCR, bucketCR, liveKeys, nextKey, grants, changes>>

LEMMA FinishesKeeps ==
  ASSUME Inv, NEW v, Finishes(v)
  PROVE  Inv'
<1>1. /\ TypeInv /\ EnvOK /\ log \in Logs(Version) /\ GrantsLive
      /\ job.pc # "idle" /\ job.name \in Names /\ v \in Version
  BY DEF Inv, TypeInv, JobOK, Finishes, Path, ApplyPath
<1>2. PICK again \in BOOLEAN : Return(again)
  BY DEF Finishes
<1>3. JobOK' /\ (queue \subseteq Names)' /\ job'.pc = "idle"
  BY <1>1, <1>2, ReturnFacts
<1>4. faults' \in Nat
  BY <1>1, FaultsLeft DEF Finishes
<1>5. (log \in Logs(Version))'
  <2>1. CASE UNCHANGED log
    BY <1>1, <2>1 DEF Logs, Version
  <2>2. CASE Store(job.name, v)
    <3>1. log' \in Logs(Version)
      BY <1>1, <2>2, KubeStore
    <3> QED
      BY <3>1 DEF Logs, Version
  <2> QED
    BY <2>1, <2>2 DEF Finishes
<1>6. EnvOK' /\ GrantsLive'
  BY <1>1, <1>3, <1>4 DEF EnvOK, GrantsLive, Finishes
<1> QED
  BY <1>3, <1>5, <1>6, IdleKeeps DEF Path, ApplyPath

\* What UpdateMeta and PatchStatus write.
UpdatedMeta == [job.obj EXCEPT !.labelled = TRUE, !.finalizer = TRUE]
NewestStatus == UpdateAccessPolicyCondition(job.obj)
Patched == [stored(job.name) EXCEPT !.status = NewestStatus]

LEMMA RemoveFinalizerFinishes ==
  ASSUME Inv, RemoveFinalizer
  PROVE  Finishes(NoObject)
<1>1. job.pc \in Path /\ NoObject \in Version
  BY DEF RemoveFinalizer, At, Path, Version
<1> QED
  BY <1>1 DEF RemoveFinalizer, Finishes, OptimisticLock, deps, garage

LEMMA UpdateMetaFinishes ==
  ASSUME Inv, UpdateMeta
  PROVE  /\ Finishes(UpdatedMeta) /\ job.pc = "UpdateMeta"
         /\ UpdatedMeta \in Object
         /\ UpdatedMeta.labelled = TRUE /\ UpdatedMeta.finalizer = TRUE
         /\ UpdatedMeta.status = job.orig
<1>1. job.pc \in Path /\ job.pc = "UpdateMeta"
  BY DEF UpdateMeta, At, Path
<1>2. job.obj \in Object /\ job.obj.status = job.orig
  BY <1>1 DEF Inv, TypeInv, JobOK, Untouched
<1>3. /\ UpdatedMeta \in Object
      /\ UpdatedMeta.labelled = TRUE /\ UpdatedMeta.finalizer = TRUE
      /\ UpdatedMeta.status = job.orig
  BY <1>2 DEF UpdatedMeta, Object
<1>4. UpdatedMeta \in Version
  BY <1>3 DEF Version
<1>5. Finishes(UpdatedMeta)
  BY <1>1, <1>4 DEF UpdateMeta, Finishes, OptimisticLock, deps, garage, UpdatedMeta
<1> QED
  BY <1>1, <1>3, <1>5

LEMMA PatchFacts ==
  ASSUME Inv, job.pc = "PatchStatus"
  PROVE  /\ NewestStatus \in Status /\ job.obj \in Object /\ job.name \in Names
         /\ NewestStatus.keyID = JobKey /\ NewestStatus.bucketID = JobBucket
         /\ NewestStatus.key = job.obj.status.key
         /\ NewestStatus.bucket = job.obj.status.bucket
         /\ NewestStatus.assigned = job.obj.status.assigned
         /\ job.current => /\ stored(job.name) \in Object /\ Patched \in Object
                           /\ Patched.status = NewestStatus
                           /\ SameSpec(Patched, stored(job.name))
                           /\ SameSpec(Patched, job.obj)
<1>1. job.pc \in Path
  BY DEF Path, ApplyPath
<1>2. job.obj \in Object /\ job.name \in Names /\ log \in Logs(Version)
  BY <1>1 DEF Inv, TypeInv, JobOK, Path, ApplyPath
<1>3. job.obj.status \in Status /\ job.obj.gen \in Nat
  BY <1>2 DEF Object
<1> DEFINE st == job.obj.status
           g == IF Ready(st) THEN job.obj.gen ELSE st.og
<1>4. g \in Nat
  BY <1>3 DEF Status
<1>5. NewestStatus = [st EXCEPT !.og = g, !.seen = job.obj.gen]
  BY DEF NewestStatus, UpdateAccessPolicyCondition
<1> HIDE DEF g
<1>6. /\ NewestStatus \in Status
      /\ NewestStatus.keyID = JobKey /\ NewestStatus.bucketID = JobBucket
      /\ NewestStatus.key = job.obj.status.key
      /\ NewestStatus.bucket = job.obj.status.bucket
      /\ NewestStatus.assigned = job.obj.status.assigned
  BY <1>3, <1>4, <1>5 DEF Status, JobKey, JobBucket
<1>7. ASSUME job.current
      PROVE  /\ stored(job.name) \in Object /\ Patched \in Object
             /\ Patched.status = NewestStatus
             /\ SameSpec(Patched, stored(job.name))
             /\ SameSpec(Patched, job.obj)
  <2>1. stored(job.name) \in Object /\ SameSpec(stored(job.name), job.obj)
    <3>1. stored(job.name) \in Version /\ stored(job.name) # NoObject
      BY <1>1, <1>2, <1>7, KubeLog DEF Inv, CopyStored
    <3> QED
      BY <1>1, <1>7, <3>1 DEF Version, Inv, CopyStored
  <2> DEFINE o == stored(job.name)
             s == NewestStatus
  <2>2. Patched = [o EXCEPT !.status = s]
    BY DEF Patched
  <2> HIDE DEF o, s
  <2>3. /\ Patched \in Object /\ Patched.status = s /\ SameSpec(Patched, o)
    BY <1>6, <2>1, <2>2 DEF Object, SameSpec, o, s
  <2> QED
    BY <2>1, <2>3 DEF SameSpec, o, s
<1> QED
  BY <1>2, <1>6, <1>7

LEMMA PatchFinishes ==
  ASSUME Inv, PatchStatus
  PROVE  \/ job.current /\ Finishes(Patched)
         \/ Finishes(NoObject) /\ UNCHANGED log
<1>1. job.pc \in Path /\ job.pc = "PatchStatus" /\ NoObject \in Version
  BY DEF PatchStatus, At, Path, ApplyPath, Version
<1>2. job.failed \in BOOLEAN
  BY DEF Inv, TypeInv, JobOK, Job
<1>3. /\ \E again \in BOOLEAN : Return(again)
      /\ Fault \/ NoFault
      /\ UNCHANGED <<keyCR, bucketCR, liveKeys, nextKey, grants, changes>>
      /\ UNCHANGED log \/ (job.current /\ Store(job.name, Patched))
  BY <1>2 DEF PatchStatus, OptimisticLock, deps, garage, Patched, NewestStatus
<1>4. CASE UNCHANGED log
  BY <1>1, <1>3, <1>4 DEF Finishes
<1>5. CASE job.current /\ Store(job.name, Patched)
  <2>1. Patched \in Version
    BY <1>1, <1>5, PatchFacts DEF Version
  <2> QED
    BY <1>1, <1>3, <1>5, <2>1 DEF Finishes
<1> QED
  BY <1>3, <1>4, <1>5
\* checkBucket and checkAccessKey, when the dependency is there or not.
LEMMA ChecksKeep ==
  ASSUME Inv, CheckBucket \/ CheckAccessKey
  PROVE  Inv'
<1>1. /\ TypeInv /\ EnvOK /\ GrantsLive /\ grants \subseteq Grant
      /\ job.pc \in Path
  BY DEF Inv, TypeInv, EnvOK, CheckBucket, CheckAccessKey, At, Path, ApplyPath
<1>2. UNCHANGED <<log, queue, keyCR, bucketCR, liveKeys, nextKey, grants, changes, faults>>
  BY DEF CheckBucket, CheckAccessKey, deps, garage
<1>3. /\ Goes
      /\ job'.pc \in {"RevokeBucket", "CheckAccessKey", "RevokeKey", "Deny", "PatchStatus"}
  BY <1>1, CheckBucketFacts, CheckAccessKeyFacts
<1>4. Narrowed' /\ Revoked'
  BY <1>3 DEF Narrowed, Revoked
<1> QED
  BY <1>1, <1>2, <1>3, <1>4, GoesKeeps DEF EnvOK, GrantsLive

\* The dependency is gone: the worker denies everything and forgets an ID.
LEMMA RevokeBucketFacts ==
  ASSUME TypeInv, RevokeBucket
  PROVE  /\ Goes /\ job.pc = "RevokeBucket" /\ job'.pc = "CheckAccessKey"
         /\ Denies(Perms)
         /\ Fault \/ NoFault
         /\ job'.obj.status = [job.obj.status EXCEPT !.bucketID = NoID]
         /\ job'.failed = job.failed
<1>1. job.pc = "RevokeBucket" /\ job.pc \in Path /\ "CheckAccessKey" \in Path
  BY DEF RevokeBucket, At, Path, ApplyPath
<1>2. job \in Job /\ job.obj \in Object /\ job.failed \in BOOLEAN
  BY <1>1 DEF TypeInv, JobOK, Job
<1> DEFINE st == [job.obj.status EXCEPT !.bucketID = NoID]
<1>3. st \in Status
  BY <1>2 DEF Object, Status, NoID
<1>4. job' = [job EXCEPT !.pc = "CheckAccessKey", !.obj.status.bucketID = NoID]
  BY DEF RevokeBucket, Deny
<1>5. job' = [job EXCEPT !.pc = "CheckAccessKey",
                         !.obj = [job.obj EXCEPT !.status = st]]
  BY <1>2, <1>4 DEF Job, Object
<1> HIDE DEF st
<1>6. /\ Goes /\ job'.pc = "CheckAccessKey" /\ job'.obj.status = st
      /\ job'.failed = job.failed
  BY <1>1, <1>2, <1>3, <1>5, SetStatus
<1>7. Denies(Perms) /\ (Fault \/ NoFault)
  BY DEF RevokeBucket, Deny, Denies, JobKey, JobBucket
<1> QED
  BY <1>1, <1>6, <1>7 DEF st

LEMMA RevokeKeyFacts ==
  ASSUME TypeInv, RevokeKey
  PROVE  /\ Goes /\ job.pc = "RevokeKey" /\ job'.pc = "PatchStatus"
         /\ Denies(Perms)
         /\ Fault \/ NoFault
         /\ job'.obj.status = [job.obj.status EXCEPT !.keyID = NoID]
         /\ job'.failed = job.failed
<1>1. job.pc = "RevokeKey" /\ job.pc \in Path /\ "PatchStatus" \in Path
  BY DEF RevokeKey, At, Path, ApplyPath
<1>2. job \in Job /\ job.obj \in Object /\ job.failed \in BOOLEAN
  BY <1>1 DEF TypeInv, JobOK, Job
<1> DEFINE st == [job.obj.status EXCEPT !.keyID = NoID]
<1>3. st \in Status
  BY <1>2 DEF Object, Status, NoID
<1>4. job' = [job EXCEPT !.pc = "PatchStatus", !.obj.status.keyID = NoID]
  BY DEF RevokeKey, Deny
<1>5. job' = [job EXCEPT !.pc = "PatchStatus",
                         !.obj = [job.obj EXCEPT !.status = st]]
  BY <1>2, <1>4 DEF Job, Object
<1> HIDE DEF st
<1>6. /\ Goes /\ job'.pc = "PatchStatus" /\ job'.obj.status = st
      /\ job'.failed = job.failed
  BY <1>1, <1>2, <1>3, <1>5, SetStatus
<1>7. Denies(Perms) /\ (Fault \/ NoFault)
  BY DEF RevokeKey, Deny, Denies, JobKey, JobBucket
<1> QED
  BY <1>1, <1>6, <1>7 DEF st

LEMMA RevokesKeep ==
  ASSUME Inv, RevokeBucket \/ RevokeKey
  PROVE  Inv'
<1>1. /\ TypeInv /\ EnvOK /\ GrantsLive /\ grants \subseteq Grant
      /\ job.pc \in Path
  BY DEF Inv, TypeInv, EnvOK, RevokeBucket, RevokeKey, At, Path, ApplyPath
<1>2. UNCHANGED <<log, queue, keyCR, bucketCR, liveKeys, nextKey, changes>>
  BY DEF RevokeBucket, RevokeKey, deps
<1>3. /\ Goes /\ job'.pc \in {"CheckAccessKey", "PatchStatus"}
      /\ Denies(Perms)
      /\ Fault \/ NoFault
  BY <1>1, RevokeBucketFacts, RevokeKeyFacts
<1>4. Narrowed' /\ Revoked'
  BY <1>3 DEF Narrowed, Revoked
<1>5. faults' \in Nat
  BY <1>1, <1>3, FaultsLeft
<1>6. /\ grants' \subseteq Grant
      /\ \A g \in grants' : g.key \in liveKeys /\ g.bucket \in BucketIDs
  BY <1>1, <1>3, DeniesFacts DEF GrantsLive
<1> QED
  BY <1>1, <1>2, <1>3, <1>4, <1>5, <1>6, GoesKeeps

\* SetPermissions denies the others, and may be done.
LEMMA DenyOthersFacts ==
  ASSUME Inv, DenyOthers
  PROVE  /\ Goes /\ job.pc = "Deny"
         /\ Fault \/ NoFault
         /\ Denies(Complement(job.obj.perms))
         /\ JobKey' = JobKey /\ JobBucket' = JobBucket
         /\ \/ /\ job'.pc = "Allow" /\ job'.obj = job.obj
               /\ Granted(JobKey, JobBucket)' \subseteq job.obj.perms
            \/ /\ job'.pc = "PatchStatus"
               /\ job'.obj.status = [job.obj.status EXCEPT !.assigned = "True"]
               /\ Granted(JobKey, JobBucket)' = job.obj.perms
            \/ /\ job'.pc = "PatchStatus"
               /\ job'.obj.status = [job.obj.status EXCEPT !.assigned = "False"]
<1>1. /\ job.pc = "Deny" /\ job.pc \in Path /\ "Allow" \in Path /\ TypeInv
      /\ grants \subseteq Grant
  BY DEF Inv, TypeInv, EnvOK, DenyOthers, At, Path, ApplyPath
<1>2. job.obj.status \in Status
  BY <1>1 DEF TypeInv, JobOK, Object
<1>3. /\ Fault \/ NoFault
      /\ Denies(Complement(job.obj.perms))
  BY DEF DenyOthers, Deny, Denies, JobKey, JobBucket
<1>4. \A t : LET st == [job.obj.status EXCEPT !.assigned = t]
             IN st.keyID = JobKey /\ st.bucketID = JobBucket
  BY <1>2 DEF Status, JobKey, JobBucket
<1>5. CASE AssignmentFailed
  <2>1. /\ Goes /\ job'.pc = "PatchStatus"
        /\ job'.obj.status = [job.obj.status EXCEPT !.assigned = "False"]
    BY <1>1, <1>5, AssignmentFailedFacts
  <2> QED
    BY <1>1, <1>3, <1>4, <2>1 DEF JobKey, JobBucket
<1>6. CASE /\ grants' = Without(JobKey, JobBucket, Complement(job.obj.perms))
           /\ IF job.obj.perms = {} THEN Assigned ELSE Goto("Allow")
  <2>1. /\ Goes
        /\ \/ /\ job.obj.perms = {} /\ job'.pc = "PatchStatus"
              /\ job'.obj.status = [job.obj.status EXCEPT !.assigned = "True"]
           \/ job'.pc = "Allow" /\ job'.obj = job.obj
    BY <1>1, <1>6, AssignedFacts, GotoFacts
  <2>2. JobKey' = JobKey /\ JobBucket' = JobBucket
    BY <1>4, <2>1 DEF JobKey, JobBucket
  <2>3. Granted(JobKey, JobBucket)' = {g.perm : g \in {h \in grants' :
                                h.key = JobKey /\ h.bucket = JobBucket}}
    BY <2>2 DEF Granted
  <2>4. ASSUME NEW g \in grants', g.key = JobKey, g.bucket = JobBucket
        PROVE  g.perm \in job.obj.perms
    BY <1>1, <1>6, <2>4 DEF Without, Complement, Grant
  <2>5. Granted(JobKey, JobBucket)' \subseteq job.obj.perms
    BY <2>3, <2>4
  <2> QED
    BY <1>1, <1>3, <2>1, <2>2, <2>5
<1> QED
  BY <1>5, <1>6 DEF DenyOthers, Deny, JobKey, JobBucket

LEMMA DenyOthersKeeps ==
  ASSUME Inv, DenyOthers
  PROVE  Inv'
<1>1. /\ TypeInv /\ EnvOK /\ GrantsLive /\ grants \subseteq Grant
      /\ job.pc \in Path
  BY DEF Inv, TypeInv, EnvOK, DenyOthers, At, Path, ApplyPath
<1>2. UNCHANGED <<log, queue, keyCR, bucketCR, liveKeys, nextKey, changes>>
  BY DEF DenyOthers, deps
<1>3. /\ Goes /\ Denies(Complement(job.obj.perms))
      /\ Fault \/ NoFault
      /\ \/ /\ job'.pc = "Allow" /\ job'.obj = job.obj
            /\ Granted(JobKey, JobBucket)' \subseteq job.obj.perms
         \/ job'.pc = "PatchStatus"
  BY DenyOthersFacts
<1>4. Narrowed' /\ Revoked'
  BY <1>3 DEF Narrowed, Revoked, JobKey, JobBucket
<1>5. faults' \in Nat
  BY <1>1, <1>3, FaultsLeft
<1>6. /\ grants' \subseteq Grant
      /\ \A g \in grants' : g.key \in liveKeys /\ g.bucket \in BucketIDs
  BY <1>1, <1>3, DeniesFacts DEF GrantsLive
<1>7. job'.pc \notin {"Revoke", "RemoveFinalizer", "UpdateMeta"}
  BY <1>3
<1> QED
  BY <1>1, <1>2, <1>3, <1>4, <1>5, <1>6, <1>7, GoesKeeps

\* SetPermissions allows what the spec says, and is done or fails.
LEMMA AllowFacts ==
  ASSUME Inv, Allow
  PROVE  /\ Goes /\ job.pc = "Allow" /\ job'.pc = "PatchStatus"
         /\ Fault \/ NoFault
         /\ JobKey' = JobKey /\ JobBucket' = JobBucket
         /\ \/ UNCHANGED grants
            \/ /\ Known(JobKey, JobBucket)
               /\ grants' = With(JobKey, JobBucket, job.obj.perms)
               /\ Granted(JobKey, JobBucket)' = job.obj.perms
         /\ \/ /\ job'.obj.status = [job.obj.status EXCEPT !.assigned = "True"]
               /\ Granted(JobKey, JobBucket)' = job.obj.perms
            \/ job'.obj.status = [job.obj.status EXCEPT !.assigned = "False"]
<1>1. /\ job.pc = "Allow" /\ job.pc \in Path /\ TypeInv
      /\ grants \subseteq Grant
      /\ Granted(JobKey, JobBucket) \subseteq job.obj.perms
  BY DEF Inv, TypeInv, EnvOK, Allow, At, Path, ApplyPath, Narrowed, JobKey, JobBucket
<1>2. /\ job.obj.status \in Status /\ job.obj.perms \in SUBSET Perms
      /\ JobKey \in Nat /\ JobBucket \in Nat
  BY <1>1 DEF TypeInv, JobOK, Object, Status, JobKey, JobBucket
<1>3. Fault \/ NoFault
  BY DEF Allow
<1>4. \/ UNCHANGED grants /\ AssignmentFailed
      \/ /\ Known(JobKey, JobBucket)
         /\ Assigned \/ AssignmentFailed
         /\ grants' = With(JobKey, JobBucket, job.obj.perms)
  BY DEF Allow, JobKey, JobBucket
<1>5. /\ Goes /\ job'.pc = "PatchStatus"
      /\ \/ job'.obj.status = [job.obj.status EXCEPT !.assigned = "True"]
         \/ job'.obj.status = [job.obj.status EXCEPT !.assigned = "False"]
      /\ AssignmentFailed =>
           job'.obj.status = [job.obj.status EXCEPT !.assigned = "False"]
  BY <1>1, <1>4, AssignedFacts, AssignmentFailedFacts
<1>6. \A t : LET st == [job.obj.status EXCEPT !.assigned = t]
             IN st.keyID = JobKey /\ st.bucketID = JobBucket
  BY <1>2 DEF Status, JobKey, JobBucket
<1>7. JobKey' = JobKey /\ JobBucket' = JobBucket
  <2>1. PICK t : job'.obj.status = [job.obj.status EXCEPT !.assigned = t]
    BY <1>5
  <2>2. job'.obj.status.keyID = JobKey /\ job'.obj.status.bucketID = JobBucket
    BY <1>6, <2>1
  <2> QED
    BY <2>2 DEF JobKey, JobBucket
<1>8. CASE UNCHANGED grants /\ AssignmentFailed
  BY <1>1, <1>3, <1>5, <1>7, <1>8
<1>9. CASE /\ Known(JobKey, JobBucket)
           /\ grants' = With(JobKey, JobBucket, job.obj.perms)
  <2>1. Granted(JobKey, JobBucket)' =
          {g.perm : g \in {h \in grants' : h.key = JobKey /\ h.bucket = JobBucket}}
    BY <1>7 DEF Granted
  <2>2. \A g \in grants' : g.key = JobKey /\ g.bucket = JobBucket =>
                             g.perm \in job.obj.perms
    BY <1>1, <1>2, <1>9 DEF With, Granted
  <2>3. ASSUME NEW p \in job.obj.perms
        PROVE  \E g \in grants' : g.key = JobKey /\ g.bucket = JobBucket /\ g.perm = p
    <3>1. [key |-> JobKey, bucket |-> JobBucket, perm |-> p] \in
            [key : {JobKey}, bucket : {JobBucket}, perm : job.obj.perms]
      OBVIOUS
    <3>2. [key |-> JobKey, bucket |-> JobBucket, perm |-> p] \in grants'
      BY <1>9, <3>1 DEF With
    <3> QED
      BY <3>2
  <2>4. Granted(JobKey, JobBucket)' = job.obj.perms
    BY <2>1, <2>2, <2>3
  <2> QED
    BY <1>1, <1>3, <1>5, <1>7, <1>9, <2>4
<1> QED
  BY <1>4, <1>8, <1>9

LEMMA AllowKeeps ==
  ASSUME Inv, Allow
  PROVE  Inv'
<1>1. /\ TypeInv /\ EnvOK /\ GrantsLive /\ grants \subseteq Grant
      /\ job.pc \in Path /\ job.obj.perms \in SUBSET Perms
      /\ JobKey \in Nat /\ JobBucket \in Nat
  BY DEF Inv, TypeInv, EnvOK, Allow, At, Path, ApplyPath, JobOK, Object, Status,
         JobKey, JobBucket
<1>2. UNCHANGED <<log, queue, keyCR, bucketCR, liveKeys, nextKey, changes>>
  BY DEF Allow, deps
<1>3. /\ Goes /\ job'.pc = "PatchStatus"
      /\ Fault \/ NoFault
      /\ \/ UNCHANGED grants
         \/ /\ Known(JobKey, JobBucket)
            /\ grants' = With(JobKey, JobBucket, job.obj.perms)
  BY AllowFacts
<1>4. Narrowed' /\ Revoked'
  BY <1>3 DEF Narrowed, Revoked
<1>5. faults' \in Nat
  BY <1>1, <1>3, FaultsLeft
<1>6. /\ grants' \subseteq Grant
      /\ \A g \in grants' : g.key \in liveKeys /\ g.bucket \in BucketIDs
  BY <1>1, <1>3 DEF GrantsLive, With, Known, Grant
<1>7. job'.pc \notin {"Revoke", "RemoveFinalizer", "UpdateMeta"}
  BY <1>3
<1> QED
  BY <1>1, <1>2, <1>3, <1>4, <1>5, <1>6, <1>7, GoesKeeps

LEMMA StepKeeps ==
  ASSUME Inv, Step
  PROVE  Inv'
<1>1. CASE RemoveFinalizer
  BY <1>1, RemoveFinalizerFinishes, FinishesKeeps
<1>2. CASE UpdateMeta
  BY <1>2, UpdateMetaFinishes, FinishesKeeps
<1>3. CASE PatchStatus
  BY <1>3, PatchFinishes, FinishesKeeps
<1> QED
  BY <1>1, <1>2, <1>3, GetKeeps, RevokeKeeps, ChecksKeep, RevokesKeep,
     DenyOthersKeeps, AllowKeeps DEF Step
\* What users do to a policy: a new one, a change of its spec or its labels,
\* or a deletion, which removes it only without the finalizer.
User(n) ==
  \/ \E perms \in SUBSET Perms : UserCreates(n, perms) \/ UserEdits(n, perms)
  \/ UserUnlabels(n) \/ UserDeletes(n)

Written(n, v) ==
  /\ UserWrites(n, v) /\ v # stored(n) /\ changes' \in Nat
  /\ \/ stored(n) = NoObject /\ v \in Object /\ v.status = NewStatus
     \/ stored(n) \in Object /\ v \in Object /\ v.status = stored(n).status
     \/ stored(n) \in Object /\ v = NoObject /\ ~stored(n).finalizer

LEMMA UserFacts ==
  ASSUME log \in Logs(Version), EnvOK, NEW n \in Names, User(n)
  PROVE  \E v \in Version : Written(n, v)
<1>1. stored(n) \in Version /\ changes \in Nat /\ (Change => changes' \in Nat)
  BY KubeLog DEF EnvOK, Change
<1>2. NewStatus \in Status
  BY DEF NewStatus, Status, Cond, NoID
<1>3. stored(n) # NoObject => stored(n) \in Object
  BY <1>1 DEF Version
<1>4. \A v \in Object : v # NoObject /\ v \in Version
  BY NoObjectAssumption DEF NoObjectAssumption, Version
<1>5. CASE \E perms \in SUBSET Perms : UserCreates(n, perms)
  <2>1. PICK perms \in SUBSET Perms : UserCreates(n, perms)
    BY <1>5
  <2> DEFINE v == [gen |-> 1, perms |-> perms, labelled |-> FALSE,
                   finalizer |-> FALSE, deleting |-> FALSE, status |-> NewStatus]
  <2>2. v \in Object /\ v.status = NewStatus
    BY <1>2 DEF Object
  <2>3. stored(n) = NoObject /\ UserWrites(n, v) /\ changes' \in Nat
    BY <1>1, <2>1 DEF UserCreates
  <2> HIDE DEF v
  <2> QED
    BY <1>4, <2>2, <2>3 DEF Written
<1>6. CASE \E perms \in SUBSET Perms : UserEdits(n, perms)
  <2>1. PICK perms \in SUBSET Perms : UserEdits(n, perms)
    BY <1>6
  <2> DEFINE o == stored(n)
             v == [o EXCEPT !.perms = perms, !.gen = o.gen + 1]
  <2>2. o \in Object /\ o.perms # perms /\ changes' \in Nat
    BY <1>1, <1>3, <2>1 DEF UserEdits
  <2>3. v \in Object /\ v.status = o.status /\ v.perms = perms
    <3> HIDE DEF o
    <3>1. o.gen + 1 \in Nat
      BY <2>2 DEF Object
    <3> QED
      BY <2>2, <3>1 DEF Object
  <2>4. UserWrites(n, v)
    <3>1. UserWrites(n, [o EXCEPT !.perms = perms, !.gen = @ + 1])
      BY <2>1 DEF UserEdits
    <3> QED
      BY <2>2, <3>1 DEF Object
  <2> HIDE DEF v
  <2> QED
    BY <1>4, <2>2, <2>3, <2>4 DEF Written
<1>7. CASE UserUnlabels(n)
  <2> DEFINE o == stored(n)
             v == [o EXCEPT !.labelled = FALSE]
  <2>1. o \in Object /\ o.labelled /\ changes' \in Nat /\ UserWrites(n, v)
    BY <1>1, <1>3, <1>7 DEF UserUnlabels
  <2>2. v \in Object /\ v.status = o.status /\ ~v.labelled
    BY <2>1 DEF Object
  <2> HIDE DEF v
  <2> QED
    BY <1>4, <2>1, <2>2 DEF Written
<1>8. CASE UserDeletes(n)
  <2> DEFINE o == stored(n)
             v == [o EXCEPT !.deleting = TRUE, !.gen = o.gen + 1]
  <2>1. o \in Object /\ o # NoObject /\ ~o.deleting /\ changes' \in Nat
    BY <1>1, <1>3, <1>8 DEF UserDeletes
  <2>2. v \in Object /\ v.status = o.status /\ v.deleting
    <3> HIDE DEF o
    <3>1. o.gen + 1 \in Nat
      BY <2>1 DEF Object
    <3> QED
      BY <2>1, <3>1 DEF Object
  <2>3. CASE o.finalizer
    <3>1. UserWrites(n, v)
      <4>1. UserWrites(n, [o EXCEPT !.deleting = TRUE, !.gen = @ + 1])
        BY <1>8, <2>3 DEF UserDeletes
      <4> QED
        BY <2>1, <4>1 DEF Object
    <3> HIDE DEF v
    <3> QED
      BY <1>4, <2>1, <2>2, <3>1 DEF Written
  <2>4. CASE ~o.finalizer
    <3>1. UserWrites(n, NoObject) /\ NoObject \in Version
      BY <1>8, <2>4 DEF UserDeletes, Version
    <3> QED
      BY <2>1, <2>4, <3>1 DEF Written
  <2> QED
    BY <2>3, <2>4
<1> QED
  BY <1>5, <1>6, <1>7, <1>8 DEF User

LEMMA UserKeeps ==
  ASSUME Inv, NEW n \in Names, NEW v \in Version, Written(n, v)
  PROVE  Inv'
<1>1. /\ log \in Logs(Version) /\ JobOK /\ job \in Job /\ EnvOK /\ GrantsLive
      /\ Store(n, v) /\ changes' \in Nat
      /\ job' = [job EXCEPT !.current = @ /\ n # job.name]
      /\ UNCHANGED <<queue, keyCR, bucketCR, liveKeys, nextKey, grants, faults>>
  BY DEF Inv, TypeInv, JobOK, Written, UserWrites, deps, garage
<1>2. /\ job'.pc = job.pc /\ job'.name = job.name /\ job'.obj = job.obj
      /\ job'.orig = job.orig /\ job'.failed = job.failed
      /\ job'.current => job.current /\ n # job.name
  BY <1>1 DEF Job
<1>3. job' \in Job
  <2>1. (job.current /\ n # job.name) \in BOOLEAN
    OBVIOUS
  <2> QED
    BY <1>1, <2>1 DEF Job
<1>4. /\ (log \in Logs(Version))'
      /\ \A m \in Names \ {n} : /\ stored(m)' = stored(m) /\ log'[m] = log[m]
  BY <1>1, KubeStore DEF stored
<1>5. TypeInv' /\ GrantsLive'
  BY <1>1, <1>2, <1>3, <1>4 DEF TypeInv, JobOK, EnvOK, GrantsLive
<1>6. CopyStored'
  <2>1. CASE job.pc \in Path /\ job'.current
    <3>1. n # job.name /\ job.current /\ job.name \in Names
      BY <1>1, <1>2, <2>1 DEF JobOK, Path, ApplyPath
    <3>2. /\ stored(job.name)' = stored(job.name)
          /\ fresh(job.name)' = fresh(job.name)
      BY <1>2, <1>4, <3>1 DEF stored, fresh
    <3> QED
      BY <1>2, <2>1, <3>1, <3>2 DEF Inv, CopyStored
  <2>2. CASE ~(job'.pc \in Path /\ job'.current)
    BY <2>2 DEF CopyStored
  <2> QED
    BY <1>2, <2>1, <2>2
<1>7. Untouched' /\ Revoked'
  BY <1>1, <1>2 DEF Inv, Untouched, Revoked
<1>8. Narrowed'
  BY <1>1, <1>2 DEF Inv, Narrowed, Granted
<1> QED
  BY <1>5, <1>6, <1>7, <1>8 DEF Inv
\* A dependency that is ready exists, and one that is gone has no ID.
WellFormed(d) == (d.ready => d.exists) /\ (~d.exists => d.id = NoID)

\* The changes of an AccessKey that are watch events, and those of a Bucket.
KeyWatched(k) ==
  KeyAppears(k) \/ KeyBecomesReady(k) \/ KeyUnready(k) \/ KeyDisappears(k)
BucketWatched(b) ==
  \/ BucketAppears(b) \/ BucketBecomesReady(b) \/ BucketUnready(b)
  \/ BucketDisappears(b)

\* Garage has one key more, or the keys are the same.
KeyChange(k, v) ==
  /\ KeyEvent(k, v) /\ changes' \in Nat /\ grants' = grants
  /\ WellFormed(keyCR[k]) => WellFormed(v)
  /\ \/ /\ v.id \in {keyCR[k].id, NoID}
        /\ liveKeys' = liveKeys /\ nextKey' = nextKey
     \/ /\ v.id = nextKey
        /\ liveKeys' = liveKeys \cup {nextKey} /\ nextKey' = nextKey + 1

LEMMA KeyFacts ==
  ASSUME EnvOK, NEW k \in KeyNames, KeyWatched(k)
  PROVE  \E v \in Dependency : KeyChange(k, v)
<1>1. /\ keyCR[k] \in Dependency /\ nextKey \in Nat
      /\ changes \in Nat /\ (Change => changes' \in Nat)
  BY DEF EnvOK, Change
<1>2. CASE KeyAppears(k)
  <2> DEFINE v == [Absent EXCEPT !.exists = TRUE]
  <2>1. v \in Dependency /\ v.exists /\ v.id = NoID /\ ~v.ready
    BY DEF Absent, Dependency, NoID
  <2>2. KeyEvent(k, v) /\ UNCHANGED <<liveKeys, nextKey, grants, changes>>
    BY <1>2 DEF KeyAppears, garage
  <2> HIDE DEF v
  <2> QED
    BY <1>1, <2>1, <2>2 DEF KeyChange, WellFormed
<1>3. CASE KeyBecomesReady(k)
  <2>1. CASE /\ KeyEvent(k, [exists |-> TRUE, id |-> nextKey, ready |-> TRUE])
             /\ liveKeys' = liveKeys \cup {nextKey} /\ nextKey' = nextKey + 1
             /\ UNCHANGED grants
    <3> DEFINE v == [exists |-> TRUE, id |-> nextKey, ready |-> TRUE]
    <3>1. v \in Dependency /\ v.exists /\ v.id = nextKey /\ v.ready
      BY <1>1 DEF Dependency
    <3>2. KeyEvent(k, v) /\ changes' = changes
      BY <1>3, <2>1 DEF KeyBecomesReady
    <3> HIDE DEF v
    <3> QED
      BY <1>1, <2>1, <3>1, <3>2 DEF KeyChange, WellFormed
  <2>2. CASE /\ KeyEvent(k, [keyCR[k] EXCEPT !.ready = TRUE])
             /\ UNCHANGED garage
    <3> DEFINE v == [keyCR[k] EXCEPT !.ready = TRUE]
    <3>1. keyCR[k].exists /\ changes' = changes
      BY <1>3 DEF KeyBecomesReady
    <3>2. v \in Dependency /\ v.exists /\ v.id = keyCR[k].id /\ v.ready
      BY <1>1, <3>1 DEF Dependency
    <3>3. KeyEvent(k, v) /\ UNCHANGED <<liveKeys, nextKey, grants>>
      BY <2>2 DEF garage
    <3> HIDE DEF v
    <3> QED
      BY <1>1, <3>1, <3>2, <3>3 DEF KeyChange, WellFormed
  <2> QED
    BY <1>3, <2>1, <2>2 DEF KeyBecomesReady
<1>4. CASE KeyUnready(k)
  <2> DEFINE v == [keyCR[k] EXCEPT !.ready = FALSE]
  <2>1. /\ v \in Dependency /\ v.exists = keyCR[k].exists
        /\ v.id = keyCR[k].id /\ ~v.ready
    BY <1>1 DEF Dependency
  <2>2. /\ KeyEvent(k, v) /\ changes' \in Nat
        /\ UNCHANGED <<liveKeys, nextKey, grants>>
    BY <1>1, <1>4 DEF KeyUnready, garage
  <2> HIDE DEF v
  <2> QED
    BY <2>1, <2>2 DEF KeyChange, WellFormed
<1>5. CASE KeyDisappears(k)
  <2>1. Absent \in Dependency /\ ~Absent.exists /\ Absent.id = NoID /\ ~Absent.ready
    BY DEF Absent, Dependency, NoID
  <2>2. KeyEvent(k, Absent) /\ UNCHANGED <<liveKeys, nextKey, grants, changes>>
    BY <1>5 DEF KeyDisappears, garage
  <2> QED
    BY <1>1, <2>1, <2>2 DEF KeyChange, WellFormed
<1> QED
  BY <1>2, <1>3, <1>4, <1>5 DEF KeyWatched

BucketChange(b, v) ==
  /\ BucketEvent(b, v) /\ changes' \in Nat
  /\ WellFormed(bucketCR[b]) => WellFormed(v)

LEMMA BucketFacts ==
  ASSUME EnvOK, NEW b \in BucketNames, BucketWatched(b)
  PROVE  \E v \in Dependency : BucketChange(b, v)
<1>1. /\ bucketCR[b] \in Dependency
      /\ changes \in Nat /\ (Change => changes' \in Nat)
  BY DEF EnvOK, Change
<1>2. CASE BucketAppears(b)
  <2> DEFINE v == [Absent EXCEPT !.exists = TRUE]
  <2>1. v \in Dependency /\ v.exists
    BY DEF Absent, Dependency, NoID
  <2>2. BucketEvent(b, v) /\ UNCHANGED changes
    BY <1>2 DEF BucketAppears
  <2> HIDE DEF v
  <2> QED
    BY <1>1, <2>1, <2>2 DEF BucketChange, WellFormed
<1>3. CASE BucketBecomesReady(b)
  <2>1. PICK id \in IF bucketCR[b].id = NoID THEN BucketIDs ELSE {bucketCR[b].id} :
          BucketEvent(b, [exists |-> TRUE, id |-> id, ready |-> TRUE])
    BY <1>3 DEF BucketBecomesReady
  <2>2. id \in Nat
    BY <1>1, ReferencesAssumption DEF ReferencesAssumption, Dependency
  <2> DEFINE v == [exists |-> TRUE, id |-> id, ready |-> TRUE]
  <2>3. v \in Dependency /\ v.exists
    BY <2>2 DEF Dependency
  <2>4. BucketEvent(b, v) /\ UNCHANGED changes
    BY <1>3, <2>1 DEF BucketBecomesReady
  <2> HIDE DEF v
  <2> QED
    BY <1>1, <2>3, <2>4 DEF BucketChange, WellFormed
<1>4. CASE BucketUnready(b)
  <2> DEFINE v == [bucketCR[b] EXCEPT !.ready = FALSE]
  <2>1. /\ v \in Dependency /\ v.exists = bucketCR[b].exists
        /\ v.id = bucketCR[b].id /\ ~v.ready
    BY <1>1 DEF Dependency
  <2>2. BucketEvent(b, v) /\ changes' \in Nat
    BY <1>1, <1>4 DEF BucketUnready
  <2> HIDE DEF v
  <2> QED
    BY <2>1, <2>2 DEF BucketChange, WellFormed
<1>5. CASE BucketDisappears(b)
  <2>1. Absent \in Dependency /\ ~Absent.exists /\ Absent.id = NoID /\ ~Absent.ready
    BY DEF Absent, Dependency, NoID
  <2>2. BucketEvent(b, Absent) /\ changes' \in Nat
    BY <1>1, <1>5 DEF BucketDisappears
  <2> QED
    BY <2>1, <2>2 DEF BucketChange, WellFormed
<1> QED
  BY <1>2, <1>3, <1>4, <1>5 DEF BucketWatched

\* A step that leaves the worker alone and grants nothing.
LEMMA OthersKeep ==
  ASSUME Inv, UNCHANGED job, EnvOK', (log \in Logs(Version))', GrantsLive',
         grants' \subseteq grants,
         \A n \in Names : /\ stored(n)' = stored(n)
                          /\ fresh(n) => fresh(n)'
  PROVE  Inv'
<1>1. TypeInv'
  BY DEF Inv, TypeInv, JobOK
<1>2. CopyStored'
  <2>1. CASE job.pc \in Path
    <3>1. job.name \in Names
      BY <2>1 DEF Inv, TypeInv, JobOK, Path, ApplyPath
    <3>2. /\ stored(job.name)' = stored(job.name)
          /\ fresh(job.name) => fresh(job.name)'
      BY <3>1
    <3> QED
      BY <3>2 DEF Inv, CopyStored
  <2>2. CASE job.pc \notin Path
    BY <2>2 DEF CopyStored
  <2> QED
    BY <2>1, <2>2
<1>3. Untouched' /\ Revoked'
  BY DEF Inv, Untouched, Revoked
<1>4. Narrowed'
  <2>1. CASE job.pc = "Allow"
    <3>1. Granted(JobKey, JobBucket)' =
            {g.perm : g \in {h \in grants' : h.key = JobKey /\ h.bucket = JobBucket}}
      BY DEF Granted, JobKey, JobBucket
    <3>2. \A g \in grants' : g.key = JobKey /\ g.bucket = JobBucket =>
                               g.perm \in Granted(JobKey, JobBucket)
      BY DEF Granted
    <3>3. Granted(JobKey, JobBucket) \subseteq job.obj.perms
      BY <2>1 DEF Inv, Narrowed, JobKey, JobBucket
    <3>4. Granted(JobKey, JobBucket)' \subseteq job.obj.perms
      BY <3>1, <3>2, <3>3
    <3> QED
      BY <3>4 DEF Narrowed, JobKey, JobBucket
  <2>2. CASE job.pc # "Allow"
    BY <2>2 DEF Narrowed
  <2> QED
    BY <2>1, <2>2
<1> QED
  BY <1>1, <1>2, <1>3, <1>4 DEF Inv
\* A key leaves Garage with its grants.
LEMMA KeyLeavesFacts ==
  ASSUME EnvOK, NEW k \in KeyNames, KeyLeavesGarage(k)
  PROVE  /\ UNCHANGED <<log, queue, keyCR, bucketCR, nextKey, faults, job>>
         /\ changes' \in Nat
         /\ liveKeys' = liveKeys \ {keyCR[k].id}
         /\ grants' = {g \in grants : g.key # keyCR[k].id}
BY DEF KeyLeavesGarage, deps, Change, EnvOK

\* What is not a step of the worker.
World ==
  \/ \E n \in Names : User(n) \/ Dequeue(n) \/ Informer(n)
  \/ \E k \in KeyNames : KeyWatched(k) \/ KeyLeavesGarage(k)
  \/ \E b \in BucketNames : BucketWatched(b)
  \/ Crash

LEMMA NextParts == Next => Step \/ World
<1>1. ASSUME Environment PROVE World
  BY <1>1 DEF Environment, World, User, KeyWatched, BucketWatched
<1> QED
  BY <1>1 DEF Next, World

LEMMA WorldKeeps ==
  ASSUME Inv, World
  PROVE  Inv'
<1>1. /\ log \in Logs(Version) /\ JobOK /\ job \in Job /\ EnvOK /\ TypeInv
      /\ GrantsLive
  BY DEF Inv, TypeInv, JobOK
<1>2. ASSUME NEW n \in Names, Dequeue(n)
      PROVE  Inv'
  <2>1. /\ job' = [Idle EXCEPT !.pc = "Get", !.name = n]
        /\ UNCHANGED <<log, keyCR, bucketCR, liveKeys, nextKey, grants, changes, faults>>
        /\ queue' \subseteq queue
    BY <1>2 DEF Dequeue, deps, garage
  <2>2. job' \in Job /\ job'.pc = "Get" /\ job'.name = n
    BY <2>1 DEF Idle, Job
  <2>3. JobOK' /\ job'.pc \notin Path
    BY <2>2 DEF JobOK, Path, ApplyPath
  <2>4. EnvOK' /\ (log \in Logs(Version))' /\ GrantsLive'
    BY <1>1, <2>1 DEF EnvOK, Logs, Version, GrantsLive
  <2> QED
    BY <2>3, <2>4, IdleKeeps
<1>3. ASSUME NEW n \in Names, Informer(n)
      PROVE  Inv'
  <2>1. Deliver(n) /\ ~fresh(n)
        /\ UNCHANGED <<keyCR, bucketCR, liveKeys, nextKey, grants, changes, faults, job>>
    BY <1>3 DEF Informer, Deliver, deps, garage
  <2>2. /\ log' \in Logs(Version) /\ queue' = queue \cup {n}
        /\ \A m \in Names : stored(m)' = stored(m)
        /\ \A m \in Names \ {n} : fresh(m)' = fresh(m)
    BY <1>1, <2>1, DeliverEffect
  <2>3. EnvOK' /\ GrantsLive'
    BY <1>1, <2>1, <2>2 DEF EnvOK, GrantsLive
  <2>4. (log \in Logs(Version))'
    BY <2>2 DEF Logs, Version
  <2>5. \A m \in Names : stored(m)' = stored(m) /\ (fresh(m) => fresh(m)')
    BY <2>1, <2>2
  <2> QED
    BY <2>1, <2>3, <2>4, <2>5, OthersKeep
<1>4. ASSUME NEW n \in Names, User(n)
      PROVE  Inv'
  BY <1>1, <1>4, UserFacts, UserKeeps
<1>5. ASSUME NEW k \in KeyNames, KeyWatched(k)
      PROVE  Inv'
  <2>1. PICK v \in Dependency : KeyChange(k, v)
    BY <1>1, <1>5, KeyFacts
  <2>2. /\ keyCR' = [keyCR EXCEPT ![k] = v]
        /\ queue' \subseteq queue \cup Names
        /\ UNCHANGED <<log, bucketCR, faults, job>>
        /\ changes' \in Nat /\ grants' = grants
        /\ \/ liveKeys' = liveKeys /\ nextKey' = nextKey
           \/ liveKeys' = liveKeys \cup {nextKey} /\ nextKey' = nextKey + 1
    BY <2>1 DEF KeyChange, KeyEvent, LabelledFor
  <2>3. /\ liveKeys' \subseteq Nat /\ nextKey' \in Nat \ {0}
        /\ liveKeys \subseteq liveKeys'
        /\ \A key \in liveKeys' : key # NoID /\ key < nextKey'
    <3>1. /\ nextKey \in Nat \ {0} /\ liveKeys \subseteq Nat
          /\ \A key \in liveKeys : key # NoID /\ key < nextKey
      BY <1>1 DEF EnvOK, GrantsLive
    <3>2. CASE liveKeys' = liveKeys /\ nextKey' = nextKey
      BY <3>1, <3>2
    <3>3. CASE liveKeys' = liveKeys \cup {nextKey} /\ nextKey' = nextKey + 1
      BY <3>1, <3>3 DEF NoID
    <3> QED
      BY <2>2, <3>2, <3>3
  <2>4. EnvOK' /\ GrantsLive'
    BY <1>1, <2>2, <2>3 DEF EnvOK, GrantsLive
  <2>5. /\ (log \in Logs(Version))'
        /\ \A n \in Names : stored(n)' = stored(n) /\ fresh(n)' = fresh(n)
    BY <1>1, <2>2 DEF stored, fresh, Logs, Version
  <2> QED
    BY <2>2, <2>4, <2>5, OthersKeep
<1>6. ASSUME NEW k \in KeyNames, KeyLeavesGarage(k)
      PROVE  Inv'
  <2>1. /\ UNCHANGED <<log, queue, keyCR, bucketCR, nextKey, faults, job>>
        /\ changes' \in Nat
        /\ liveKeys' = liveKeys \ {keyCR[k].id}
        /\ grants' = {g \in grants : g.key # keyCR[k].id}
    BY <1>1, <1>6, KeyLeavesFacts
  <2>2. EnvOK' /\ GrantsLive'
    BY <1>1, <2>1 DEF EnvOK, GrantsLive
  <2>3. /\ (log \in Logs(Version))'
        /\ \A n \in Names : stored(n)' = stored(n) /\ fresh(n)' = fresh(n)
    BY <1>1, <2>1 DEF stored, fresh, Logs, Version
  <2> QED
    BY <2>1, <2>2, <2>3, OthersKeep
<1>7. ASSUME NEW b \in BucketNames, BucketWatched(b)
      PROVE  Inv'
  <2>1. PICK v \in Dependency : BucketChange(b, v)
    BY <1>1, <1>7, BucketFacts
  <2>2. /\ bucketCR' = [bucketCR EXCEPT ![b] = v]
        /\ queue' \subseteq queue \cup Names
        /\ UNCHANGED <<log, keyCR, liveKeys, nextKey, grants, faults, job>>
        /\ changes' \in Nat
    BY <2>1 DEF BucketChange, BucketEvent, LabelledFor, garage
  <2>3. EnvOK' /\ GrantsLive'
    BY <1>1, <2>2 DEF EnvOK, GrantsLive
  <2>4. /\ (log \in Logs(Version))'
        /\ \A n \in Names : stored(n)' = stored(n) /\ fresh(n)' = fresh(n)
    BY <1>1, <2>2 DEF stored, fresh, Logs, Version
  <2> QED
    BY <2>2, <2>3, <2>4, OthersKeep
<1>8. CASE Crash
  <2>1. /\ Fault /\ Relist /\ job' = Idle
        /\ UNCHANGED <<keyCR, bucketCR, liveKeys, nextKey, grants, changes>>
    BY <1>8 DEF Crash, deps, garage
  <2>2. faults' \in Nat
    BY <1>1, <2>1, FaultsLeft
  <2>3. /\ (log \in Logs(Version))' /\ queue' \subseteq Names
    <3>1. log' \in Logs(Version) /\ queue' \subseteq Names
      BY <1>1, <2>1, KubeRelist
    <3> QED
      BY <3>1 DEF Logs, Version
  <2>4. EnvOK' /\ GrantsLive'
    BY <1>1, <2>1, <2>2, <2>3 DEF EnvOK, GrantsLive
  <2>5. JobOK' /\ job'.pc \notin Path
    BY <2>1, IdleType DEF JobOK, Path, ApplyPath
  <2> QED
    BY <2>3, <2>4, <2>5, IdleKeeps
<1> QED
  BY <1>2, <1>3, <1>4, <1>5, <1>6, <1>7, <1>8 DEF World

-----------------------------------------------------------------------------
(* The invariant holds.                                                     *)

LEMMA InvInit == Init => Inv
<1> SUFFICES ASSUME Init PROVE Inv
  OBVIOUS
<1>1. log \in Logs(Version) /\ queue = {}
  <2>1. NoObject \in Version /\ KubeInit
    BY DEF Version, Init
  <2> QED
    BY <2>1, KubeStart
<1>2. EnvOK
  <2>1. Absent \in Dependency
    BY DEF Absent, Dependency, NoID
  <2>2. MaxChanges \in Nat /\ MaxFaults \in Nat
    BY ReferencesAssumption DEF ReferencesAssumption
  <2> QED
    BY <1>1, <2>1, <2>2 DEF Init, EnvOK
<1>3. JobOK /\ job.pc = "idle"
  BY IdleType DEF Init, JobOK, Path, ApplyPath
<1>4. GrantsLive
  BY DEF Init, GrantsLive
<1> QED
  BY <1>1, <1>2, <1>3, <1>4
     DEF Inv, TypeInv, CopyStored, Untouched, Narrowed, Revoked, Path, ApplyPath

LEMMA InvNext == Inv /\ [Next]_vars => Inv'
<1> SUFFICES ASSUME Inv, [Next]_vars PROVE Inv'
  OBVIOUS
<1>1. CASE Next
  BY <1>1, NextParts, StepKeeps, WorldKeeps
<1>2. CASE UNCHANGED vars
  <2>1. UNCHANGED <<log, queue, keyCR, bucketCR, liveKeys, nextKey, grants,
                    changes, faults, job>>
    BY <1>2 DEF vars, deps, garage
  <2>2. EnvOK' /\ (log \in Logs(Version))' /\ GrantsLive'
    BY <2>1 DEF Inv, TypeInv, EnvOK, Logs, Version, GrantsLive
  <2>3. \A n \in Names : stored(n)' = stored(n) /\ fresh(n)' = fresh(n)
    BY <2>1 DEF stored, fresh
  <2> QED
    BY <2>1, <2>2, <2>3, OthersKeep
<1> QED
  BY <1>1, <1>2

\* Garage has grants of keys and buckets it knows only, a current copy is the
\* stored policy, nothing is allowed before the rest was denied, and the
\* finalizer goes when nothing is left.
THEOREM Invariant == Spec => []Inv
BY InvInit, InvNext, PTL DEF Spec

\* Every variable of the AccessPolicy controller holds a value of its type.
THEOREM TypesAlwaysOK == Spec => []TypeOK
<1>1. Inv => TypeOK
  BY DEF Inv, TypeInv, EnvOK, JobOK, TypeOK, Logs, Version, Grant
<1> QED
  BY <1>1, Invariant, PTL
-----------------------------------------------------------------------------
(* What a step does to the permissions.                                     *)

LEMMA GrantedShrinks ==
  ASSUME grants' \subseteq grants
  PROVE  \A k, b : Granted(k, b)' \subseteq Granted(k, b)
<1>1. \A k, b : Granted(k, b)' = {g.perm : g \in {h \in grants' : h.key = k /\ h.bucket = b}}
  BY DEF Granted
<1> QED
  BY <1>1 DEF Granted

\* Only SetPermissions adds permissions, and its pair has those of the spec.
LEMMA StepNarrows ==
  ASSUME Inv, Step
  PROVE  \/ grants' \subseteq grants
         \/ /\ job.pc = "Allow"
            /\ grants' = With(JobKey, JobBucket, job.obj.perms)
            /\ \A k, b : \/ Granted(k, b)' = Granted(k, b)
                         \/ /\ k = JobKey /\ b = JobBucket
                            /\ Granted(k, b)' = job.obj.perms
<1>1. TypeInv /\ grants \subseteq Grant
  BY DEF Inv, TypeInv, EnvOK
<1>2. CASE Get \/ RemoveFinalizer \/ UpdateMeta \/ CheckBucket \/ CheckAccessKey \/ PatchStatus
  BY <1>2 DEF Get, RemoveFinalizer, UpdateMeta, CheckBucket, CheckAccessKey,
              PatchStatus, garage
<1>3. CASE Revoke
  BY <1>3 DEF Revoke, Deny, Without
<1>4. CASE RevokeBucket \/ RevokeKey
  BY <1>1, <1>4, RevokeBucketFacts, RevokeKeyFacts, DeniesFacts
<1>5. CASE DenyOthers
  BY <1>5, DenyOthersFacts, DeniesFacts
<1>6. CASE Allow
  <2>1. CASE UNCHANGED grants
    BY <2>1
  <2>2. CASE grants' = With(JobKey, JobBucket, job.obj.perms)
    <3>1. /\ job.pc = "Allow" /\ JobKey \in Nat /\ JobBucket \in Nat
          /\ job.obj.perms \in SUBSET Perms
          /\ Granted(JobKey, JobBucket) \subseteq job.obj.perms
      BY <1>6 DEF Inv, TypeInv, Allow, At, Path, ApplyPath, JobOK, Object, Status,
                  JobKey, JobBucket, Narrowed
    <3>2. \A k \in Nat, b \in Nat : k = JobKey /\ b = JobBucket =>
            /\ Granted(k, b)' = Granted(k, b) \cup job.obj.perms
            /\ \A c, d : c # k \/ d # b => Granted(c, d)' = Granted(c, d)
      BY <1>1, <2>2, <3>1, WithFacts
    <3>3. ASSUME NEW k, NEW b
          PROVE  \/ Granted(k, b)' = Granted(k, b)
                 \/ /\ k = JobKey /\ b = JobBucket
                    /\ Granted(k, b)' = job.obj.perms
      <4>1. ASSUME k = JobKey, b = JobBucket
            PROVE  Granted(k, b)' = job.obj.perms
        <5>1. Granted(k, b)' = Granted(k, b) \cup job.obj.perms
          BY <3>1, <3>2, <4>1
        <5>2. Granted(k, b) \subseteq job.obj.perms
          BY <3>1, <4>1
        <5> QED
          BY <5>1, <5>2
      <4>2. k # JobKey \/ b # JobBucket => Granted(k, b)' = Granted(k, b)
        BY <3>1, <3>2
      <4> QED
        BY <4>1, <4>2
    <3> QED
      BY <2>2, <3>1, <3>3
  <2> QED
    BY <1>6, <2>1, <2>2, AllowFacts
<1> QED
  BY <1>2, <1>3, <1>4, <1>5, <1>6 DEF Step

\* SetPermissions denies before it allows: a call takes permissions away from
\* a pair or leaves it with exactly those of the spec the worker holds.
THEOREM DeniesBeforeItAllows == Spec => NarrowThenSet
<1>1. Inv /\ [Next]_vars => [Step => \A k \in liveKeys, b \in BucketIDs :
                               \/ Granted(k, b)' \subseteq Granted(k, b)
                               \/ Granted(k, b)' = job.obj.perms]_vars
  BY StepNarrows, GrantedShrinks
<1> QED
  BY <1>1, Invariant, PTL DEF Spec, NarrowThenSet

-----------------------------------------------------------------------------
(* What a step does to the policies.                                        *)

LEMMA FinishesFacts ==
  ASSUME Inv, NEW v, Finishes(v)
  PROVE  /\ job' = Idle /\ job.name \in Names /\ queue \subseteq queue'
         /\ \A m \in Names \ {job.name} :
              /\ stored(m)' = stored(m) /\ cached(m)' = cached(m)
              /\ fresh(m)' = fresh(m)
         /\ \/ \A m \in Names : /\ stored(m)' = stored(m)
                                /\ cached(m)' = cached(m)
                                /\ fresh(m)' = fresh(m)
            \/ /\ job.current
               /\ \A m \in Names : m = job.name =>
                    /\ stored(m)' = v /\ cached(m)' = cached(m)
                    /\ v # stored(m) => ~fresh(m)'
<1>1. /\ log \in Logs(Version) /\ job.name \in Names /\ v \in Version
      /\ job.pc # "idle" /\ TypeInv
  BY DEF Inv, TypeInv, JobOK, Finishes, Path, ApplyPath
<1>2. job' = Idle /\ queue \subseteq queue'
  BY DEF Finishes, Return
<1>3. CASE UNCHANGED log
  <2>1. \A m \in Names : /\ stored(m)' = stored(m) /\ cached(m)' = cached(m)
                         /\ fresh(m)' = fresh(m)
    BY <1>3 DEF stored, cached, fresh
  <2> QED
    BY <1>1, <1>2, <2>1
<1>4. CASE job.current /\ Store(job.name, v)
  <2>1. /\ \A m \in Names \ {job.name} : log'[m] = log[m]
        /\ \A m \in Names : m = job.name =>
             stored(m)' = v /\ cached(m)' = cached(m) /\ (v # stored(m) => ~fresh(m)')
    BY <1>1, <1>4, KubeStore
  <2>2. \A m \in Names \ {job.name} :
           stored(m)' = stored(m) /\ cached(m)' = cached(m) /\ fresh(m)' = fresh(m)
    BY <2>1 DEF stored, cached, fresh
  <2> QED
    BY <1>1, <1>2, <1>4, <2>1, <2>2
<1> QED
  BY <1>3, <1>4 DEF Finishes

\* Every way a policy's stored version changes.
LEMMA Changed ==
  ASSUME Inv, [Next]_vars, NEW n \in Names, stored(n)' # stored(n)
  PROVE  \/ \E v \in Version : Written(n, v) /\ stored(n)' = v
         \/ /\ n = job.name /\ job.current
            /\ \/ RemoveFinalizer /\ stored(n)' = NoObject
               \/ UpdateMeta /\ stored(n)' = UpdatedMeta
               \/ PatchStatus /\ stored(n)' = Patched
<1>1. log \in Logs(Version) /\ EnvOK
  BY DEF Inv, TypeInv
<1>2. UNCHANGED log => stored(n)' = stored(n)
  BY DEF stored
<1>3. CASE Step
  <2>1. CASE RemoveFinalizer
    <3>1. Finishes(NoObject)
      BY <2>1, RemoveFinalizerFinishes
    <3> QED
      BY <2>1, <3>1, FinishesFacts
  <2>2. CASE UpdateMeta
    <3>1. Finishes(UpdatedMeta)
      BY <2>2, UpdateMetaFinishes
    <3> QED
      BY <2>2, <3>1, FinishesFacts
  <2>3. CASE PatchStatus
    <3>1. job.current /\ Finishes(Patched)
      BY <1>2, <2>3, PatchFinishes
    <3> QED
      BY <2>3, <3>1, FinishesFacts
  <2>4. CASE Get \/ Revoke \/ CheckBucket \/ RevokeBucket \/ CheckAccessKey
             \/ RevokeKey \/ DenyOthers \/ Allow
    BY <1>2, <2>4 DEF Get, Revoke, CheckBucket, RevokeBucket, CheckAccessKey,
                      RevokeKey, DenyOthers, Allow
  <2> QED
    BY <1>3, <2>1, <2>2, <2>3, <2>4 DEF Step
<1>4. CASE World
  <2>1. ASSUME NEW m \in Names, User(m)
        PROVE  \E v \in Version : Written(n, v) /\ stored(n)' = v
    <3>1. PICK v \in Version : Written(m, v)
      BY <1>1, <2>1, UserFacts
    <3>2. \A x \in Names : stored(x)' = IF x = m THEN v ELSE stored(x)
      BY <1>1, <3>1, StoreEffect DEF Written, UserWrites
    <3> QED
      BY <3>1, <3>2
  <2>2. ASSUME NEW m \in Names, Dequeue(m) \/ Informer(m)
        PROVE  stored(n)' = stored(n)
    BY <1>1, <1>2, <2>2, DeliverEffect DEF Dequeue, Informer
  <2>3. ASSUME NEW k \in KeyNames, KeyWatched(k) \/ KeyLeavesGarage(k)
        PROVE  UNCHANGED log
    BY <1>1, <2>3, KeyFacts, KeyLeavesFacts DEF KeyChange, KeyEvent
  <2>4. ASSUME NEW b \in BucketNames, BucketWatched(b)
        PROVE  UNCHANGED log
    BY <1>1, <2>4, BucketFacts DEF BucketChange, BucketEvent
  <2>5. Crash => stored(n)' = stored(n)
    BY <1>1, KubeRelist DEF Crash
  <2> QED
    BY <1>2, <1>4, <2>1, <2>2, <2>3, <2>4, <2>5 DEF World
<1>5. CASE UNCHANGED vars
  BY <1>2, <1>5 DEF vars
<1> QED
  BY <1>3, <1>4, <1>5, NextParts

\* When a policy with the finalizer disappears, the key its last stored status
\* records has nothing left on the bucket recorded there.
THEOREM DeletionRevokes == Spec => FinalizerRevokes
<1>1. ASSUME Inv, [Next]_vars, NEW n \in Names,
             stored(n) # NoObject, stored(n).finalizer, stored(n)' = NoObject
      PROVE  \A g \in grants' : ~(/\ g.key = stored(n).status.keyID
                                  /\ g.bucket = stored(n).status.bucketID)
  <2>1. NoObject \notin Object
    BY NoObjectAssumption DEF NoObjectAssumption
  <2>2. \A v \in Version : Written(n, v) => v # NoObject
    BY <1>1, <2>1 DEF Written
  <2>3. n = job.name /\ job.current /\ RemoveFinalizer
    <3>1. UpdateMeta => UpdatedMeta # NoObject
      BY <1>1, <2>1, UpdateMetaFinishes
    <3>2. PatchStatus /\ job.current => Patched # NoObject
      BY <1>1, <2>1, PatchFacts DEF PatchStatus, At
    <3> QED
      BY <1>1, <2>2, <3>1, <3>2, Changed
  <2>4. /\ job.pc = "RemoveFinalizer" /\ job.pc \in Path /\ grants' = grants
        /\ stored(n).status = job.obj.status
    BY <1>1, <2>3 DEF RemoveFinalizer, At, Path, garage, Inv, CopyStored, Untouched
  <2> QED
    BY <1>1, <2>4 DEF Inv, Revoked
<1>2. Inv /\ [Next]_vars =>
        [\A n \in Names :
           LET o == stored(n) IN
           (o # NoObject /\ o.finalizer /\ stored(n)' = NoObject) =>
             \A g \in grants' :
               ~(g.key = o.status.keyID /\ g.bucket = o.status.bucketID)]_vars
  BY <1>1
<1> QED
  BY <1>2, Invariant, PTL DEF Spec, FinalizerRevokes
-----------------------------------------------------------------------------
(* No event is missed.                                                      *)

\* Nothing about policy n is on its way to the worker.
Quiet(n) == n \notin queue /\ fresh(n)

KeyOfPolicy(n) == keyCR[KeyOf[n]]
BucketOfPolicy(n) == bucketCR[BucketOf[n]]

AfterBucket == ApplyPath \ {"CheckBucket"}
AfterKey == {"RevokeKey", "Deny", "Allow", "PatchStatus"}

\* A status and the dependency it speaks of.
AgreesWithKey(st, k) ==
  (k.exists => st.keyID = k.id) /\ (st.key = "True" => k.ready)
AgreesWithBucket(st, b) ==
  (b.exists => st.bucketID = b.id) /\ (st.bucket = "True" => b.ready)

\* A copy that is behind will be read again.
Behind == job.pc \in Path /\ ~job.current => ~Quiet(job.name)

\* Only labelled policies that stay have their dependencies looked at, and
\* the labels and the finalizer are written when one of them was missing.
OnPath ==
  /\ job.pc \in ApplyPath =>
       job.obj.labelled /\ job.obj.finalizer /\ ~job.obj.deleting
  /\ job.pc = "UpdateMeta" => ~(job.obj.labelled /\ job.obj.finalizer)

DepsWellFormed ==
  /\ \A k \in KeyNames : WellFormed(keyCR[k])
  /\ \A b \in BucketNames : WellFormed(bucketCR[b])

\* What the worker found out still holds, or an event is on its way.
BucketSeen ==
  job.pc \in AfterBucket /\ Quiet(job.name) =>
    /\ AgreesWithBucket(job.obj.status, BucketOfPolicy(job.name))
    /\ job.pc = "RevokeBucket" => ~BucketOfPolicy(job.name).exists
KeySeen ==
  job.pc \in AfterKey /\ Quiet(job.name) =>
    /\ AgreesWithKey(job.obj.status, KeyOfPolicy(job.name))
    /\ job.pc = "RevokeKey" => ~KeyOfPolicy(job.name).exists

\* The worker has been through with n, and nothing happened since.
Stays(n) == Quiet(n) /\ stored(n) # NoObject /\ ~stored(n).deleting
Rests(n) == Stays(n) /\ (job.pc = "idle" \/ job.name # n)

Settled(n) ==
  /\ stored(n).labelled
  /\ AgreesWithBucket(stored(n).status, BucketOfPolicy(n))
  /\ AgreesWithKey(stored(n).status, KeyOfPolicy(n))

EventInv ==
  /\ Behind /\ OnPath /\ DepsWellFormed /\ BucketSeen /\ KeySeen
  /\ \A n \in Names : Rests(n) => Settled(n)

\* A copy that will not be read again is the stored and the cached version.
LEMMA QuietCopy ==
  ASSUME Inv, Behind, job.pc \in Path, Quiet(job.name)
  PROVE  /\ job.current /\ job.name \in Names
         /\ stored(job.name) \in Object /\ stored(job.name) # NoObject
         /\ cached(job.name) = stored(job.name)
         /\ SameSpec(stored(job.name), job.obj)
         /\ stored(job.name).status = job.orig
<1>1. job.current /\ job.name \in Names /\ log \in Logs(Version)
  BY DEF Behind, Inv, TypeInv, JobOK, Path, ApplyPath
<1>2. /\ stored(job.name) \in Version
      /\ fresh(job.name) => cached(job.name) = stored(job.name)
  BY <1>1, KubeLog
<1> QED
  BY <1>1, <1>2 DEF Quiet, Inv, CopyStored, Version

\* A change of a dependency that is no event of a quiet labelled policy.
LEMMA DepsChange ==
  ASSUME Inv, EventInv, UNCHANGED <<log, job>>, queue \subseteq queue',
         DepsWellFormed',
         \A n \in Names : (Quiet(n)' /\ cached(n) # NoObject /\ cached(n).labelled) =>
           /\ KeyOfPolicy(n)' = KeyOfPolicy(n)
           /\ BucketOfPolicy(n)' = BucketOfPolicy(n)
  PROVE  EventInv'
<1>1. \A n \in Names : /\ Quiet(n)' => Quiet(n)
                       /\ stored(n)' = stored(n)
                       /\ Rests(n)' => Rests(n)
  BY DEF Quiet, fresh, stored, Rests, Stays
<1>2. /\ job' = job
      /\ job.pc \in Path => job.name \in Names
      /\ AfterBucket \subseteq Path /\ AfterKey \subseteq Path
      /\ AfterBucket \subseteq ApplyPath /\ AfterKey \subseteq ApplyPath
  BY DEF Inv, TypeInv, JobOK, Path, ApplyPath, AfterBucket, AfterKey
<1>3. Behind' /\ OnPath'
  BY <1>1, <1>2 DEF EventInv, Behind, OnPath
<1>4. ASSUME job.pc \in ApplyPath, Quiet(job.name)'
      PROVE  /\ Quiet(job.name)
             /\ KeyOfPolicy(job.name)' = KeyOfPolicy(job.name)
             /\ BucketOfPolicy(job.name)' = BucketOfPolicy(job.name)
  <2>1. job.pc \in Path /\ job.name \in Names
    BY <1>2, <1>4 DEF Path
  <2>2. \A n \in Names : n = job.name => Quiet(n)' /\ Quiet(n)
    BY <1>1, <1>2, <1>4
  <2>3. cached(job.name) # NoObject /\ cached(job.name).labelled
    BY <1>4, <2>1, <2>2, QuietCopy DEF EventInv, OnPath, SameSpec
  <2>4. \A n \in Names : n = job.name =>
          /\ KeyOfPolicy(n)' = KeyOfPolicy(n)
          /\ BucketOfPolicy(n)' = BucketOfPolicy(n)
    BY <2>2, <2>3
  <2> QED
    BY <1>2, <2>1, <2>2, <2>4
<1>5. BucketSeen' /\ KeySeen'
  BY <1>2, <1>4 DEF EventInv, BucketSeen, KeySeen
<1>6. ASSUME NEW n \in Names, Rests(n)'
      PROVE  Settled(n)'
  <2>1. Rests(n) /\ Settled(n) /\ Quiet(n) /\ Quiet(n)'
    BY <1>1, <1>6 DEF EventInv, Rests, Stays
  <2>2. cached(n) # NoObject /\ cached(n).labelled
    <3>1. cached(n) = stored(n)
      BY <2>1, KubeLog DEF Quiet, Inv, TypeInv
    <3> QED
      BY <2>1, <3>1 DEF Rests, Stays, Settled
  <2> QED
    BY <1>1, <2>1, <2>2 DEF Settled
<1> QED
  BY <1>3, <1>5, <1>6 DEF EventInv

\* The worker moves on.
LEMMA GoesOn ==
  ASSUME Inv, EventInv, Goes, job.pc \in Path,
         UNCHANGED <<log, queue, keyCR, bucketCR>>,
         job'.pc # "UpdateMeta",
         job'.pc \in ApplyPath => job.pc \in ApplyPath,
         BucketSeen', KeySeen'
  PROVE  EventInv'
<1>1. /\ job'.name = job.name /\ job'.current = job.current
      /\ SameSpec(job'.obj, job.obj) /\ job'.pc \in Path
  BY DEF Goes
<1>2. \A n \in Names : /\ Quiet(n)' = Quiet(n) /\ stored(n)' = stored(n)
                       /\ KeyOfPolicy(n)' = KeyOfPolicy(n)
                       /\ BucketOfPolicy(n)' = BucketOfPolicy(n)
  BY DEF Quiet, fresh, stored, KeyOfPolicy, BucketOfPolicy
<1>3. Behind' /\ OnPath' /\ DepsWellFormed'
  BY <1>1 DEF EventInv, Behind, OnPath, DepsWellFormed, SameSpec, Quiet, fresh
<1>4. ASSUME NEW n \in Names, Rests(n)'
      PROVE  Settled(n)'
  <2>1. Rests(n)
    BY <1>1, <1>2, <1>4 DEF Rests, Stays, Path, ApplyPath
  <2> QED
    BY <1>2, <2>1 DEF EventInv, Settled
<1> QED
  BY <1>3, <1>4 DEF EventInv

\* The worker is through with its request.
LEMMA GoesIdle ==
  ASSUME Inv, EventInv, job.pc # "idle", job' = Idle, queue \subseteq queue',
         UNCHANGED <<keyCR, bucketCR>>,
         \A m \in Names \ {job.name} : stored(m)' = stored(m) /\ fresh(m)' = fresh(m),
         \A m \in Names : m = job.name => (Stays(m)' => Settled(m)')
  PROVE  EventInv'
<1>1. job'.pc = "idle"
  BY DEF Idle
<1>2. Behind' /\ OnPath' /\ DepsWellFormed' /\ BucketSeen' /\ KeySeen'
  BY <1>1 DEF EventInv, Behind, OnPath, DepsWellFormed, BucketSeen, KeySeen,
              Path, ApplyPath, AfterBucket, AfterKey
<1>3. ASSUME NEW n \in Names, Rests(n)'
      PROVE  Settled(n)'
  <2>1. CASE n = job.name
    BY <1>3, <2>1 DEF Rests
  <2>2. CASE n # job.name
    <3>1. Rests(n) /\ stored(n)' = stored(n)
      BY <1>3, <2>2 DEF Rests, Stays, Quiet
    <3> QED
      BY <3>1 DEF EventInv, Settled, KeyOfPolicy, BucketOfPolicy
  <2> QED
    BY <2>1, <2>2
<1> QED
  BY <1>2, <1>3 DEF EventInv
\* A reconcile that ends before the patch leaves nothing to be said of the
\* policy: it is gone or being deleted, back in the queue, or a write of it is
\* on its way.
LEMMA OnlyPatchRests ==
  ASSUME Inv, EventInv, Get \/ Revoke \/ RemoveFinalizer \/ UpdateMeta,
         job'.pc = "idle", NEW n \in Names, n = job.name
  PROVE  ~Stays(n)'
<1>1. log \in Logs(Version) /\ job \in Job /\ NoObject \in Version
  BY DEF Inv, TypeInv, JobOK, Version
<1>2. Return(TRUE) => ~Stays(n)'
  BY DEF Return, Stays, Quiet
<1>3. CASE Get
  <2>1. UNCHANGED log /\ queue' = queue /\ (cached(n) = NoObject \/ cached(n).deleting)
    BY <1>1, <1>3 DEF Get, Return, Job
  <2>2. fresh(n) => cached(n) = stored(n)
    BY <1>1, KubeLog
  <2> QED
    BY <2>1, <2>2 DEF Stays, Quiet, stored, fresh
<1>4. CASE Revoke
  <2>1. ~Goto("RemoveFinalizer")
    BY <1>1 DEF Goto, Job
  <2> QED
    BY <1>2, <1>4, <2>1 DEF Revoke, Deny
<1>5. CASE RemoveFinalizer
  <2>1. Store(n, NoObject) => stored(n)' = NoObject
    BY <1>1, StoreEffect
  <2> QED
    BY <1>2, <1>5, <2>1 DEF RemoveFinalizer, Stays
<1>6. CASE UpdateMeta
  <2>1. /\ job.pc = "UpdateMeta" /\ job.pc \in Path
        /\ UpdatedMeta \in Version
        /\ UpdatedMeta.labelled = TRUE /\ UpdatedMeta.finalizer = TRUE
    BY <1>6, UpdateMetaFinishes DEF Path, Version
  <2>2. ~(job.obj.labelled /\ job.obj.finalizer)
    BY <2>1 DEF EventInv, OnPath
  <2>3. CASE job.current /\ Store(n, UpdatedMeta)
    <3>1. UpdatedMeta # stored(n)
      BY <2>1, <2>2, <2>3 DEF Inv, CopyStored, SameSpec
    <3> QED
      BY <1>1, <2>1, <2>3, <3>1, KubeStore DEF Stays, Quiet
  <2>4. CASE ~job.current /\ UNCHANGED log /\ Return(stored(n) = NoObject)
    <3>1. ~Quiet(n) /\ queue \subseteq queue'
      BY <2>1, <2>4 DEF EventInv, Behind, Return
    <3> QED
      BY <2>4, <3>1 DEF Stays, Quiet, fresh
  <2> QED
    BY <1>2, <1>6, <2>3, <2>4 DEF UpdateMeta, OptimisticLock, UpdatedMeta
<1> QED
  BY <1>3, <1>4, <1>5, <1>6

LEMMA EventGet ==
  ASSUME Inv, EventInv, Get
  PROVE  EventInv'
<1> DEFINE n == job.name
           o == cached(n)
<1>1. /\ job.pc = "Get" /\ job \in Job /\ n \in Names
      /\ log \in Logs(Version) /\ TypeInv
  BY DEF Inv, TypeInv, JobOK, Get, At, Path, ApplyPath
<1>2. /\ o \in Version /\ fresh(n) \in BOOLEAN
      /\ fresh(n) => o = stored(n)
  BY <1>1, KubeLog
<1>3. UNCHANGED <<log, keyCR, bucketCR>>
  BY DEF Get, deps
<1>4. \A m \in Names : stored(m)' = stored(m) /\ fresh(m)' = fresh(m)
  BY <1>3 DEF stored, fresh
<1>5. CASE Return(FALSE) /\ (o = NoObject \/ o.deleting)
  <2>1. job' = Idle /\ queue' = queue
    BY <1>5 DEF Return
  <2>2. \A m \in Names : m = n => ~Stays(m)'
    BY <2>1, OnlyPatchRests DEF Idle
  <2> QED
    BY <1>1, <1>3, <1>4, <2>1, <2>2, GoesIdle
<1>6. ASSUME NEW p \in {"Revoke", "RemoveFinalizer", "UpdateMeta", "CheckBucket"},
             o # NoObject, UNCHANGED queue,
             job' = [job EXCEPT !.pc = p, !.obj = o, !.orig = o.status,
                                !.current = fresh(n)],
             p = "CheckBucket" => o.labelled /\ o.finalizer /\ ~o.deleting,
             p = "UpdateMeta" => ~(o.labelled /\ o.finalizer)
      PROVE  EventInv'
  <2>1. /\ job'.pc = p /\ job'.name = n /\ job'.obj = o
        /\ job'.current = fresh(n)
    BY <1>1, <1>2, <1>6 DEF Job
  <2>2. \A m \in Names : Quiet(m)' = Quiet(m)
    BY <1>4, <1>6 DEF Quiet
  <2>3. Behind'
    <3>1. \A m \in Names : m = n /\ ~fresh(n) => ~Quiet(m)'
      BY <2>2 DEF Quiet
    <3> QED
      BY <1>1, <2>1, <3>1 DEF Behind
  <2>4. OnPath' /\ DepsWellFormed' /\ BucketSeen' /\ KeySeen'
    BY <1>3, <1>6, <2>1 DEF EventInv, OnPath, DepsWellFormed, BucketSeen,
       KeySeen, ApplyPath, AfterBucket, AfterKey
  <2>5. ASSUME NEW m \in Names, Rests(m)'
        PROVE  Settled(m)'
    <3>1. Rests(m) /\ stored(m)' = stored(m)
      BY <1>4, <2>1, <2>2, <2>5 DEF Rests, Stays
    <3> QED
      BY <1>3, <3>1 DEF EventInv, Settled, KeyOfPolicy, BucketOfPolicy
  <2> QED
    BY <2>3, <2>4, <2>5 DEF EventInv
<1> QED
  BY <1>5, <1>6 DEF Get

LEMMA EventRevoke ==
  ASSUME Inv, EventInv, Revoke
  PROVE  EventInv'
<1>1. /\ job.pc = "Revoke" /\ job.pc \in Path /\ TypeInv /\ job.name \in Names
      /\ "RemoveFinalizer" \in Path
  BY DEF Inv, TypeInv, JobOK, Revoke, At, Path, ApplyPath
<1>2. UNCHANGED <<log, keyCR, bucketCR>>
  BY DEF Revoke, deps
<1>3. CASE Goto("RemoveFinalizer") /\ UNCHANGED queue
  <2>1. Goes /\ job'.pc = "RemoveFinalizer"
    BY <1>1, <1>3, GotoFacts
  <2>2. BucketSeen' /\ KeySeen' /\ job'.pc \notin ApplyPath
    BY <2>1 DEF BucketSeen, KeySeen, ApplyPath, AfterBucket, AfterKey
  <2> QED
    BY <1>1, <1>2, <1>3, <2>1, <2>2, GoesOn
<1>4. CASE Return(TRUE)
  <2>1. job' = Idle /\ queue' = queue \cup {job.name}
    BY <1>4 DEF Return
  <2>2. \A m \in Names : /\ m = job.name => ~Stays(m)'
                         /\ stored(m)' = stored(m) /\ fresh(m)' = fresh(m)
    BY <1>2, <2>1, OnlyPatchRests DEF Idle, stored, fresh
  <2> QED
    BY <1>1, <1>2, <2>1, <2>2, GoesIdle
<1> QED
  BY <1>3, <1>4 DEF Revoke, Deny

\* The end of a reconcile that leaves nothing to be said of the policy.
LEMMA EventFinishes ==
  ASSUME Inv, EventInv, NEW v, Finishes(v),
         \A m \in Names : m = job.name => (Stays(m)' => Settled(m)')
  PROVE  EventInv'
<1>1. /\ job' = Idle /\ queue \subseteq queue'
      /\ \A m \in Names \ {job.name} : stored(m)' = stored(m) /\ fresh(m)' = fresh(m)
  BY FinishesFacts
<1>2. UNCHANGED <<keyCR, bucketCR>> /\ job.pc # "idle"
  BY DEF Finishes, Path, ApplyPath
<1> QED
  BY <1>1, <1>2, GoesIdle

LEMMA EventWrites ==
  ASSUME Inv, EventInv, RemoveFinalizer \/ UpdateMeta
  PROVE  EventInv'
<1>1. \E v : Finishes(v)
  BY RemoveFinalizerFinishes, UpdateMetaFinishes
<1>2. job'.pc = "idle"
  BY <1>1, FinishesFacts DEF Idle
<1> QED
  BY <1>1, <1>2, OnlyPatchRests, EventFinishes

\* Nothing had to be patched, and no error: the status that was read is true.
LEMMA PatchQuiet ==
  ASSUME Inv, EventInv, PatchStatus, NEW m \in Names, m = job.name, Quiet(m)'
  PROVE  /\ Quiet(m) /\ stored(m)' = stored(m)
         /\ NewestStatus = job.orig /\ stored(m).status = NewestStatus
         /\ job.current /\ stored(m) \in Object /\ SameSpec(stored(m), job.obj)
<1>1. /\ job.pc = "PatchStatus" /\ job.pc \in Path
      /\ log \in Logs(Version)
  BY DEF PatchStatus, At, Path, ApplyPath, Inv, TypeInv
<1>2. CASE Return(TRUE)
  BY <1>2 DEF Return, Quiet
<1>3. CASE NewestStatus # job.orig /\ job.current /\ Store(m, Patched)
  <2>1. Patched \in Version /\ Patched.status = NewestStatus
    BY <1>1, <1>3, PatchFacts DEF Version
  <2>2. Patched # stored(m)
    BY <1>1, <1>3, <2>1 DEF Inv, CopyStored
  <2> QED
    BY <1>1, <1>3, <2>1, <2>2, KubeStore DEF Quiet
<1>4. CASE /\ UNCHANGED log /\ queue \subseteq queue'
           /\ NewestStatus = job.orig \/ ~job.current
  <2>1. Quiet(m) /\ stored(m)' = stored(m)
    BY <1>4 DEF Quiet, fresh, stored
  <2>2. /\ job.current /\ stored(m) \in Object
        /\ SameSpec(stored(m), job.obj) /\ stored(m).status = job.orig
    BY <1>1, <2>1, QuietCopy DEF EventInv
  <2> QED
    BY <1>4, <2>1, <2>2
<1> QED
  BY <1>2, <1>3, <1>4 DEF PatchStatus, OptimisticLock, NewestStatus, Patched, Return

LEMMA EventPatch ==
  ASSUME Inv, EventInv, PatchStatus
  PROVE  EventInv'
<1>1. \E v : Finishes(v)
  BY PatchFinishes
<1>2. job.pc = "PatchStatus" /\ job.pc \in ApplyPath /\ UNCHANGED <<keyCR, bucketCR>>
  BY DEF PatchStatus, At, ApplyPath, deps
<1>3. ASSUME NEW m \in Names, m = job.name, Stays(m)'
      PROVE  Settled(m)'
  <2>1. /\ Quiet(m) /\ stored(m)' = stored(m) /\ stored(m).status = NewestStatus
        /\ SameSpec(stored(m), job.obj)
    BY <1>3, PatchQuiet DEF Stays
  <2>2. /\ NewestStatus.keyID = JobKey /\ NewestStatus.bucketID = JobBucket
        /\ NewestStatus.key = job.obj.status.key
        /\ NewestStatus.bucket = job.obj.status.bucket
    BY <1>2, PatchFacts
  <2>3. /\ AgreesWithBucket(job.obj.status, BucketOfPolicy(m))
        /\ AgreesWithKey(job.obj.status, KeyOfPolicy(m))
    BY <1>2, <1>3, <2>1 DEF EventInv, BucketSeen, KeySeen, AfterBucket, AfterKey, ApplyPath
  <2>4. stored(m).labelled
    BY <1>2, <2>1 DEF EventInv, OnPath, SameSpec
  <2>5. KeyOfPolicy(m)' = KeyOfPolicy(m) /\ BucketOfPolicy(m)' = BucketOfPolicy(m)
    BY <1>2 DEF KeyOfPolicy, BucketOfPolicy
  <2> QED
    BY <2>1, <2>2, <2>3, <2>4, <2>5
       DEF Settled, AgreesWithBucket, AgreesWithKey, JobKey, JobBucket
<1> QED
  BY <1>1, <1>3, EventFinishes

LEMMA EventChecks ==
  ASSUME Inv, EventInv,
         \/ CheckBucket \/ CheckAccessKey \/ RevokeBucket \/ RevokeKey
         \/ DenyOthers \/ Allow
  PROVE  EventInv'
<1>1. TypeInv /\ EnvOK /\ UNCHANGED <<log, queue, keyCR, bucketCR>>
  BY DEF Inv, TypeInv, CheckBucket, CheckAccessKey, RevokeBucket, RevokeKey,
         DenyOthers, Allow, deps
<1>2. \A n \in Names : /\ Quiet(n)' = Quiet(n)
                       /\ KeyOfPolicy(n)' = KeyOfPolicy(n)
                       /\ BucketOfPolicy(n)' = BucketOfPolicy(n)
  BY <1>1 DEF Quiet, fresh, KeyOfPolicy, BucketOfPolicy
<1>3. ASSUME Goes, job.pc \in ApplyPath, job'.pc # "UpdateMeta",
             job'.pc \in AfterBucket /\ Quiet(job.name) =>
               /\ AgreesWithBucket(job'.obj.status, BucketOfPolicy(job.name))
               /\ job'.pc = "RevokeBucket" => ~BucketOfPolicy(job.name).exists,
             job'.pc \in AfterKey /\ Quiet(job.name) =>
               /\ AgreesWithKey(job'.obj.status, KeyOfPolicy(job.name))
               /\ job'.pc = "RevokeKey" => ~KeyOfPolicy(job.name).exists
      PROVE  EventInv'
  <2>1. job.pc \in Path /\ job'.name = job.name /\ job.name \in Names
    BY <1>1, <1>3 DEF Path, Goes, ApplyPath, TypeInv, JobOK
  <2>2. /\ \A n \in Names : n = job'.name => n = job.name
        /\ Quiet(job.name)' = Quiet(job.name)
        /\ KeyOfPolicy(job.name)' = KeyOfPolicy(job.name)
        /\ BucketOfPolicy(job.name)' = BucketOfPolicy(job.name)
    BY <1>1, <2>1 DEF Quiet, fresh, KeyOfPolicy, BucketOfPolicy
  <2>3. BucketSeen' /\ KeySeen'
    BY <1>3, <2>1, <2>2 DEF BucketSeen, KeySeen
  <2> QED
    BY <1>1, <1>3, <2>1, <2>3, GoesOn
<1>4. AgreesWithBucket(job.obj.status, BucketOfPolicy(job.name)) /\ job'.obj.status.bucket = job.obj.status.bucket
        /\ job'.obj.status.bucketID = job.obj.status.bucketID
      => AgreesWithBucket(job'.obj.status, BucketOfPolicy(job.name))
  BY DEF AgreesWithBucket
<1>5. AgreesWithKey(job.obj.status, KeyOfPolicy(job.name)) /\ job'.obj.status.key = job.obj.status.key
        /\ job'.obj.status.keyID = job.obj.status.keyID
      => AgreesWithKey(job'.obj.status, KeyOfPolicy(job.name))
  BY DEF AgreesWithKey
<1>6. CASE CheckBucket
  BY <1>1, <1>3, <1>6, CheckBucketFacts
     DEF BucketOfPolicy, AgreesWithBucket, ApplyPath, AfterKey
<1>7. CASE RevokeBucket
  <2>1. /\ Goes /\ job.pc = "RevokeBucket" /\ job'.pc = "CheckAccessKey"
        /\ job'.obj.status = [job.obj.status EXCEPT !.bucketID = NoID]
    BY <1>1, <1>7, RevokeBucketFacts
  <2>2. job'.obj.status.bucket = job.obj.status.bucket
    BY <1>1, <2>1 DEF TypeInv, JobOK, Path, ApplyPath, Object, Status
  <2>3. Quiet(job.name) => AgreesWithBucket(job'.obj.status, BucketOfPolicy(job.name))
    BY <2>1, <2>2 DEF EventInv, BucketSeen, AfterBucket, ApplyPath, AgreesWithBucket
  <2> QED
    BY <1>3, <2>1, <2>3 DEF ApplyPath, AfterKey
<1>8. CASE CheckAccessKey
  <2>1. /\ Goes /\ job.pc = "CheckAccessKey"
        /\ job'.pc \in {"RevokeKey", "Deny", "PatchStatus"}
        /\ job'.obj.status.bucket = job.obj.status.bucket
        /\ job'.obj.status.bucketID = job.obj.status.bucketID
        /\ AgreesWithKey(job'.obj.status, KeyOfPolicy(job.name))
        /\ job'.pc = "RevokeKey" => ~KeyOfPolicy(job.name).exists
    BY <1>1, <1>8, CheckAccessKeyFacts DEF KeyOfPolicy, AgreesWithKey
  <2>2. Quiet(job.name) => AgreesWithBucket(job'.obj.status, BucketOfPolicy(job.name))
    BY <1>4, <2>1 DEF EventInv, BucketSeen, AfterBucket, ApplyPath
  <2> QED
    BY <1>3, <2>1, <2>2 DEF ApplyPath
<1>9. CASE RevokeKey
  <2>1. /\ Goes /\ job.pc = "RevokeKey" /\ job'.pc = "PatchStatus"
        /\ job'.obj.status = [job.obj.status EXCEPT !.keyID = NoID]
    BY <1>1, <1>9, RevokeKeyFacts
  <2>2. /\ job'.obj.status.key = job.obj.status.key
        /\ job'.obj.status.bucket = job.obj.status.bucket
        /\ job'.obj.status.bucketID = job.obj.status.bucketID
    BY <1>1, <2>1 DEF TypeInv, JobOK, Path, ApplyPath, Object, Status
  <2>3. Quiet(job.name) =>
          /\ AgreesWithBucket(job'.obj.status, BucketOfPolicy(job.name))
          /\ AgreesWithKey(job'.obj.status, KeyOfPolicy(job.name))
    BY <1>4, <2>1, <2>2 DEF EventInv, BucketSeen, KeySeen, AfterBucket, AfterKey,
       ApplyPath, AgreesWithKey
  <2> QED
    BY <1>3, <2>1, <2>3 DEF ApplyPath
<1>10. CASE DenyOthers \/ Allow
  <2>1. /\ Goes /\ job.pc \in {"Deny", "Allow"} /\ job'.pc \in {"Allow", "PatchStatus"}
        /\ \/ job'.obj = job.obj
           \/ job'.obj.status = [job.obj.status EXCEPT !.assigned = "True"]
           \/ job'.obj.status = [job.obj.status EXCEPT !.assigned = "False"]
    BY <1>10, DenyOthersFacts, AllowFacts
  <2>2. job.obj.status \in Status
    BY <1>1, <2>1 DEF TypeInv, JobOK, Path, ApplyPath, Object
  <2>3. /\ job'.obj.status.key = job.obj.status.key
        /\ job'.obj.status.keyID = job.obj.status.keyID
        /\ job'.obj.status.bucket = job.obj.status.bucket
        /\ job'.obj.status.bucketID = job.obj.status.bucketID
    BY <2>1, <2>2 DEF Status
  <2>4. Quiet(job.name) =>
          /\ AgreesWithBucket(job'.obj.status, BucketOfPolicy(job.name))
          /\ AgreesWithKey(job'.obj.status, KeyOfPolicy(job.name))
    BY <1>4, <1>5, <2>1, <2>3 DEF EventInv, BucketSeen, KeySeen, AfterBucket,
       AfterKey, ApplyPath
  <2> QED
    BY <1>3, <2>1, <2>4 DEF ApplyPath
<1> QED
  BY <1>6, <1>7, <1>8, <1>9, <1>10

LEMMA EventStep ==
  ASSUME Inv, EventInv, Step
  PROVE  EventInv'
BY EventGet, EventRevoke, EventWrites, EventChecks, EventPatch DEF Step

\* Someone else writes a policy: it is not quiet any more.
LEMMA EventUser ==
  ASSUME Inv, EventInv, NEW n \in Names, NEW v \in Version, Written(n, v)
  PROVE  EventInv'
<1>1. /\ log \in Logs(Version) /\ job \in Job /\ Store(n, v) /\ v # stored(n)
      /\ job' = [job EXCEPT !.current = @ /\ n # job.name]
      /\ UNCHANGED <<queue, keyCR, bucketCR>>
  BY DEF Inv, TypeInv, JobOK, Written, UserWrites, deps
<1>2. /\ job'.pc = job.pc /\ job'.name = job.name /\ job'.obj = job.obj
      /\ job.current /\ n # job.name => job'.current
  BY <1>1 DEF Job
<1>3. /\ ~Quiet(n)'
      /\ \A m \in Names \ {n} : /\ stored(m)' = stored(m)
                                /\ Quiet(m)' = Quiet(m)
      /\ \A m \in Names : Quiet(m)' => Quiet(m) /\ m # n
  BY <1>1, KubeStore DEF Quiet, stored, fresh
<1>4. job.pc \in Path => job.name \in Names /\ (Quiet(job.name)' => Quiet(job.name) /\ job.name # n)
  <2>1. job.pc \in Path => job.name \in Names
    BY DEF Inv, TypeInv, JobOK, Path, ApplyPath
  <2>2. \A m \in Names : m = job.name => (Quiet(job.name)' = Quiet(m)')
    BY <1>2 DEF Quiet, fresh
  <2> QED
    BY <1>3, <2>1, <2>2
<1>5. Behind'
  BY <1>2, <1>4 DEF EventInv, Behind
<1>6. OnPath' /\ DepsWellFormed'
  BY <1>1, <1>2 DEF EventInv, OnPath, DepsWellFormed
<1>7. BucketSeen' /\ KeySeen'
  BY <1>1, <1>2, <1>4 DEF EventInv, BucketSeen, KeySeen, AfterBucket, AfterKey,
     ApplyPath, Path, KeyOfPolicy, BucketOfPolicy
<1>8. ASSUME NEW m \in Names, Rests(m)'
      PROVE  Settled(m)'
  <2>1. m # n /\ stored(m)' = stored(m) /\ Rests(m)
    BY <1>2, <1>3, <1>8 DEF Rests, Stays
  <2> QED
    BY <1>1, <2>1 DEF EventInv, Settled, KeyOfPolicy, BucketOfPolicy
<1> QED
  BY <1>5, <1>6, <1>7, <1>8 DEF EventInv

LEMMA EventWorld ==
  ASSUME Inv, EventInv, World
  PROVE  EventInv'
<1>1. /\ log \in Logs(Version) /\ job \in Job /\ EnvOK
      /\ job.pc \in Path => job.name \in Names
  BY DEF Inv, TypeInv, JobOK, Path, ApplyPath
<1>2. ASSUME NEW n \in Names, User(n)
      PROVE  EventInv'
  BY <1>1, <1>2, UserFacts, EventUser
<1>3. ASSUME NEW n \in Names, Dequeue(n)
      PROVE  EventInv'
  <2>1. /\ job.pc = "idle" /\ queue' = queue \ {n}
        /\ job' = [Idle EXCEPT !.pc = "Get", !.name = n]
        /\ UNCHANGED <<log, keyCR, bucketCR>>
    BY <1>3 DEF Dequeue, At, deps
  <2>2. job'.pc = "Get" /\ job'.name = n
    BY <2>1 DEF Idle
  <2>3. Behind' /\ OnPath' /\ DepsWellFormed' /\ BucketSeen' /\ KeySeen'
    BY <2>1, <2>2 DEF EventInv, Behind, OnPath, DepsWellFormed, BucketSeen,
       KeySeen, Path, ApplyPath, AfterBucket, AfterKey
  <2>4. ASSUME NEW m \in Names, Rests(m)'
        PROVE  Settled(m)'
    <3>1. m # n /\ stored(m)' = stored(m) /\ Rests(m)
      BY <2>1, <2>2, <2>4 DEF Rests, Stays, Quiet, stored, fresh
    <3> QED
      BY <2>1, <3>1 DEF EventInv, Settled, KeyOfPolicy, BucketOfPolicy
  <2> QED
    BY <2>3, <2>4 DEF EventInv
<1>4. ASSUME NEW n \in Names, Informer(n)
      PROVE  EventInv'
  <2>1. Deliver(n) /\ UNCHANGED <<keyCR, bucketCR, job>>
    BY <1>4 DEF Informer, deps
  <2>2. /\ queue' = queue \cup {n}
        /\ \A m \in Names : stored(m)' = stored(m)
        /\ \A m \in Names \ {n} : fresh(m)' = fresh(m)
    BY <1>1, <2>1, DeliverEffect
  <2>3. \A m \in Names : Quiet(m)' => Quiet(m) /\ m # n
    BY <2>2 DEF Quiet
  <2>4. job.pc \in Path => (Quiet(job.name)' => Quiet(job.name))
    <3>1. \A m \in Names : m = job.name => (Quiet(job.name)' = Quiet(m)')
      BY <2>1 DEF Quiet, fresh
    <3> QED
      BY <1>1, <2>3, <3>1
  <2>5. /\ AfterBucket \subseteq Path /\ AfterKey \subseteq Path
    BY DEF AfterBucket, AfterKey, Path, ApplyPath
  <2>6. Behind' /\ OnPath' /\ DepsWellFormed' /\ BucketSeen' /\ KeySeen'
    BY <2>1, <2>4, <2>5 DEF EventInv, Behind, OnPath, DepsWellFormed, BucketSeen,
       KeySeen, KeyOfPolicy, BucketOfPolicy
  <2>7. ASSUME NEW m \in Names, Rests(m)'
        PROVE  Settled(m)'
    <3>1. stored(m)' = stored(m) /\ Rests(m)
      BY <2>1, <2>2, <2>3, <2>7 DEF Rests, Stays
    <3> QED
      BY <2>1, <3>1 DEF EventInv, Settled, KeyOfPolicy, BucketOfPolicy
  <2> QED
    BY <2>6, <2>7 DEF EventInv
<1>5. ASSUME NEW k \in KeyNames, KeyWatched(k)
      PROVE  EventInv'
  <2>1. PICK v \in Dependency : KeyChange(k, v)
    BY <1>1, <1>5, KeyFacts
  <2>2. /\ keyCR' = [keyCR EXCEPT ![k] = v]
        /\ queue' = queue \cup LabelledFor(KeyOf, k)
        /\ UNCHANGED <<log, bucketCR, job>>
        /\ WellFormed(v)
    BY <2>1 DEF KeyChange, KeyEvent, EventInv, DepsWellFormed
  <2>3. DepsWellFormed'
    BY <1>1, <2>2 DEF EventInv, DepsWellFormed, EnvOK
  <2>4. ASSUME NEW n \in Names, Quiet(n)', cached(n) # NoObject, cached(n).labelled
        PROVE  /\ KeyOfPolicy(n)' = KeyOfPolicy(n)
               /\ BucketOfPolicy(n)' = BucketOfPolicy(n)
    <3>1. KeyOf[n] # k
      BY <2>2, <2>4 DEF Quiet, LabelledFor
    <3>2. KeyOf[n] \in KeyNames
      BY ReferencesAssumption DEF ReferencesAssumption
    <3> QED
      BY <1>1, <2>2, <3>1, <3>2 DEF EnvOK, KeyOfPolicy, BucketOfPolicy
  <2> QED
    BY <2>2, <2>3, <2>4, DepsChange
<1>6. ASSUME NEW k \in KeyNames, KeyLeavesGarage(k)
      PROVE  EventInv'
  <2>1. UNCHANGED <<log, queue, keyCR, bucketCR, job>>
    BY <1>1, <1>6, KeyLeavesFacts
  <2> QED
    BY <2>1, DepsChange DEF EventInv, DepsWellFormed, KeyOfPolicy, BucketOfPolicy
<1>7. ASSUME NEW b \in BucketNames, BucketWatched(b)
      PROVE  EventInv'
  <2>1. PICK v \in Dependency : BucketChange(b, v)
    BY <1>1, <1>7, BucketFacts
  <2>2. /\ bucketCR' = [bucketCR EXCEPT ![b] = v]
        /\ queue' = queue \cup LabelledFor(BucketOf, b)
        /\ UNCHANGED <<log, keyCR, job>>
        /\ WellFormed(v)
    BY <2>1 DEF BucketChange, BucketEvent, EventInv, DepsWellFormed
  <2>3. DepsWellFormed'
    BY <1>1, <2>2 DEF EventInv, DepsWellFormed, EnvOK
  <2>4. ASSUME NEW n \in Names, Quiet(n)', cached(n) # NoObject, cached(n).labelled
        PROVE  /\ KeyOfPolicy(n)' = KeyOfPolicy(n)
               /\ BucketOfPolicy(n)' = BucketOfPolicy(n)
    <3>1. BucketOf[n] # b
      BY <2>2, <2>4 DEF Quiet, LabelledFor
    <3>2. BucketOf[n] \in BucketNames
      BY ReferencesAssumption DEF ReferencesAssumption
    <3> QED
      BY <1>1, <2>2, <3>1, <3>2 DEF EnvOK, KeyOfPolicy, BucketOfPolicy
  <2> QED
    BY <2>2, <2>3, <2>4, DepsChange
<1>8. CASE Crash
  <2>1. Relist /\ job' = Idle /\ UNCHANGED <<keyCR, bucketCR>>
    BY <1>8 DEF Crash, deps
  <2>2. job'.pc = "idle"
    BY <2>1 DEF Idle
  <2>3. Behind' /\ OnPath' /\ DepsWellFormed' /\ BucketSeen' /\ KeySeen'
    BY <2>1, <2>2 DEF EventInv, Behind, OnPath, DepsWellFormed, BucketSeen,
       KeySeen, Path, ApplyPath, AfterBucket, AfterKey
  <2>4. \A m \in Names : ~Rests(m)'
    <3>1. /\ queue' = {m \in Names : stored(m) # NoObject}
          /\ \A m \in Names : stored(m)' = stored(m)
      BY <1>1, <2>1, KubeRelist
    <3> QED
      BY <3>1 DEF Rests, Stays, Quiet
  <2> QED
    BY <2>3, <2>4 DEF EventInv
<1> QED
  BY <1>2, <1>3, <1>4, <1>5, <1>6, <1>7, <1>8 DEF World

LEMMA EventInit == Init => EventInv
<1> SUFFICES ASSUME Init PROVE EventInv
  OBVIOUS
<1>1. job.pc = "idle"
  BY DEF Init, Idle
<1>2. DepsWellFormed
  BY DEF Init, DepsWellFormed, WellFormed, Absent
<1>3. Behind /\ OnPath /\ BucketSeen /\ KeySeen
  BY <1>1 DEF Behind, OnPath, BucketSeen, KeySeen, Path, ApplyPath, AfterBucket, AfterKey
<1>4. \A n \in Names : stored(n) = NoObject
  <2>1. NoObject \in Version /\ KubeInit
    BY DEF Version, Init
  <2> QED
    BY <2>1, KubeStart
<1> QED
  BY <1>2, <1>3, <1>4 DEF EventInv, Rests, Stays

LEMMA EventNext == Inv /\ EventInv /\ [Next]_vars => EventInv'
<1> SUFFICES ASSUME Inv, EventInv, [Next]_vars PROVE EventInv'
  OBVIOUS
<1>1. CASE Next
  BY <1>1, NextParts, EventStep, EventWorld
<1>2. CASE UNCHANGED vars
  <2>1. UNCHANGED <<log, queue, keyCR, bucketCR, job>>
    BY <1>2 DEF vars, deps
  <2> QED
    BY <2>1, DepsChange DEF EventInv, DepsWellFormed, KeyOfPolicy, BucketOfPolicy
<1> QED
  BY <1>1, <1>2

\* No event of an AccessKey, a Bucket or the policy is missed: the labels are
\* in the cache before a policy rests.
THEOREM EventInvariant == Spec => []EventInv
BY EventInit, EventNext, Invariant, InvInit, InvNext, PTL DEF Spec

\* Of a policy that stays with its AccessKey and its Bucket the IDs of every
\* grant are recorded, or the worker will look at it again.
THEOREM GrantsRecordedOrPending == Spec => []GrantsKnown
<1>1. ASSUME Inv, EventInv, NEW g \in grants, NEW n \in Names,
             stored(n) # NoObject, ~stored(n).deleting,
             keyCR[KeyOf[n]].id = g.key, bucketCR[BucketOf[n]].id = g.bucket,
             ~Pending(n)
      PROVE  stored(n).status.keyID = g.key /\ stored(n).status.bucketID = g.bucket
  <2>1. Settled(n)
    BY <1>1 DEF EventInv, Rests, Stays, Quiet, Pending
  <2>2. g.key # NoID /\ g.bucket # NoID
    BY <1>1, ReferencesAssumption DEF Inv, GrantsLive, ReferencesAssumption
  <2>3. KeyOf[n] \in KeyNames /\ BucketOf[n] \in BucketNames
    BY ReferencesAssumption DEF ReferencesAssumption
  <2>4. keyCR[KeyOf[n]].exists /\ bucketCR[BucketOf[n]].exists
    BY <1>1, <2>2, <2>3 DEF EventInv, DepsWellFormed, WellFormed
  <2> QED
    BY <1>1, <2>1, <2>4 DEF Settled, AgreesWithKey, AgreesWithBucket,
       KeyOfPolicy, BucketOfPolicy
<1>2. Inv /\ EventInv => GrantsKnown
  BY <1>1 DEF GrantsKnown
<1> QED
  BY <1>2, Invariant, EventInvariant, PTL
-----------------------------------------------------------------------------
(* The keys of two AccessKeys are apart, and so are the recorded ones.      *)

\* Could policy n have recorded key ID id?
Own(n, id) ==
  /\ id < nextKey
  /\ \A k \in KeyNames : keyCR[k].id = id => id = NoID \/ k = KeyOf[n]

KeysApart ==
  \A k \in KeyNames :
    /\ keyCR[k].id < nextKey
    /\ \A x \in KeyNames : keyCR[k].id = keyCR[x].id => keyCR[k].id = NoID \/ x = k

RecordsOwn ==
  /\ \A n \in Names : \A i \in Index(n) :
       log[n][i] \in Object => Own(n, log[n][i].status.keyID)
  /\ job.pc \in Path => Own(job.name, JobKey)

OwnInv == KeysApart /\ RecordsOwn

\* The key ID in the worker's copy: as it was, cleared, read with the policy
\* or read with its AccessKey.
LEMMA JobKeyFacts ==
  ASSUME Inv, Step, job'.pc \in Path
  PROVE  /\ job'.name = job.name
         /\ \/ job.pc \in Path /\ JobKey' = JobKey
            \/ JobKey' = NoID
            \/ JobKey' = KeyOfPolicy(job.name).id
            \/ cached(job.name) \in Object /\ JobKey' = cached(job.name).status.keyID
<1>1. TypeInv /\ job \in Job /\ Idle.pc \notin Path
  BY DEF Inv, TypeInv, JobOK, Idle, Path, ApplyPath
<1>2. CASE Get
  <2>1. job.name \in Names /\ log \in Logs(Version)
    BY <1>1, <1>2 DEF Get, At, TypeInv, JobOK
  <2>2. cached(job.name) \in Version /\ fresh(job.name) \in BOOLEAN
    BY <2>1, KubeLog
  <2>3. PICK p \in {"Revoke", "RemoveFinalizer", "UpdateMeta", "CheckBucket"} :
          /\ cached(job.name) # NoObject
          /\ job' = [job EXCEPT !.pc = p, !.obj = cached(job.name),
                                !.orig = cached(job.name).status,
                                !.current = fresh(job.name)]
    BY <1>1, <1>2 DEF Get, Return
  <2>4. job'.name = job.name /\ job'.obj = cached(job.name)
    BY <1>1, <2>3 DEF Job
  <2> QED
    BY <2>2, <2>3, <2>4 DEF JobKey, Version
<1>3. CASE Revoke
  <2>1. Goto("RemoveFinalizer")
    BY <1>1, <1>3 DEF Revoke, Deny, Return
  <2>2. job.pc \in Path /\ "RemoveFinalizer" \in Path
    BY <1>3 DEF Revoke, At, Path
  <2> QED
    BY <1>1, <2>1, <2>2, GotoFacts DEF Goes, JobKey
<1>4. CASE RemoveFinalizer \/ UpdateMeta \/ PatchStatus
  <2>1. \E v : Finishes(v)
    BY <1>4, RemoveFinalizerFinishes, UpdateMetaFinishes, PatchFinishes
  <2> QED
    BY <1>1, <2>1, FinishesFacts
<1>5. CASE CheckBucket
  BY <1>1, <1>5, CheckBucketFacts DEF Goes, JobKey, Path, ApplyPath
<1>6. CASE CheckAccessKey
  BY <1>1, <1>6, CheckAccessKeyFacts DEF Goes, JobKey, KeyOfPolicy, Path, ApplyPath
<1>7. CASE RevokeBucket
  <2>1. /\ Goes /\ job.pc = "RevokeBucket" /\ job.pc \in Path
        /\ job'.obj.status = [job.obj.status EXCEPT !.bucketID = NoID]
    BY <1>1, <1>7, RevokeBucketFacts DEF Path, ApplyPath
  <2> QED
    BY <1>1, <2>1 DEF Goes, JobKey, TypeInv, JobOK, Object, Status
<1>8. CASE RevokeKey
  <2>1. /\ Goes /\ job.pc = "RevokeKey" /\ job.pc \in Path
        /\ job'.obj.status = [job.obj.status EXCEPT !.keyID = NoID]
    BY <1>1, <1>8, RevokeKeyFacts DEF Path, ApplyPath
  <2> QED
    BY <1>1, <2>1 DEF Goes, JobKey, TypeInv, JobOK, Object, Status
<1>9. CASE DenyOthers \/ Allow
  BY <1>9, DenyOthersFacts, AllowFacts DEF Goes, Path, ApplyPath
<1> QED
  BY <1>2, <1>3, <1>4, <1>5, <1>6, <1>7, <1>8, <1>9 DEF Step

\* The key IDs of the versions: a write records what a version or the worker
\* had, or none.
LEMMA NewVersions ==
  ASSUME Inv, [Next]_vars, NEW n \in Names, NEW i \in Index(n)',
         log'[n][i] \in Object
  PROVE  \/ \E j \in Index(n) : log[n][j] \in Object /\ log'[n][i] = log[n][j]
         \/ /\ stored(n) \in Object
            /\ log'[n][i].status.keyID = stored(n).status.keyID
         \/ /\ n = job.name /\ job.pc \in Path
            /\ log'[n][i].status.keyID = JobKey
         \/ log'[n][i].status.keyID = NoID
<1>1. log \in Logs(Version) /\ EnvOK /\ NoObject \notin Object /\ TypeInv
  BY NoObjectAssumption DEF Inv, TypeInv, NoObjectAssumption
<1>2. UNCHANGED log => \E j \in Index(n) : log'[n][i] = log[n][j]
  BY DEF Index
<1>3. ASSUME NEW m \in Names, NEW v \in Version, Store(m, v)
      PROVE  \/ \E j \in Index(n) : log'[n][i] = log[n][j]
             \/ n = m /\ log'[n][i] = v
  <2>1. CASE n # m
    BY <1>1, <1>3, <2>1, KubeStore DEF Index
  <2>2. CASE n = m
    <3>1. /\ \A j \in Index(m) : log'[m][j] = log[m][j]
          /\ \A j \in Index(m)' \ Index(m) : log'[m][j] = v
      BY <1>1, <1>3, KubeStore
    <3> QED
      BY <2>2, <3>1
  <2> QED
    BY <2>1, <2>2
<1>4. CASE Step
  <2>1. CASE RemoveFinalizer
    <3>1. job.name \in Names /\ NoObject \in Version
      BY <2>1, RemoveFinalizerFinishes, FinishesFacts DEF Version
    <3> QED
      BY <1>1, <1>2, <1>3, <2>1, <3>1 DEF RemoveFinalizer
  <2>2. CASE UpdateMeta
    <3>1. /\ job.name \in Names /\ UpdatedMeta \in Version /\ job.pc \in Path
          /\ UpdatedMeta.status.keyID = JobKey
      BY <2>2, UpdateMetaFinishes, FinishesFacts
         DEF Version, Path, Inv, Untouched, JobKey
    <3> QED
      BY <1>1, <1>2, <1>3, <2>2, <3>1 DEF UpdateMeta, UpdatedMeta
  <2>3. CASE PatchStatus
    <3>1. job.name \in Names /\ job.pc \in Path /\ job.pc = "PatchStatus"
      BY <2>3 DEF PatchStatus, At, Path, ApplyPath, TypeInv, JobOK, Inv
    <3>2. UNCHANGED log \/ (job.current /\ Store(job.name, Patched))
      BY <2>3 DEF PatchStatus, OptimisticLock, Patched, NewestStatus
    <3>3. job.current => Patched \in Version /\ Patched.status.keyID = JobKey
      BY <3>1, PatchFacts DEF Version
    <3> QED
      BY <1>1, <1>2, <1>3, <3>1, <3>2, <3>3
  <2>4. CASE Get \/ Revoke \/ CheckBucket \/ RevokeBucket \/ CheckAccessKey
             \/ RevokeKey \/ DenyOthers \/ Allow
    BY <1>2, <2>4 DEF Get, Revoke, CheckBucket, RevokeBucket, CheckAccessKey,
                      RevokeKey, DenyOthers, Allow
  <2> QED
    BY <1>4, <2>1, <2>2, <2>3, <2>4 DEF Step
<1>5. CASE World
  <2>1. ASSUME NEW m \in Names, User(m)
        PROVE  \/ \E j \in Index(n) : log'[n][i] = log[n][j]
               \/ stored(n) \in Object /\ log'[n][i].status = stored(n).status
               \/ log'[n][i].status = NewStatus
    <3>1. PICK v \in Version : Written(m, v)
      BY <1>1, <2>1, UserFacts
    <3> QED
      BY <1>1, <1>3, <3>1 DEF Written, UserWrites
  <2>2. ASSUME NEW m \in Names, Dequeue(m)
        PROVE  UNCHANGED log
    BY <2>2 DEF Dequeue
  <2>3. ASSUME NEW m \in Names, Informer(m)
        PROVE  \E j \in Index(n) : log'[n][i] = log[n][j]
    <3>1. /\ \A x \in Names \ {m} : log'[x] = log[x]
          /\ \A j \in Index(m)' : j + 1 \in Index(m) /\ log'[m][j] = log[m][j + 1]
      BY <1>1, <2>3, KubeDeliver DEF Informer
    <3> QED
      BY <3>1 DEF Index
  <2>4. ASSUME NEW k \in KeyNames, KeyWatched(k) \/ KeyLeavesGarage(k)
        PROVE  UNCHANGED log
    BY <1>1, <2>4, KeyFacts, KeyLeavesFacts DEF KeyChange, KeyEvent
  <2>5. ASSUME NEW b \in BucketNames, BucketWatched(b)
        PROVE  UNCHANGED log
    BY <1>1, <2>5, BucketFacts DEF BucketChange, BucketEvent
  <2>6. ASSUME Crash
        PROVE  \E j \in Index(n) : log'[n][i] = log[n][j]
    <3>1. Len(log'[n]) = 1 /\ log'[n][1] = stored(n)
      BY <1>1, <2>6, KubeRelist DEF Crash
    <3>2. i = 1
      BY <3>1 DEF Index
    <3> QED
      BY <1>1, <3>1, <3>2, KubeLog DEF stored
  <2>7. NewStatus.keyID = NoID
    BY DEF NewStatus
  <2> QED
    BY <1>2, <1>5, <2>1, <2>2, <2>3, <2>4, <2>5, <2>6, <2>7 DEF World
<1>6. CASE UNCHANGED vars
  BY <1>2, <1>6 DEF vars
<1> QED
  BY <1>4, <1>5, <1>6, NextParts
\* A step of the worker leaves the dependencies and the keys alone.
LEMMA StepDeps ==
  ASSUME Step
  PROVE  UNCHANGED <<keyCR, bucketCR, liveKeys, nextKey>>
BY DEF Step, Get, Revoke, RemoveFinalizer, UpdateMeta, CheckBucket, RevokeBucket,
       CheckAccessKey, RevokeKey, DenyOthers, Allow, PatchStatus, deps, garage

\* Of the AccessKeys one may get a new key ID or lose the one it had.
LEMMA KeysChange ==
  ASSUME Inv, [Next]_vars
  PROVE  \/ keyCR' = keyCR /\ nextKey' = nextKey
         \/ \E k \in KeyNames, v \in Dependency :
              /\ keyCR' = [keyCR EXCEPT ![k] = v]
              /\ \/ v.id \in {keyCR[k].id, NoID} /\ nextKey' = nextKey
                 \/ v.id = nextKey /\ nextKey' = nextKey + 1
<1>1. EnvOK
  BY DEF Inv, TypeInv
<1>2. CASE Step
  BY <1>2, StepDeps
<1>3. CASE World
  <2>1. \A n \in Names : User(n) => keyCR' = keyCR /\ nextKey' = nextKey
    BY DEF User, UserCreates, UserEdits, UserUnlabels, UserDeletes, UserWrites,
           deps, garage
  <2>2. \A n \in Names : Dequeue(n) \/ Informer(n) => keyCR' = keyCR /\ nextKey' = nextKey
    BY DEF Dequeue, Informer, deps, garage
  <2>3. ASSUME NEW k \in KeyNames, KeyWatched(k)
        PROVE  \E v \in Dependency :
                 /\ keyCR' = [keyCR EXCEPT ![k] = v]
                 /\ \/ v.id \in {keyCR[k].id, NoID} /\ nextKey' = nextKey
                    \/ v.id = nextKey /\ nextKey' = nextKey + 1
    BY <1>1, <2>3, KeyFacts DEF KeyChange, KeyEvent
  <2>4. \A k \in KeyNames : KeyLeavesGarage(k) => keyCR' = keyCR /\ nextKey' = nextKey
    BY <1>1, KeyLeavesFacts
  <2>5. \A b \in BucketNames : BucketWatched(b) => keyCR' = keyCR /\ nextKey' = nextKey
    BY <1>1, BucketFacts DEF BucketChange, BucketEvent, garage
  <2>6. Crash => keyCR' = keyCR /\ nextKey' = nextKey
    BY DEF Crash, deps, garage
  <2> QED
    BY <1>3, <2>1, <2>2, <2>3, <2>4, <2>5, <2>6 DEF World
<1>4. CASE UNCHANGED vars
  BY <1>4 DEF vars, deps, garage
<1> QED
  BY <1>2, <1>3, <1>4, NextParts

LEMMA OwnStays ==
  ASSUME Inv, [Next]_vars, NEW n \in Names, NEW id \in Nat, Own(n, id)
  PROVE  Own(n, id)'
<1>1. keyCR \in [KeyNames -> Dependency] /\ nextKey \in Nat
  BY DEF Inv, TypeInv, EnvOK
<1>2. CASE keyCR' = keyCR /\ nextKey' = nextKey
  BY <1>2 DEF Own
<1>3. ASSUME NEW k \in KeyNames, NEW v \in Dependency,
             keyCR' = [keyCR EXCEPT ![k] = v],
             \/ v.id \in {keyCR[k].id, NoID} /\ nextKey' = nextKey
             \/ v.id = nextKey /\ nextKey' = nextKey + 1
      PROVE  Own(n, id)'
  <2>1. id < nextKey' /\ id # nextKey
    BY <1>1, <1>3 DEF Own
  <2>2. ASSUME NEW x \in KeyNames, keyCR'[x].id = id
        PROVE  id = NoID \/ x = KeyOf[n]
    <3>1. CASE x # k
      BY <1>1, <1>3, <2>2, <3>1 DEF Own
    <3>2. CASE x = k
      <4>1. keyCR'[x] = v
        BY <1>1, <1>3, <3>2
      <4> QED
        BY <1>3, <2>1, <2>2, <3>2, <4>1 DEF Own
    <3> QED
      BY <3>1, <3>2
  <2> QED
    BY <2>1, <2>2 DEF Own
<1> QED
  BY <1>2, <1>3, KeysChange

LEMMA ApartStays ==
  ASSUME Inv, [Next]_vars, KeysApart
  PROVE  KeysApart'
<1>1. keyCR \in [KeyNames -> Dependency] /\ nextKey \in Nat \ {0}
  BY DEF Inv, TypeInv, EnvOK
<1>2. \A x \in KeyNames : keyCR[x].id \in Nat
  BY <1>1 DEF Dependency
<1>3. CASE keyCR' = keyCR /\ nextKey' = nextKey
  BY <1>3 DEF KeysApart
<1>4. ASSUME NEW k \in KeyNames, NEW v \in Dependency,
             keyCR' = [keyCR EXCEPT ![k] = v],
             \/ v.id \in {keyCR[k].id, NoID} /\ nextKey' = nextKey
             \/ v.id = nextKey /\ nextKey' = nextKey + 1
      PROVE  KeysApart'
  <2>1. /\ keyCR'[k] = v
        /\ \A x \in KeyNames \ {k} : keyCR'[x] = keyCR[x]
    BY <1>1, <1>4
  <2>2. \A x \in KeyNames : keyCR'[x].id < nextKey'
    <3>1. v.id < nextKey'
      BY <1>1, <1>4 DEF KeysApart, NoID
    <3>2. \A x \in KeyNames \ {k} : keyCR'[x].id < nextKey'
      BY <1>1, <1>2, <1>4, <2>1 DEF KeysApart
    <3> QED
      BY <2>1, <3>1, <3>2
  <2>3. \A x \in KeyNames \ {k} : v.id = keyCR[x].id => v.id = NoID
    BY <1>1, <1>2, <1>4 DEF KeysApart
  <2>4. \A x, y \in KeyNames : keyCR'[x].id = keyCR'[y].id =>
                                 keyCR'[x].id = NoID \/ y = x
    BY <2>1, <2>3 DEF KeysApart
  <2> QED
    BY <2>2, <2>4 DEF KeysApart
<1> QED
  BY <1>3, <1>4, KeysChange

LEMMA OwnNext == Inv /\ OwnInv /\ [Next]_vars => OwnInv'
<1> SUFFICES ASSUME Inv, OwnInv, [Next]_vars PROVE OwnInv'
  OBVIOUS
<1>1. /\ log \in Logs(Version) /\ NoObject \notin Object /\ nextKey \in Nat \ {0}
      /\ KeyOf \in [Names -> KeyNames] /\ TypeInv /\ EnvOK
  BY NoObjectAssumption, ReferencesAssumption
     DEF Inv, TypeInv, EnvOK, NoObjectAssumption, ReferencesAssumption
<1>2. \A n \in Names : Own(n, NoID)
  BY <1>1 DEF Own, NoID
<1>3. /\ \A o \in Object : o.status.keyID \in Nat
      /\ NoID \in Nat
  BY DEF Object, Status, NoID
<1>4. \A n \in Names : stored(n) \in Object => Own(n, stored(n).status.keyID)
  BY <1>1, KubeLog DEF OwnInv, RecordsOwn, stored
<1>5. \A n \in Names : cached(n) \in Object => Own(n, cached(n).status.keyID)
  BY <1>1, KubeLog DEF OwnInv, RecordsOwn, cached
<1>6. ASSUME NEW n \in Names, NEW i \in Index(n)', log'[n][i] \in Object,
             NEW id \in Nat, id = log'[n][i].status.keyID
      PROVE  Own(n, id)'
  <2>1. Own(n, id)
    BY <1>2, <1>4, <1>6, NewVersions DEF OwnInv, RecordsOwn
  <2> QED
    BY <2>1, OwnStays
<1>7. ASSUME job'.pc \in Path
      PROVE  Own(job.name, JobKey)'
  <2>1. CASE Step
    <3>1. /\ job'.name = job.name /\ job.name \in Names
      BY <1>1, <1>7, <2>1, JobKeyFacts DEF Step, TypeInv, JobOK, Get, Revoke,
         RemoveFinalizer, UpdateMeta, CheckBucket, RevokeBucket, CheckAccessKey,
         RevokeKey, DenyOthers, Allow, PatchStatus, At
    <3>2. Own(job.name, KeyOfPolicy(job.name).id)
      BY <1>1, <3>1 DEF Own, OwnInv, KeysApart, KeyOfPolicy
    <3>3. Own(job.name, JobKey')
      BY <1>2, <1>5, <1>7, <2>1, <3>1, <3>2, JobKeyFacts DEF OwnInv, RecordsOwn
    <3>4. UNCHANGED <<keyCR, nextKey>>
      BY <2>1, StepDeps
    <3> QED
      BY <3>1, <3>3, <3>4 DEF Own
  <2>2. CASE job'.pc = job.pc /\ job'.name = job.name /\ job'.obj = job.obj
    <3>1. job.name \in Names /\ JobKey \in Nat /\ JobKey' = JobKey
      BY <1>1, <1>3, <1>7, <2>2 DEF TypeInv, JobOK, Path, ApplyPath, JobKey
    <3>2. \A n \in Names : n = job.name => Own(n, JobKey)'
      <4>1. Own(job.name, JobKey)
        BY <1>7, <2>2 DEF OwnInv, RecordsOwn
      <4>2. \A n \in Names, id \in Nat : Own(n, id) => Own(n, id)'
        BY OwnStays
      <4>3. \A n \in Names, id \in Nat : n = job.name /\ id = JobKey => Own(n, id)'
        BY <4>1, <4>2
      <4>4. \A n \in Names, id \in Nat : id = JobKey' /\ Own(n, id)' => Own(n, JobKey)'
        BY DEF Own
      <4> QED
        BY <3>1, <4>3, <4>4
    <3> QED
      BY <2>2, <3>1, <3>2 DEF Own
  <2>3. CASE World /\ ~(job'.pc = job.pc /\ job'.name = job.name /\ job'.obj = job.obj)
    <3>1. \A n \in Names : ~User(n)
      BY <1>1, <2>3 DEF User, UserCreates, UserEdits, UserUnlabels, UserDeletes,
         UserWrites, TypeInv, JobOK, Job
    <3>2. \A n \in Names : Dequeue(n) => job'.pc \notin Path
      BY DEF Dequeue, Idle, Path, ApplyPath
    <3>3. Crash => job'.pc \notin Path
      BY DEF Crash, Idle, Path, ApplyPath
    <3>4. \A n \in Names : Informer(n) => job' = job
      BY DEF Informer
    <3>5. \A k \in KeyNames : KeyWatched(k) \/ KeyLeavesGarage(k) => job' = job
      BY <1>1, KeyFacts, KeyLeavesFacts DEF KeyChange, KeyEvent
    <3>6. \A b \in BucketNames : BucketWatched(b) => job' = job
      BY <1>1, BucketFacts DEF BucketChange, BucketEvent
    <3> QED
      BY <1>7, <2>3, <3>1, <3>2, <3>3, <3>4, <3>5, <3>6 DEF World
  <2> QED
    BY <2>1, <2>2, <2>3, NextParts DEF vars
<1>8. RecordsOwn'
  <2>1. \A n \in Names : \A i \in Index(n)' : log'[n][i] \in Object =>
          /\ log'[n][i].status.keyID < nextKey'
          /\ \A k \in KeyNames :
               keyCR'[k].id = log'[n][i].status.keyID =>
                 log'[n][i].status.keyID = NoID \/ k = KeyOf[n]
    BY <1>3, <1>6 DEF Own
  <2> QED
    BY <1>7, <2>1 DEF RecordsOwn, Own
<1> QED
  BY <1>8, ApartStays DEF OwnInv

LEMMA OwnInit == Init => OwnInv
<1> SUFFICES ASSUME Init PROVE OwnInv
  OBVIOUS
<1>1. job.pc \notin Path
  BY DEF Init, Idle, Path, ApplyPath
<1>2. KeysApart
  BY DEF Init, KeysApart, Absent, NoID
<1>3. \A n \in Names : \A i \in Index(n) : log[n][i] = NoObject
  BY DEF Init, KubeInit, Index
<1> QED
  BY <1>1, <1>2, <1>3, NoObjectAssumption DEF OwnInv, RecordsOwn, NoObjectAssumption
-----------------------------------------------------------------------------
(* Ready tells the truth about the permissions.                             *)

\* On the way to the patch a missing or unready dependency is in the status.
NotReadyYet ==
  /\ job.pc = "RevokeKey" => job.obj.status.key = "False"
  /\ job.pc = "RevokeBucket" \/ (job.pc = "CheckAccessKey" /\ job.failed) =>
       job.obj.status.bucket = "False"

\* A ready status names a pair with exactly these permissions, while its key
\* exists.
Exact(st, perms) ==
  Ready(st) /\ st.keyID \in liveKeys => Granted(st.keyID, st.bucketID) = perms

JobExact ==
  job.pc = "PatchStatus" => Exact(job.obj.status, job.obj.perms)

SettledExact ==
  \A n \in Names : Rests(n) => Exact(stored(n).status, stored(n).perms)

ExactInv == NotReadyYet /\ JobExact /\ SettledExact

\* No other policy for the worker's AccessKey has a Bucket with the ID the
\* worker sets permissions on.
NoSharedPair ==
  job.pc \in Path =>
    \A n \in Names \ {job.name} :
      KeyOf[n] = KeyOf[job.name] =>
        JobBucket = NoID \/ BucketOfPolicy(n).id # JobBucket

\* A step of the worker goes on with its policy or is the last one for it, and
\* leaves the other policies alone.
LEMMA StepName ==
  ASSUME Inv, Step
  PROVE  /\ job.name \in Names /\ job.pc # "idle" /\ queue \subseteq queue'
         /\ \/ job'.pc # "idle" /\ job'.name = job.name
            \/ /\ job'.pc = "idle"
               /\ Get \/ Revoke \/ RemoveFinalizer \/ UpdateMeta \/ PatchStatus
         /\ \A m \in Names \ {job.name} : stored(m)' = stored(m) /\ fresh(m)' = fresh(m)
<1>1. job.pc # "idle" /\ job.name \in Names /\ TypeInv
  BY DEF Step, Get, Revoke, RemoveFinalizer, UpdateMeta, CheckBucket, RevokeBucket,
         CheckAccessKey, RevokeKey, DenyOthers, Allow, PatchStatus, At, Inv,
         TypeInv, JobOK
<1>2. CASE Get
  <2>1. UNCHANGED log /\ queue \subseteq queue'
    BY <1>2 DEF Get, Return
  <2>2. (job'.pc # "idle" /\ job'.name = job.name) \/ job'.pc = "idle"
    <3>1. job \in Job
      BY <1>1 DEF TypeInv, JobOK
    <3> DEFINE read == [job EXCEPT !.obj = cached(job.name),
                                   !.orig = cached(job.name).status,
                                   !.current = fresh(job.name)]
    <3>2. job' = Idle \/ \E p \in Path : job' = [read EXCEPT !.pc = p]
      BY <1>2 DEF Get, Return, Path, ApplyPath
    <3>3. Idle.pc = "idle" /\ "idle" \notin Path
      BY DEF Idle, Path, ApplyPath
    <3>4. ASSUME NEW p \in Path, job' = [read EXCEPT !.pc = p]
          PROVE  job'.pc = p /\ job'.name = job.name
      BY <3>1, <3>4 DEF Job
    <3> QED
      BY <3>2, <3>3, <3>4
  <2> QED
    BY <1>1, <1>2, <2>1, <2>2 DEF stored, fresh
<1>3. CASE Revoke
  <2>1. UNCHANGED log /\ queue \subseteq queue'
    BY <1>3 DEF Revoke, Deny, Return
  <2>2. (job'.pc # "idle" /\ job'.name = job.name) \/ job'.pc = "idle"
    BY <1>1, <1>3 DEF Revoke, Deny, Return, Goto, Idle, TypeInv, JobOK, Job
  <2> QED
    BY <1>1, <1>3, <2>1, <2>2 DEF stored, fresh
<1>4. CASE RemoveFinalizer \/ UpdateMeta \/ PatchStatus
  <2>1. PICK v : Finishes(v)
    BY <1>4, RemoveFinalizerFinishes, UpdateMetaFinishes, PatchFinishes
  <2>2. /\ job' = Idle /\ queue \subseteq queue'
        /\ \A m \in Names \ {job.name} : stored(m)' = stored(m) /\ fresh(m)' = fresh(m)
    BY <2>1, FinishesFacts
  <2> QED
    BY <1>1, <1>4, <2>2 DEF Idle
<1>5. CASE \/ CheckBucket \/ CheckAccessKey \/ RevokeBucket \/ RevokeKey
           \/ DenyOthers \/ Allow
  <2>1. Goes
    BY <1>1, <1>5, CheckBucketFacts, CheckAccessKeyFacts, RevokeBucketFacts,
       RevokeKeyFacts, DenyOthersFacts, AllowFacts
  <2>2. UNCHANGED <<log, queue>>
    BY <1>5 DEF CheckBucket, CheckAccessKey, RevokeBucket, RevokeKey, DenyOthers, Allow
  <2> QED
    BY <1>1, <2>1, <2>2 DEF Goes, Path, ApplyPath, stored, fresh
<1> QED
  BY <1>2, <1>3, <1>4, <1>5 DEF Step

\* It changes the permissions of the worker's pair only.
LEMMA DeniesElsewhere ==
  ASSUME NEW P, Denies(P), NEW c, NEW d, c # JobKey \/ d # JobBucket
  PROVE  Granted(c, d)' = Granted(c, d)
BY DeniesFacts DEF Granted

LEMMA StepElsewhere ==
  ASSUME Inv, Step, NEW c, NEW d, grants' # grants,
         c # JobKey \/ d # JobBucket \/ d = NoID
  PROVE  job.pc \in Path /\ Granted(c, d)' = Granted(c, d)
<1>1. TypeInv /\ GrantsLive /\ GrantsLive' /\ grants \subseteq Grant
  BY StepKeeps DEF Inv, TypeInv, EnvOK
<1>2. d = NoID => Granted(c, d)' = {} /\ Granted(c, d) = {}
  BY <1>1, ReferencesAssumption DEF GrantsLive, Granted, ReferencesAssumption
<1>3. CASE Revoke \/ RevokeBucket \/ RevokeKey \/ DenyOthers
  <2>1. job.pc \in Path
    BY <1>3 DEF Revoke, RevokeBucket, RevokeKey, DenyOthers, At, Path, ApplyPath
  <2>2. \E P : Denies(P)
    BY <1>3 DEF Revoke, RevokeBucket, RevokeKey, DenyOthers, Deny, Denies, JobKey, JobBucket
  <2> QED
    BY <1>2, <2>1, <2>2, DeniesElsewhere
<1>4. CASE Allow
  <2>1. /\ job.pc \in Path /\ grants' = With(JobKey, JobBucket, job.obj.perms)
        /\ job.obj \in Object
    BY <1>1, <1>4, AllowFacts DEF Path, ApplyPath, TypeInv, JobOK
  <2>2. JobKey \in Nat /\ JobBucket \in Nat /\ job.obj.perms \in SUBSET Perms
    BY <2>1 DEF Object, Status, JobKey, JobBucket
  <2>3. c # JobKey \/ d # JobBucket => Granted(c, d)' = Granted(c, d)
    BY <1>1, <2>1, <2>2, WithFacts
  <2> QED
    BY <1>2, <2>1, <2>3
<1>5. CASE Get \/ RemoveFinalizer \/ UpdateMeta \/ CheckBucket \/ CheckAccessKey \/ PatchStatus
  BY <1>5 DEF Get, RemoveFinalizer, UpdateMeta, CheckBucket, CheckAccessKey,
              PatchStatus, garage
<1> QED
  BY <1>3, <1>4, <1>5 DEF Step
\* What the checks find missing is in the status when the patch is made, and
\* SetPermissions says "assigned" of exactly the permissions of the spec.
LEMMA ExactJob ==
  ASSUME Inv, NotReadyYet, Step
  PROVE  NotReadyYet' /\ JobExact'
<1>1. TypeInv /\ UNCHANGED liveKeys
  BY StepDeps DEF Inv
<1>2. CASE Get \/ Revoke \/ RemoveFinalizer \/ UpdateMeta \/ PatchStatus
  <2>1. CASE Get
    <3>1. job'.pc \in {"idle", "Revoke", "RemoveFinalizer", "UpdateMeta", "CheckBucket"}
      <4>1. job \in Job /\ Idle.pc = "idle"
        BY <1>1 DEF TypeInv, JobOK, Idle
      <4> DEFINE read == [job EXCEPT !.obj = cached(job.name),
                                     !.orig = cached(job.name).status,
                                     !.current = fresh(job.name)]
      <4>2. \/ job' = Idle
            \/ \E p \in {"Revoke", "RemoveFinalizer", "UpdateMeta", "CheckBucket"} :
                 job' = [read EXCEPT !.pc = p]
        BY <2>1 DEF Get, Return
      <4>3. ASSUME NEW p, job' = [read EXCEPT !.pc = p]
            PROVE  job'.pc = p
        BY <4>1, <4>3 DEF Job
      <4> QED
        BY <4>1, <4>2, <4>3
    <3> QED
      BY <3>1 DEF NotReadyYet, JobExact
  <2>2. CASE Revoke
    <3>1. job'.pc \in {"idle", "RemoveFinalizer"}
      BY <1>1, <2>2 DEF Revoke, Deny, Return, Goto, Idle, TypeInv, JobOK, Job
    <3> QED
      BY <3>1 DEF NotReadyYet, JobExact
  <2>3. CASE RemoveFinalizer \/ UpdateMeta \/ PatchStatus
    <3>1. PICK v : Finishes(v)
      BY <2>3, RemoveFinalizerFinishes, UpdateMetaFinishes, PatchFinishes
    <3>2. job' = Idle
      BY <3>1, FinishesFacts
    <3> QED
      BY <3>2 DEF Idle, NotReadyYet, JobExact
  <2> QED
    BY <1>2, <2>1, <2>2, <2>3
<1>3. CASE CheckBucket
  BY <1>1, <1>3, CheckBucketFacts DEF NotReadyYet, JobExact
<1>4. CASE CheckAccessKey
  <2>1. job'.pc = "PatchStatus" => ~Ready(job'.obj.status)
    BY <1>1, <1>4, CheckAccessKeyFacts DEF NotReadyYet, Ready
  <2>2. JobExact'
    BY <2>1 DEF JobExact, Exact, Ready
  <2> QED
    BY <1>1, <1>4, <2>2, CheckAccessKeyFacts DEF NotReadyYet
<1>5. CASE RevokeBucket
  <2>1. /\ job'.pc = "CheckAccessKey" /\ job.obj.status.bucket = "False"
        /\ job.obj.status \in Status
        /\ job'.obj.status = [job.obj.status EXCEPT !.bucketID = NoID]
    BY <1>1, <1>5, RevokeBucketFacts DEF NotReadyYet, TypeInv, JobOK, Path, ApplyPath, Object
  <2> QED
    BY <2>1 DEF NotReadyYet, JobExact, Status
<1>6. CASE RevokeKey
  <2>1. /\ job'.pc = "PatchStatus" /\ job.obj.status.key = "False"
        /\ job.obj.status \in Status
        /\ job'.obj.status = [job.obj.status EXCEPT !.keyID = NoID]
    BY <1>1, <1>6, RevokeKeyFacts DEF NotReadyYet, TypeInv, JobOK, Path, ApplyPath, Object
  <2>2. job'.obj.status.key = "False"
    BY <2>1 DEF Status
  <2> QED
    BY <2>1, <2>2 DEF NotReadyYet, JobExact, Exact, Ready
<1>7. CASE DenyOthers \/ Allow
  <2>1. /\ Goes /\ job.obj.status \in Status
        /\ job'.pc \in {"Allow", "PatchStatus"}
        /\ job'.pc = "PatchStatus" =>
             \/ /\ job'.obj.status = [job.obj.status EXCEPT !.assigned = "False"]
             \/ Granted(JobKey, JobBucket)' = job.obj.perms
    BY <1>1, <1>7, DenyOthersFacts, AllowFacts DEF TypeInv, JobOK, Path, ApplyPath, Object
  <2>2. job'.obj.perms = job.obj.perms
    BY <2>1 DEF Goes, SameSpec
  <2>3. ASSUME job'.pc = "PatchStatus"
        PROVE  Exact(job.obj.status, job.obj.perms)'
    <3>1. CASE job'.obj.status = [job.obj.status EXCEPT !.assigned = "False"]
      <4>1. job'.obj.status.assigned = "False"
        BY <2>1, <3>1 DEF Status
      <4> QED
        BY <4>1 DEF Exact, Ready
    <3>2. CASE Granted(JobKey, JobBucket)' = job.obj.perms
      BY <2>2, <3>2 DEF Exact, JobKey, JobBucket
    <3> QED
      BY <2>1, <2>3, <3>1, <3>2
  <2> QED
    BY <2>1, <2>3 DEF NotReadyYet, JobExact
<1> QED
  BY <1>2, <1>3, <1>4, <1>5, <1>6, <1>7 DEF Step

\* The worker's pair is not the one of another ready policy that rests.
PairsApart ==
  job.pc \in Path =>
    \A n \in Names \ {job.name} :
      Rests(n) /\ Ready(stored(n).status) /\ stored(n).status.keyID \in liveKeys =>
        \/ stored(n).status.keyID # JobKey
        \/ stored(n).status.bucketID # JobBucket
        \/ stored(n).status.bucketID = NoID

\* A recorded key ID is one that Garage has handed out.
HandedOut ==
  /\ \A n \in Names : \A i \in Index(n) :
       log[n][i] \in Object => log[n][i].status.keyID < nextKey
  /\ job.pc \in Path => JobKey < nextKey

LEMMA OwnHandedOut == OwnInv => HandedOut
BY DEF OwnInv, RecordsOwn, Own, HandedOut

\* The pair of a ready policy that rests is the worker's only if the two
\* policies share it.
LEMMA OtherPair ==
  ASSUME Inv, EventInv, OwnInv, NoSharedPair, job.pc \in Path,
         NEW n \in Names, Rests(n), n # job.name,
         Ready(stored(n).status), stored(n).status.keyID \in liveKeys
  PROVE  \/ stored(n).status.keyID # JobKey
         \/ stored(n).status.bucketID # JobBucket
         \/ stored(n).status.bucketID = NoID
<1>1. Settled(n) /\ DepsWellFormed
  BY DEF EventInv
<1>2. /\ KeyOf[n] \in KeyNames /\ BucketOf[n] \in BucketNames
      /\ job.name \in Names
  BY ReferencesAssumption DEF ReferencesAssumption, Inv, TypeInv, JobOK, Path, ApplyPath
<1>3. /\ KeyOfPolicy(n).exists /\ BucketOfPolicy(n).exists
  BY <1>1, <1>2 DEF Settled, AgreesWithKey, AgreesWithBucket, Ready, DepsWellFormed,
     WellFormed, KeyOfPolicy, BucketOfPolicy
<1>4. /\ stored(n).status.keyID = keyCR[KeyOf[n]].id
      /\ stored(n).status.bucketID = BucketOfPolicy(n).id
  BY <1>1, <1>3 DEF Settled, AgreesWithKey, AgreesWithBucket, KeyOfPolicy
<1>5. stored(n).status.keyID # NoID
  BY DEF Inv, GrantsLive
<1>6. stored(n).status.keyID = JobKey => KeyOf[n] = KeyOf[job.name]
  BY <1>2, <1>4, <1>5 DEF OwnInv, RecordsOwn, Own
<1> QED
  BY <1>4, <1>6 DEF NoSharedPair

LEMMA OthersApart == Inv /\ EventInv /\ OwnInv /\ NoSharedPair => PairsApart
BY OtherPair DEF PairsApart

LEMMA ExactStep ==
  ASSUME Inv, EventInv, PairsApart, ExactInv, Step
  PROVE  ExactInv'
<1>1. /\ job.name \in Names /\ job.pc # "idle" /\ queue \subseteq queue'
      /\ \/ job'.pc # "idle" /\ job'.name = job.name
         \/ /\ job'.pc = "idle"
            /\ Get \/ Revoke \/ RemoveFinalizer \/ UpdateMeta \/ PatchStatus
      /\ \A m \in Names \ {job.name} : stored(m)' = stored(m) /\ fresh(m)' = fresh(m)
  BY StepName
<1>2. UNCHANGED liveKeys
  BY StepDeps
<1>3. ASSUME NEW n \in Names, Rests(n)', n # job.name
      PROVE  Exact(stored(n).status, stored(n).perms)'
  <2>1. Rests(n) /\ stored(n)' = stored(n)
    BY <1>1, <1>3 DEF Rests, Stays, Quiet
  <2>2. Exact(stored(n).status, stored(n).perms)
    BY <2>1 DEF ExactInv, SettledExact
  <2>3. ASSUME Ready(stored(n).status), stored(n).status.keyID \in liveKeys
        PROVE  \A c, d : c = stored(n).status.keyID /\ d = stored(n).status.bucketID =>
                 Granted(c, d)' = Granted(c, d)
    <3>1. CASE grants' = grants
      BY <3>1 DEF Granted
    <3>2. CASE grants' # grants
      <4>1. job.pc \in Path
        BY <3>2 DEF Step, Get, Revoke, RemoveFinalizer, UpdateMeta, CheckBucket,
           RevokeBucket, CheckAccessKey, RevokeKey, DenyOthers, Allow, PatchStatus,
           At, Path, ApplyPath, garage
      <4>2. \/ stored(n).status.keyID # JobKey
            \/ stored(n).status.bucketID # JobBucket
            \/ stored(n).status.bucketID = NoID
        BY <1>3, <2>1, <2>3, <4>1 DEF PairsApart
      <4> QED
        BY <3>2, <4>2, StepElsewhere
    <3> QED
      BY <3>1, <3>2
  <2> QED
    BY <1>2, <2>1, <2>2, <2>3 DEF Exact, Granted
<1>4. ASSUME NEW n \in Names, Rests(n)', n = job.name
      PROVE  Exact(stored(n).status, stored(n).perms)'
  <2>1. job'.pc = "idle" /\ Stays(n)'
    BY <1>1, <1>4 DEF Rests
  <2>2. PatchStatus
    BY <1>1, <1>4, <2>1, OnlyPatchRests
  <2>3. job.pc = "PatchStatus" /\ UNCHANGED grants
    BY <2>2 DEF PatchStatus, At, garage
  <2>4. /\ stored(n)' = stored(n) /\ stored(n).status = NewestStatus
        /\ SameSpec(stored(n), job.obj)
    BY <1>4, <2>1, <2>2, PatchQuiet DEF Stays
  <2>5. /\ NewestStatus.keyID = JobKey /\ NewestStatus.bucketID = JobBucket
        /\ NewestStatus.key = job.obj.status.key
        /\ NewestStatus.bucket = job.obj.status.bucket
        /\ NewestStatus.assigned = job.obj.status.assigned
    BY <2>3, PatchFacts
  <2>6. Exact(job.obj.status, job.obj.perms)
    BY <2>3 DEF ExactInv, JobExact
  <2> QED
    BY <1>2, <2>3, <2>4, <2>5, <2>6
       DEF Exact, Ready, Granted, JobKey, JobBucket, SameSpec
<1>5. NotReadyYet' /\ JobExact'
  BY ExactJob DEF ExactInv
<1> QED
  BY <1>3, <1>4, <1>5 DEF ExactInv, SettledExact
\* What the world does to the permissions of a key handed out before: it has
\* the same ones, or it leaves Garage.
LEMMA ExactWorld ==
  ASSUME Inv, World, NEW st, NEW perms, st.keyID < nextKey, Exact(st, perms)
  PROVE  Exact(st, perms)'
<1>1. EnvOK /\ nextKey \in Nat
  BY DEF Inv, TypeInv, EnvOK
<1>2. CASE grants' = grants /\ liveKeys' \subseteq liveKeys \cup {nextKey}
  <2>1. st.keyID # nextKey
    BY <1>1
  <2> QED
    BY <1>2, <2>1 DEF Exact, Granted
<1>3. CASE \E k \in KeyNames : KeyLeavesGarage(k)
  <2>1. PICK k \in KeyNames : /\ liveKeys' = liveKeys \ {keyCR[k].id}
                              /\ grants' = {g \in grants : g.key # keyCR[k].id}
    BY <1>1, <1>3, KeyLeavesFacts
  <2> QED
    BY <2>1 DEF Exact, Granted
<1>4. CASE ~ \E k \in KeyNames : KeyLeavesGarage(k)
  <2>1. \A n \in Names : User(n) \/ Dequeue(n) \/ Informer(n) =>
          grants' = grants /\ liveKeys' = liveKeys
    BY DEF User, UserCreates, UserEdits, UserUnlabels, UserDeletes, UserWrites,
           Dequeue, Informer, garage
  <2>2. \A k \in KeyNames : KeyWatched(k) =>
          grants' = grants /\ liveKeys' \subseteq liveKeys \cup {nextKey}
    BY <1>1, KeyFacts DEF KeyChange
  <2>3. \A b \in BucketNames : BucketWatched(b) => grants' = grants /\ liveKeys' = liveKeys
    BY <1>1, BucketFacts DEF BucketChange, BucketEvent, garage
  <2>4. Crash => grants' = grants /\ liveKeys' = liveKeys
    BY DEF Crash, garage
  <2> QED
    BY <1>2, <1>4, <2>1, <2>2, <2>3, <2>4 DEF World
<1> QED
  BY <1>3, <1>4

\* The world lets no policy rest that did not, and its own changes of a policy
\* are events.
LEMMA WorldRests ==
  ASSUME Inv, World, NEW n \in Names, Rests(n)'
  PROVE  Rests(n) /\ stored(n)' = stored(n)
<1>1. /\ log \in Logs(Version) /\ EnvOK
  BY DEF Inv, TypeInv
<1>2. ASSUME NEW m \in Names, User(m)
      PROVE  Rests(n) /\ stored(n)' = stored(n)
  <2>1. PICK v \in Version : Written(m, v)
    BY <1>1, <1>2, UserFacts
  <2>2. Store(m, v) /\ v # stored(m) /\ UNCHANGED queue
    BY <2>1 DEF Written, UserWrites
  <2>3. job'.pc = job.pc /\ job'.name = job.name
    <3>1. job \in Job /\ job' = [job EXCEPT !.current = @ /\ m # job.name]
      BY <2>1 DEF Written, UserWrites, Inv, TypeInv, JobOK
    <3> QED
      BY <3>1 DEF Job
  <2>4. /\ \A x \in Names : /\ stored(x)' = IF x = m THEN v ELSE stored(x)
                            /\ fresh(x)' => fresh(x)
        /\ ~fresh(m)'
    BY <1>1, <2>2, StoreEffect
  <2> QED
    BY <2>2, <2>3, <2>4 DEF Rests, Stays, Quiet
<1>3. ASSUME NEW m \in Names, Dequeue(m)
      PROVE  Rests(n) /\ stored(n)' = stored(n)
  <2>1. /\ job.pc = "idle" /\ queue' = queue \ {m} /\ UNCHANGED log
        /\ job'.pc = "Get" /\ job'.name = m
    BY <1>3 DEF Dequeue, At, Idle
  <2> QED
    BY <2>1 DEF Rests, Stays, Quiet, stored, fresh
<1>4. ASSUME NEW m \in Names, Informer(m)
      PROVE  Rests(n) /\ stored(n)' = stored(n)
  <2>1. Deliver(m) /\ UNCHANGED job
    BY <1>4 DEF Informer
  <2>2. /\ queue' = queue \cup {m}
        /\ \A x \in Names : stored(x)' = stored(x)
        /\ \A x \in Names \ {m} : fresh(x)' = fresh(x)
    BY <1>1, <2>1, DeliverEffect
  <2> QED
    BY <2>1, <2>2 DEF Rests, Stays, Quiet
<1>5. ASSUME UNCHANGED <<log, job>>, queue \subseteq queue'
      PROVE  Rests(n) /\ stored(n)' = stored(n)
  BY <1>5 DEF Rests, Stays, Quiet, stored, fresh
<1>6. ASSUME NEW k \in KeyNames, KeyWatched(k) \/ KeyLeavesGarage(k)
      PROVE  UNCHANGED <<log, job>> /\ queue \subseteq queue'
  BY <1>1, <1>6, KeyFacts, KeyLeavesFacts DEF KeyChange, KeyEvent
<1>7. ASSUME NEW b \in BucketNames, BucketWatched(b)
      PROVE  UNCHANGED <<log, job>> /\ queue \subseteq queue'
  BY <1>1, <1>7, BucketFacts DEF BucketChange, BucketEvent
<1>8. ~Crash
  <2>1. ASSUME Crash
        PROVE  n \in queue' \/ stored(n)' = NoObject
    <3>1. /\ queue' = {m \in Names : stored(m) # NoObject}
          /\ \A m \in Names : stored(m)' = stored(m)
      BY <1>1, <2>1, KubeRelist DEF Crash
    <3> QED
      BY <3>1
  <2> QED
    BY <2>1 DEF Rests, Stays, Quiet
<1> QED
  BY <1>2, <1>3, <1>4, <1>5, <1>6, <1>7, <1>8 DEF World

LEMMA ExactNext ==
  Inv /\ EventInv /\ PairsApart /\ HandedOut /\ ExactInv /\ [Next]_vars => ExactInv'
<1> SUFFICES ASSUME Inv, EventInv, PairsApart, HandedOut, ExactInv, [Next]_vars
             PROVE  ExactInv'
  OBVIOUS
<1>1. CASE Step
  BY <1>1, ExactStep
<1>2. CASE World
  <2>1. ASSUME NEW n \in Names, Rests(n)'
        PROVE  Exact(stored(n).status, stored(n).perms)'
    <3>1. Rests(n) /\ stored(n)' = stored(n)
      BY <1>2, <2>1, WorldRests
    <3>2. Exact(stored(n).status, stored(n).perms)
      BY <3>1 DEF ExactInv, SettledExact
    <3>3. stored(n).status.keyID < nextKey
      <4>1. log \in Logs(Version) /\ stored(n) # NoObject
        BY <3>1 DEF Inv, TypeInv, Rests, Stays
      <4>2. Len(log[n]) \in Index(n) /\ stored(n) = log[n][Len(log[n])] /\ stored(n) \in Object
        BY <4>1, KubeLog DEF stored, Version
      <4> QED
        BY <4>2 DEF HandedOut
    <3>4. \A st, perms : st = stored(n).status /\ perms = stored(n).perms =>
            Exact(st, perms)'
      BY <1>2, <3>2, <3>3, ExactWorld
    <3> QED
      BY <3>1, <3>4 DEF Exact, Granted, Ready
  <2>2. CASE job'.pc = job.pc /\ job'.obj = job.obj /\ job'.failed = job.failed
    <3>1. NotReadyYet'
      BY <2>2 DEF ExactInv, NotReadyYet
    <3>2. JobExact'
      <4>1. CASE job.pc = "PatchStatus"
        <5>1. JobKey < nextKey /\ Exact(job.obj.status, job.obj.perms)
          BY <4>1 DEF HandedOut, Path, ApplyPath, ExactInv, JobExact
        <5>2. \A st, perms : st = job.obj.status /\ perms = job.obj.perms =>
                Exact(st, perms)'
          BY <1>2, <5>1, ExactWorld DEF JobKey
        <5> QED
          BY <2>2, <5>2 DEF JobExact, Exact, Granted, Ready
      <4>2. CASE job.pc # "PatchStatus"
        BY <2>2, <4>2 DEF JobExact
      <4> QED
        BY <4>1, <4>2
    <3> QED
      BY <2>1, <3>1, <3>2 DEF ExactInv, SettledExact
  <2>3. CASE job'.pc \in {"idle", "Get"}
    BY <2>1, <2>3 DEF ExactInv, NotReadyYet, JobExact, SettledExact
  <2>4. \/ job'.pc = job.pc /\ job'.obj = job.obj /\ job'.failed = job.failed
        \/ job'.pc \in {"idle", "Get"}
    <3>1. EnvOK /\ log \in Logs(Version) /\ job \in Job
      BY DEF Inv, TypeInv, JobOK
    <3>2. \A n \in Names : User(n) => \E m \in Names :
            job' = [job EXCEPT !.current = @ /\ m # job.name]
      BY DEF User, UserCreates, UserEdits, UserUnlabels, UserDeletes, UserWrites
    <3>3. ASSUME NEW m \in Names, job' = [job EXCEPT !.current = @ /\ m # job.name]
          PROVE  job'.pc = job.pc /\ job'.obj = job.obj /\ job'.failed = job.failed
      BY <3>1, <3>3 DEF Job
    <3>4. \A n \in Names : Dequeue(n) => job'.pc = "Get"
      BY DEF Dequeue, Idle
    <3>5. \A n \in Names : Informer(n) => job' = job
      BY DEF Informer
    <3>6. \A k \in KeyNames : KeyWatched(k) \/ KeyLeavesGarage(k) => job' = job
      BY <3>1, KeyFacts, KeyLeavesFacts DEF KeyChange, KeyEvent
    <3>7. \A b \in BucketNames : BucketWatched(b) => job' = job
      BY <3>1, BucketFacts DEF BucketChange, BucketEvent
    <3>8. Crash => job'.pc = "idle"
      BY DEF Crash, Idle
    <3> QED
      BY <1>2, <3>2, <3>3, <3>4, <3>5, <3>6, <3>7, <3>8 DEF World
  <2> QED
    BY <2>2, <2>3, <2>4
<1>3. CASE UNCHANGED vars
  <2>1. UNCHANGED <<log, queue, job, grants, liveKeys>>
    BY <1>3 DEF vars, garage
  <2> QED
    BY <2>1 DEF ExactInv, NotReadyYet, JobExact, SettledExact, Exact, Granted,
       Ready, Rests, Stays, Quiet, stored, fresh
<1> QED
  BY <1>1, <1>2, <1>3, NextParts

LEMMA ExactInit == Init => ExactInv
<1> SUFFICES ASSUME Init PROVE ExactInv
  OBVIOUS
<1>1. job.pc = "idle"
  BY DEF Init, Idle
<1>2. NoObject \in Version /\ KubeInit
  BY DEF Init, Version
<1>3. \A n \in Names : stored(n) = NoObject
  BY <1>2, KubeStart
<1> QED
  BY <1>1, <1>3 DEF ExactInv, NotReadyYet, JobExact, SettledExact, Rests, Stays

\* A policy that says Ready and is not pending has the ready dependencies it
\* says it has, and exactly its permissions.
LEMMA ReadyFollows == Inv /\ EventInv /\ ExactInv => ReadyIsTrue
<1> SUFFICES ASSUME Inv, EventInv, ExactInv, NEW n \in Names,
                    ClaimsReady(stored(n)), ~Pending(n)
             PROVE  LET o == stored(n)
                        k == keyCR[KeyOf[n]]
                        b == bucketCR[BucketOf[n]]
                    IN /\ k.ready /\ k.id = o.status.keyID
                       /\ b.ready /\ b.id = o.status.bucketID
                       /\ k.id \in liveKeys => Granted(k.id, b.id) = o.perms
  BY DEF ReadyIsTrue
<1>1. Rests(n) /\ Ready(stored(n).status)
  BY DEF ClaimsReady, Pending, Rests, Stays, Quiet
<1>2. Settled(n) /\ Exact(stored(n).status, stored(n).perms) /\ DepsWellFormed
  BY <1>1 DEF EventInv, ExactInv, SettledExact
<1>3. KeyOf[n] \in KeyNames /\ BucketOf[n] \in BucketNames
  BY ReferencesAssumption DEF ReferencesAssumption
<1>4. /\ keyCR[KeyOf[n]].ready /\ keyCR[KeyOf[n]].exists
      /\ bucketCR[BucketOf[n]].ready /\ bucketCR[BucketOf[n]].exists
  BY <1>1, <1>2, <1>3 DEF Settled, AgreesWithKey, AgreesWithBucket, Ready,
     KeyOfPolicy, BucketOfPolicy, DepsWellFormed, WellFormed
<1>5. /\ keyCR[KeyOf[n]].id = stored(n).status.keyID
      /\ bucketCR[BucketOf[n]].id = stored(n).status.bucketID
  BY <1>2, <1>4 DEF Settled, AgreesWithKey, AgreesWithBucket, KeyOfPolicy, BucketOfPolicy
<1> QED
  BY <1>1, <1>2, <1>4, <1>5 DEF Exact

\* Ready tells the truth when nothing is pending, unless two policies for one
\* AccessKey set permissions on one bucket of Garage: each of them denies what
\* the other allowed, and is told nothing of it.
THEOREM ReadyTellsTheTruth == Spec /\ []NoSharedPair => []ReadyIsTrue
<1>1. Inv /\ EventInv /\ OwnInv /\ ExactInv /\ NoSharedPair /\ [Next]_vars
        => (OwnInv /\ ExactInv)'
  BY OwnNext, OwnHandedOut, OthersApart, ExactNext
<1> QED
  BY <1>1, Invariant, EventInvariant, OwnInit, ExactInit, ReadyFollows, PTL DEF Spec

\* When every policy has an AccessKey of its own, nothing else is assumed.
THEOREM ReadyOfOwnKeys ==
  ASSUME \A m, n \in Names : KeyOf[m] = KeyOf[n] => m = n
  PROVE  Spec => []ReadyIsTrue
<1>1. Inv => NoSharedPair
  <2>1. Inv /\ job.pc \in Path => job.name \in Names
    BY DEF Inv, TypeInv, JobOK, Path, ApplyPath
  <2> QED
    BY <2>1 DEF NoSharedPair
<1> QED
  BY <1>1, Invariant, ReadyTellsTheTruth, PTL
=============================================================================
