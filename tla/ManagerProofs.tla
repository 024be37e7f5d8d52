---------------------------- MODULE ManagerProofs ----------------------------
(***************************************************************************)
(* Theorems about the two controllers of the manager together, for any      *)
(* number of AccessKeys, Secrets, policies, Buckets and restarts.  What is  *)
(* proved of each controller alone is used here: the AccessKey controller   *)
(* in the manager implements the one of AccessKeyController, and the        *)
(* lemmas about the steps of an AccessPolicy hold while its AccessKey is    *)
(* what that controller shows in the cache.                                 *)
(***************************************************************************)
EXTENDS Manager, Integers, TLAPS

\* The two controllers with what is proved about them.
AKP == INSTANCE AccessKeySecretProofs
        WITH log <- akLog, queue <- akQueue, job <- akJob,
             Names <- KeyNames, Tampering <- {}, MaxTamper <- 0,
             MaxFaults <- MaxRestarts, faults <- restarts

APP == INSTANCE AccessPolicyProofs
        WITH log <- apLog, queue <- apQueue, job <- apJob,
             Names <- PolicyNames, Changes <- {}, MaxChanges <- 0,
             changes <- 0, MaxFaults <- MaxRestarts, faults <- restarts,
             keyCR <- [k \in KeyNames |-> KeyView(k)],
             liveKeys <- {k.id : k \in keys}

-----------------------------------------------------------------------------
(* The controllers in the manager are the controllers alone.                *)

LEMMA Assumptions ==
  /\ AKP!ConstantsAssumption /\ AKP!NoObjectAssumption
  /\ APP!ReferencesAssumption /\ APP!NoObjectAssumption
BY ConstantsAssumption, NoObjectAssumption
   DEF ConstantsAssumption, NoObjectAssumption, AKP!ConstantsAssumption,
       AKP!NoObjectAssumption, APP!ReferencesAssumption,
       APP!NoObjectAssumption, AKP!NoName, APP!NoID,
       AK!Object, AKP!Object, AP!Object, APP!Object, AK!Status, AKP!Status,
       AP!Status, APP!Status, AP!Cond, APP!Cond, AK!NoName

LEMMA KeyLogs ==
  /\ \A n : /\ AK!stored(n) = AKP!stored(n) /\ AK!cached(n) = AKP!cached(n)
            /\ AK!fresh(n) = AKP!fresh(n)
  /\ \A n : /\ AP!stored(n) = APP!stored(n) /\ AP!cached(n) = APP!cached(n)
            /\ AP!fresh(n) = APP!fresh(n)
BY DEF AK!stored, AKP!stored, AK!cached, AKP!cached, AK!fresh, AKP!fresh,
       AP!stored, APP!stored, AP!cached, APP!cached, AP!fresh, APP!fresh

LEMMA KeyInit == AK!Init => AKP!Init
BY DEF AK!Init, AKP!Init, AK!KubeInit, AKP!KubeInit, AK!Idle, AKP!Idle,
       AK!NoSecret, AKP!NoSecret, AK!NoID, AKP!NoID, AK!NoName, AKP!NoName,
       AK!Foreign, AKP!Foreign

LEMMA KeyStep == AK!Step => AKP!Step
BY DEF AK!Step, AK!Get, AK!AddFinalizer, AK!GetKey, AK!LookupKey, AK!CreateKey,
       AK!GetSecret, AK!ReadSecret, AK!WriteSecret, AK!DeleteOldSecret,
       AK!UpdateStatus, AK!LookupForDelete, AK!DeleteKey, AK!RemoveFinalizer,
       AK!At, AK!Goto, AK!Fault, AK!NoFault, AK!Return, AK!Ready,
       AK!UpdateAccessKeyCondition, AK!UpToDate, AK!BeginReconcile,
       AK!KeyFailed, AK!KeyFound, AK!SecretNotReady, AK!SecretDone,
       AK!SecretWritten, AK!ControlledBy, AK!KeysOf, AK!OptimisticLock,
       AK!cached, AK!stored, AK!fresh, AK!Store, AK!garage, AK!env, AK!Idle,
       AK!NoID, AK!NoName, AK!NoSecret, AK!Foreign,
       AKP!Step, AKP!Get, AKP!AddFinalizer, AKP!GetKey, AKP!LookupKey,
       AKP!CreateKey, AKP!GetSecret, AKP!ReadSecret, AKP!WriteSecret,
       AKP!DeleteOldSecret, AKP!UpdateStatus, AKP!LookupForDelete,
       AKP!DeleteKey, AKP!RemoveFinalizer,
       AKP!At, AKP!Goto, AKP!Fault, AKP!NoFault, AKP!Return, AKP!Ready,
       AKP!UpdateAccessKeyCondition, AKP!UpToDate, AKP!BeginReconcile,
       AKP!KeyFailed, AKP!KeyFound, AKP!SecretNotReady, AKP!SecretDone,
       AKP!SecretWritten, AKP!ControlledBy, AKP!KeysOf, AKP!OptimisticLock,
       AKP!cached, AKP!stored, AKP!fresh, AKP!Store, AKP!garage, AKP!env,
       AKP!Idle, AKP!NoID, AKP!NoName, AKP!NoSecret, AKP!Foreign

LEMMA KeyWorld ==
  /\ \A n : AK!Dequeue(n) => AKP!Dequeue(n)
  /\ \A n : AK!Informer(n) => AKP!Informer(n)
  /\ AK!User => AKP!User
  /\ \A s : AK!CollectGarbage(s) => AKP!CollectGarbage(s)
  /\ AK!Relist <=> AKP!Relist
  /\ AK!Idle = AKP!Idle
BY DEF AK!Dequeue, AK!Informer, AK!User, AK!CollectGarbage, AK!Relist,
       AKP!Dequeue, AKP!Informer, AKP!User, AKP!CollectGarbage, AKP!Relist,
       AK!UserCreates, AK!UserEdits, AK!UserDeletes, AK!ObjectWritten,
       AK!SecretChanged, AK!Store, AK!Deliver, AK!stored, AK!fresh, AK!At,
       AK!Idle, AK!NewStatus, AK!garage, AK!env, AK!NoID, AK!NoName,
       AK!NoSecret, AK!Foreign,
       AKP!UserCreates, AKP!UserEdits, AKP!UserDeletes, AKP!ObjectWritten,
       AKP!SecretChanged, AKP!Store, AKP!Deliver, AKP!stored, AKP!fresh, AKP!At,
       AKP!Idle, AKP!NewStatus, AKP!garage, AKP!env, AKP!NoID, AKP!NoName,
       AKP!NoSecret, AKP!Foreign

LEMMA PolicyStep == AP!Step => APP!Step
BY DEF AP!Step, AP!Get, AP!Revoke, AP!RemoveFinalizer, AP!UpdateMeta,
       AP!CheckBucket, AP!RevokeBucket, AP!CheckAccessKey, AP!RevokeKey,
       AP!DenyOthers, AP!Allow, AP!PatchStatus, AP!At, AP!Goto, AP!Fault,
       AP!NoFault, AP!Return, AP!Ready, AP!UpdateAccessPolicyCondition,
       AP!Complement, AP!Without, AP!With, AP!Known, AP!Deny, AP!Assigned,
       AP!AssignmentFailed, AP!OptimisticLock, AP!cached, AP!stored, AP!fresh,
       AP!Store, AP!deps, AP!garage, AP!Idle, AP!NoID, AP!NoName,
       APP!Step, APP!Get, APP!Revoke, APP!RemoveFinalizer, APP!UpdateMeta,
       APP!CheckBucket, APP!RevokeBucket, APP!CheckAccessKey, APP!RevokeKey,
       APP!DenyOthers, APP!Allow, APP!PatchStatus, APP!At, APP!Goto, APP!Fault,
       APP!NoFault, APP!Return, APP!Ready, APP!UpdateAccessPolicyCondition,
       APP!Complement, APP!Without, APP!With, APP!Known, APP!Deny,
       APP!Assigned, APP!AssignmentFailed, APP!OptimisticLock, APP!cached,
       APP!stored, APP!fresh, APP!Store, APP!deps, APP!garage, APP!Idle,
       APP!NoID, APP!NoName

LEMMA PolicyWorld ==
  /\ \A n : AP!Dequeue(n) => APP!Dequeue(n)
  /\ \A n : AP!Informer(n) => APP!Informer(n)
  /\ \A n, perms : AP!UserCreates(n, perms) => APP!UserCreates(n, perms)
  /\ \A n : AP!LabelledFor(KeyOf, n) = APP!LabelledFor(KeyOf, n)
  /\ AP!Relist <=> APP!Relist
  /\ AP!Idle = APP!Idle
  /\ \A n : AP!Pending(n) <=> APP!Pending(n)
BY DEF AP!Dequeue, AP!Informer, AP!UserCreates, AP!UserWrites, AP!LabelledFor,
       AP!Relist, AP!Deliver, AP!Store, AP!stored, AP!cached, AP!fresh, AP!At,
       AP!Idle, AP!NewStatus, AP!deps, AP!garage, AP!NoID, AP!NoName,
       AP!Pending,
       APP!Dequeue, APP!Informer, APP!UserCreates, APP!UserWrites,
       APP!LabelledFor, APP!Relist, APP!Deliver, APP!Store, APP!stored,
       APP!cached, APP!fresh, APP!At, APP!Idle, APP!NewStatus, APP!deps,
       APP!garage, APP!NoID, APP!NoName, APP!Pending

-----------------------------------------------------------------------------
(* The AccessKey controller.                                                *)

\* A restart is the fault that the AccessKey controller calls Crash.
LEMMA KeyRestart == Restart => AKP!Crash
BY KeyWorld DEF Restart, AKP!Crash, AKP!Fault, AKP!garage

LEMMA NextOfKeys == [Next]_vars => [AKP!Next]_(AKP!vars)
<1> SUFFICES ASSUME [Next]_vars PROVE AKP!Next \/ UNCHANGED AKP!vars
  OBVIOUS
<1>1. CASE AccessKeyStep
  BY <1>1, KeyStep DEF AccessKeyStep, AKP!Next
<1>2. CASE \E n \in KeyNames : DequeueKey(n) \/ KeyInformer(n)
  BY <1>2, KeyWorld DEF DequeueKey, KeyInformer, AKP!Next
<1>3. CASE Restart
  BY <1>3, KeyRestart DEF AKP!Next
<1>4. CASE KeyUser
  BY <1>4, KeyWorld DEF KeyUser, AKP!Next
<1>5. CASE UNCHANGED akOnly /\ UNCHANGED restarts
  BY <1>5 DEF akOnly, AKP!vars, AKP!garage, AKP!env
<1>6. \/ AccessKeyStep \/ Restart \/ KeyUser
      \/ \E n \in KeyNames : DequeueKey(n) \/ KeyInformer(n)
      \/ UNCHANGED akOnly /\ UNCHANGED restarts
  BY DEF Next, vars, AccessPolicyStep, DequeuePolicy, PolicyInformer, PolicyUser
<1> QED
  BY <1>1, <1>2, <1>3, <1>4, <1>5, <1>6

\* The AccessKey controller in the manager implements the one alone, so that
\* everything proved of AccessKeyController holds in the manager.
THEOREM ImplementsAccessKeys == Spec => AKP!Spec
<1>1. Init => AKP!Init
  BY KeyInit DEF Init
<1> QED
  BY <1>1, NextOfKeys, PTL DEF Spec, AKP!Spec

LEMMA KeyInvariant == Spec => []AKP!Inv
<1>1. AKP!Spec => []AKP!Inv
  BY Assumptions, AKP!Invariant
<1> QED
  BY <1>1, ImplementsAccessKeys, PTL
-----------------------------------------------------------------------------
(* The AccessPolicy controller.                                             *)

\* What a policy sees of the AccessKeys is well formed, and so is Garage.
LEMMA KeysSeen ==
  ASSUME AKP!Inv'
  PROVE  /\ [k \in KeyNames |-> KeyView(k)]' \in [KeyNames -> APP!Dependency]
         /\ \A k \in KeyNames : APP!WellFormed(KeyView(k)')
         /\ {k.id : k \in keys'} \subseteq Nat /\ nextKey' \in Nat \ {0}
         /\ \A k \in {l.id : l \in keys'} : k # 0 /\ k < nextKey'
         /\ restarts' \in Nat
<1>1. /\ (akLog \in AKP!Log)' /\ (keys \subseteq AKP!Key)' /\ nextKey' \in Nat \ {0}
      /\ restarts' \in Nat /\ AKP!IDsApart'
  BY DEF AKP!Inv, AKP!TypeInv, AKP!TypeOK, AKP!LogInv, AKP!Log, AKP!Version
<1>2. \A k \in KeyNames : AK!cached(k)' \in AKP!Object \cup {NoObject}
  <2> SUFFICES ASSUME NEW k \in KeyNames
               PROVE  AK!cached(k)' \in AKP!Object \cup {NoObject}
    OBVIOUS
  <2>1. /\ akLog'[k] \in Seq(AKP!Version)
        /\ akLog'[k] # <<>>
    BY <1>1 DEF AKP!Log
  <2>2. akLog'[k][1] \in AKP!Version
    BY <2>1
  <2> QED
    BY <2>2 DEF AK!cached, AKP!Version
<1>3. \A k \in KeyNames : KeyView(k)' \in APP!Dependency /\ APP!WellFormed(KeyView(k)')
  <2> SUFFICES ASSUME NEW k \in KeyNames
               PROVE  KeyView(k)' \in APP!Dependency /\ APP!WellFormed(KeyView(k)')
    OBVIOUS
  <2>1. AK!cached(k)' # NoObject => AK!cached(k)'.status.id \in Nat
    BY <1>2 DEF AKP!Object, AKP!Status
  <2>2. AK!Ready(AK!cached(k)'.status) \in BOOLEAN
    BY DEF AK!Ready
  <2> QED
    BY <2>1, <2>2 DEF KeyView, AK!Ready, APP!Dependency, APP!WellFormed, APP!NoID
<1>4. {k.id : k \in keys'} \subseteq Nat
  BY <1>1 DEF AKP!Key
<1>5. \A k \in {l.id : l \in keys'} : k # 0 /\ k < nextKey'
  BY <1>1 DEF AKP!IDsApart, AKP!NoID
<1> QED
  BY <1>1, <1>3, <1>4, <1>5

\* The policies and the worker stay as they are while the AccessKeys change.
KeysMove ==
  /\ UNCHANGED <<apLog, apJob, bucketCR>>
  /\ apQueue \subseteq apQueue' /\ apQueue' \subseteq apQueue \cup PolicyNames
  /\ grants' \subseteq grants
  /\ \A g \in grants' : \E k \in keys' : k.id = g.key

LEMMA KeysMoveKeeps ==
  ASSUME AKP!Inv', APP!Inv, KeysMove
  PROVE  APP!Inv'
<1>1. APP!EnvOK'
  <2>1. APP!EnvOK
    BY DEF APP!Inv, APP!TypeInv
  <2> QED
    BY <2>1, KeysSeen DEF KeysMove, APP!EnvOK
<1>2. (apLog \in APP!Logs(APP!Version))'
  BY DEF APP!Inv, APP!TypeInv, KeysMove, APP!Logs
<1>3. APP!GrantsLive'
  BY KeysSeen DEF APP!Inv, KeysMove, APP!GrantsLive, APP!NoID
<1>4. \A n \in PolicyNames : /\ APP!stored(n)' = APP!stored(n)
                             /\ APP!fresh(n) => APP!fresh(n)'
  BY DEF KeysMove, APP!stored, APP!fresh
<1> QED
  BY <1>1, <1>2, <1>3, <1>4, Assumptions, APP!OthersKeep DEF KeysMove
\* What moves the AccessKeys, their controller and their keys.
KeySide ==
  \/ AccessKeyStep \/ KeyUser
  \/ \E n \in KeyNames : DequeueKey(n) \/ KeyInformer(n)

LEMMA KeySideMoves ==
  ASSUME APP!Inv, KeySide
  PROVE  KeysMove
<1>2. \A n : AP!LabelledFor(KeyOf, n) \subseteq PolicyNames
  BY DEF AP!LabelledFor
<1>3. UNCHANGED keys /\ UNCHANGED grants => \A g \in grants' : \E k \in keys' : k.id = g.key
  BY DEF APP!Inv, APP!GrantsLive
<1>4. CASE AccessKeyStep
  BY <1>4 DEF AccessKeyStep, DropGrants, KeysMove, apOnly
<1>5. CASE KeyUser
  <2>1. AK!User => UNCHANGED keys
    BY DEF AK!User, AK!UserCreates, AK!UserEdits, AK!UserDeletes, AK!garage
  <2>2. \A s : AK!CollectGarbage(s) => UNCHANGED keys
    BY DEF AK!CollectGarbage, AK!garage
  <2> QED
    BY <1>3, <1>5, <2>1, <2>2 DEF KeyUser, KeysMove, apOnly
<1>6. CASE \E n \in KeyNames : DequeueKey(n) \/ KeyInformer(n)
  BY <1>2, <1>3, <1>6 DEF DequeueKey, KeyInformer, AK!Dequeue, AK!Informer,
                          AK!garage, KeysMove, apOnly
<1> QED
  BY <1>4, <1>5, <1>6 DEF KeySide

\* A write leaves the cached versions.
LEMMA WriteCached ==
  ASSUME akLog \in AKP!Log, NEW n \in KeyNames, NEW v, AKP!Store(n, v)
  PROVE  \A k \in KeyNames : akLog'[k][1] = akLog[k][1]
<1> DEFINE W == AKP!Version \cup {v}
<1>1. akLog \in AKP!Logs(W)
  <2>1. \A k \in KeyNames : akLog[k] \in Seq(W) \ {<<>>}
    BY DEF AKP!Log
  <2> QED
    BY <2>1 DEF AKP!Logs, AKP!Log
<1>2. /\ AKP!cached(n)' = AKP!cached(n)
      /\ \A m \in KeyNames \ {n} : akLog'[m] = akLog[m]
  <2>1. v \in W
    OBVIOUS
  <2> HIDE DEF W
  <2> QED
    BY <1>1, <2>1, Assumptions, AKP!KubeStore
<1> QED
  BY <1>2 DEF AKP!cached

\* The cached AccessKeys change with the informer's events only.
LEMMA ViewMoves ==
  ASSUME AKP!Inv, KeySide
  PROVE  \/ \A k \in KeyNames : KeyView(k)' = KeyView(k)
         \/ \E n \in KeyNames :
              /\ KeyInformer(n)
              /\ \A k \in KeyNames \ {n} : KeyView(k)' = KeyView(k)
<1>1. akLog \in AKP!Log /\ (AKP!Holding \/ akJob.pc # "idle" => akJob.name \in KeyNames)
  BY DEF AKP!Inv, AKP!TypeInv, AKP!TypeOK, AKP!Log, AKP!Version, AKP!Working,
         AKP!Holding, AKP!EnsurePath, AKP!DeletePath
<1>2. \A k : akLog'[k][1] = akLog[k][1] => KeyView(k)' = KeyView(k)
  BY DEF KeyView, AK!cached, AK!Ready
<1>3. CASE \E n \in KeyNames : KeyInformer(n)
  <2>1. PICK n \in KeyNames : KeyInformer(n)
    BY <1>3
  <2>2. \A k \in KeyNames \ {n} : akLog'[k][1] = akLog[k][1]
    BY <1>1, <2>1 DEF KeyInformer, AK!Informer, AK!Deliver, AKP!Log
  <2> QED
    BY <1>2, <2>1, <2>2
<1>4. CASE AccessKeyStep
  <2>1. UNCHANGED akLog \/ \E v : AKP!Store(akJob.name, v) /\ akJob.pc # "idle"
    BY <1>4, KeyStep DEF AccessKeyStep, AKP!Step, AKP!Get, AKP!AddFinalizer,
       AKP!GetKey, AKP!LookupKey, AKP!CreateKey, AKP!GetSecret, AKP!ReadSecret,
       AKP!WriteSecret, AKP!DeleteOldSecret, AKP!UpdateStatus,
       AKP!LookupForDelete, AKP!DeleteKey, AKP!RemoveFinalizer, AKP!At
  <2>2. \A k \in KeyNames : akLog'[k][1] = akLog[k][1]
    BY <1>1, <2>1, WriteCached
  <2> QED
    BY <1>2, <2>2
<1>5. CASE KeyUser
  <2>1. UNCHANGED akLog \/ \E n \in KeyNames : \E v : AKP!Store(n, v)
    BY <1>5, KeyWorld DEF KeyUser, AKP!User, AKP!UserCreates, AKP!UserEdits,
       AKP!UserDeletes, AKP!ObjectWritten, AKP!CollectGarbage
  <2>2. \A k \in KeyNames : akLog'[k][1] = akLog[k][1]
    BY <1>1, <2>1, WriteCached
  <2> QED
    BY <1>2, <2>2
<1>6. CASE \E n \in KeyNames : DequeueKey(n)
  BY <1>2, <1>6 DEF DequeueKey, AK!Dequeue
<1> QED
  BY <1>3, <1>4, <1>5, <1>6 DEF KeySide
PolicyInv == APP!Inv /\ APP!EventInv

\* A watch event of an AccessKey wakes up every labelled policy for it.
LEMMA KeySidePolicies ==
  ASSUME AKP!Inv, AKP!Inv', PolicyInv, KeySide
  PROVE  PolicyInv'
<1>1. KeysMove
  BY KeySideMoves DEF PolicyInv
<1>2. APP!Inv'
  BY <1>1, KeysMoveKeeps DEF PolicyInv
<1>3. APP!DepsWellFormed'
  BY <1>1, KeysSeen DEF PolicyInv, KeysMove, APP!EventInv, APP!DepsWellFormed
<1>4. ASSUME NEW n \in PolicyNames, APP!Quiet(n)',
             APP!cached(n) # NoObject, APP!cached(n).labelled
      PROVE  /\ APP!KeyOfPolicy(n)' = APP!KeyOfPolicy(n)
             /\ APP!BucketOfPolicy(n)' = APP!BucketOfPolicy(n)
  <2>1. KeyOf[n] \in KeyNames
    BY ConstantsAssumption DEF ConstantsAssumption
  <2>2. KeyView(KeyOf[n])' = KeyView(KeyOf[n])
    <3>1. ASSUME NEW k \in KeyNames, KeyInformer(k) PROVE k # KeyOf[n]
      BY <1>4, <3>1, PolicyWorld DEF KeyInformer, APP!Quiet, APP!LabelledFor
    <3> QED
      BY <2>1, <3>1, ViewMoves
  <2> QED
    BY <1>1, <2>1, <2>2 DEF KeysMove, APP!KeyOfPolicy, APP!BucketOfPolicy
<1>5. APP!EventInv'
  BY <1>1, <1>3, <1>4, Assumptions, APP!DepsChange DEF PolicyInv, KeysMove
<1> QED
  BY <1>2, <1>5 DEF PolicyInv

\* A restart puts every policy into the queue.
LEMMA RestartPolicies ==
  ASSUME AKP!Inv', PolicyInv, Restart
  PROVE  PolicyInv'
<1>1. APP!Relist /\ apJob' = APP!Idle /\ UNCHANGED <<bucketCR, grants, keys>>
  BY PolicyWorld DEF Restart
<1>2. /\ apLog \in APP!Logs(APP!Version) /\ APP!EnvOK /\ APP!GrantsLive
  BY DEF PolicyInv, APP!Inv, APP!TypeInv
<1>3. /\ apLog' \in APP!Logs(APP!Version)
      /\ apQueue' = {n \in PolicyNames : APP!stored(n) # NoObject}
      /\ \A n \in PolicyNames : APP!stored(n)' = APP!stored(n)
  BY <1>1, <1>2, Assumptions, APP!KubeRelist
<1>4. APP!EnvOK'
  BY <1>1, <1>2, <1>3, KeysSeen DEF APP!EnvOK
<1>5. apJob' \in APP!Job /\ apJob'.pc = "idle"
  BY <1>1, Assumptions, APP!IdleType
<1>6. APP!JobOK' /\ apJob'.pc \notin APP!Path
  BY <1>5 DEF APP!JobOK, APP!Path, APP!ApplyPath
<1>7. APP!GrantsLive'
  BY <1>1, <1>2, KeysSeen DEF APP!GrantsLive, APP!NoID
<1>8. (apLog \in APP!Logs(APP!Version))'
  BY <1>3 DEF APP!Logs
<1>9. APP!Inv'
  BY <1>4, <1>6, <1>7, <1>8, Assumptions, APP!IdleKeeps DEF PolicyInv
<1>10. \A n \in PolicyNames : ~APP!Stays(n)'
  BY <1>3 DEF APP!Stays, APP!Quiet
<1>11. APP!DepsWellFormed'
  BY <1>1, KeysSeen DEF PolicyInv, APP!EventInv, APP!DepsWellFormed
<1>12. APP!EventInv'
  BY <1>5, <1>10, <1>11 DEF APP!EventInv, APP!Behind, APP!OnPath, APP!BucketSeen,
     APP!KeySeen, APP!Rests, APP!Path, APP!ApplyPath, APP!AfterBucket, APP!AfterKey
<1> QED
  BY <1>9, <1>12 DEF PolicyInv

\* What moves the policies and their controller is what moves them alone.
PolicySide ==
  \/ AccessPolicyStep \/ PolicyUser
  \/ \E n \in PolicyNames : DequeuePolicy(n) \/ PolicyInformer(n)

LEMMA PolicySideMoves == PolicySide => APP!Next /\ UNCHANGED <<akOnly, restarts>>
<1> SUFFICES ASSUME PolicySide PROVE APP!Next /\ UNCHANGED <<akOnly, restarts>>
  OBVIOUS
<1>1. CASE AccessPolicyStep
  BY <1>1, PolicyStep DEF AccessPolicyStep, APP!Next
<1>2. CASE PolicyUser
  BY <1>2, PolicyWorld DEF PolicyUser, APP!Next, APP!Environment
<1>3. CASE \E n \in PolicyNames : DequeuePolicy(n) \/ PolicyInformer(n)
  BY <1>3, PolicyWorld DEF DequeuePolicy, PolicyInformer, APP!Next
<1> QED
  BY <1>1, <1>2, <1>3 DEF PolicySide

LEMMA Sides == Next <=> KeySide \/ PolicySide \/ Restart
BY DEF Next, KeySide, PolicySide

LEMMA SameViews ==
  ASSUME UNCHANGED akOnly
  PROVE  \A k : KeyView(k)' = KeyView(k)
BY DEF akOnly, KeyView, AK!cached, AK!Ready

LEMMA PolicyNext ==
  ASSUME AKP!Inv, AKP!Inv', PolicyInv, [Next]_vars
  PROVE  PolicyInv'
<1>1. CASE PolicySide
  BY <1>1, PolicySideMoves, Assumptions, APP!InvNext, APP!EventNext DEF PolicyInv
<1>2. CASE UNCHANGED vars
  <2>1. UNCHANGED APP!vars
    BY <1>2, SameViews DEF vars, akOnly, apOnly, APP!vars, APP!deps, APP!garage
  <2> QED
    BY <2>1, Assumptions, APP!InvNext, APP!EventNext DEF PolicyInv
<1> QED
  BY <1>1, <1>2, KeySidePolicies, RestartPolicies, Sides
LEMMA PolicyInit == Init => PolicyInv
<1> SUFFICES ASSUME Init PROVE PolicyInv
  OBVIOUS
<1>1. /\ apLog \in APP!Logs(APP!Version) /\ apQueue = {}
      /\ \A n \in PolicyNames : APP!stored(n) = NoObject
  <2>1. APP!KubeInit
    BY DEF Init, APP!KubeInit
  <2> QED
    BY <2>1, Assumptions, APP!KubeStart DEF APP!Version
<1>2. apJob \in APP!Job /\ apJob.pc = "idle"
  BY PolicyWorld, Assumptions, APP!IdleType DEF Init
<1>3. /\ keys = {} /\ nextKey = 1 /\ restarts = MaxRestarts /\ grants = {}
      /\ \A k \in KeyNames : akLog[k] = <<NoObject>>
  BY DEF Init, AK!Init, AK!KubeInit
<1>4. \A k \in KeyNames : KeyView(k) = [exists |-> FALSE, id |-> 0, ready |-> FALSE]
  <2> SUFFICES ASSUME NEW k \in KeyNames
               PROVE  KeyView(k) = [exists |-> FALSE, id |-> 0, ready |-> FALSE]
    OBVIOUS
  <2>1. AK!cached(k) = NoObject
    BY <1>3 DEF AK!cached
  <2> QED
    BY <2>1 DEF KeyView
<1>5. /\ bucketCR \in [BucketNames -> APP!Dependency]
      /\ \A b \in BucketNames : APP!WellFormed(bucketCR[b])
  BY ConstantsAssumption DEF Init, ConstantsAssumption, APP!Dependency, APP!WellFormed
<1>6. APP!EnvOK
  <2>1. \A k \in KeyNames : KeyView(k) \in APP!Dependency
    <3>1. [exists |-> FALSE, id |-> 0, ready |-> FALSE] \in APP!Dependency
      BY DEF APP!Dependency
    <3> QED
      BY <1>4, <3>1
  <2>2. [k \in KeyNames |-> KeyView(k)] \in [KeyNames -> APP!Dependency]
    <3> HIDE DEF KeyView
    <3> QED
      BY <2>1
  <2>3. {k.id : k \in keys} = {} /\ grants \subseteq APP!Grant
    BY <1>3
  <2>4. nextKey \in Nat \ {0} /\ 0 \in Nat
    BY <1>3
  <2>5. restarts \in Nat
    BY <1>3, ConstantsAssumption DEF ConstantsAssumption
  <2> QED
    BY <1>1, <1>3, <1>5, <2>2, <2>3, <2>4, <2>5 DEF APP!EnvOK
<1>7. APP!Inv
  BY <1>1, <1>2, <1>3, <1>6 DEF APP!Inv, APP!TypeInv, APP!JobOK, APP!GrantsLive,
     APP!CopyStored, APP!Untouched, APP!Narrowed, APP!Revoked, APP!Path,
     APP!ApplyPath
<1>8. APP!DepsWellFormed
  BY <1>4, <1>5 DEF APP!DepsWellFormed, APP!WellFormed, APP!NoID
<1>9. APP!EventInv
  BY <1>1, <1>2, <1>8 DEF APP!EventInv, APP!Behind, APP!OnPath, APP!BucketSeen,
     APP!KeySeen, APP!Rests, APP!Stays, APP!Path, APP!ApplyPath,
     APP!AfterBucket, APP!AfterKey
<1> QED
  BY <1>7, <1>9 DEF PolicyInv

\* No event of an AccessKey, real ones now, is lost on a policy.
THEOREM PoliciesMissNothing == Spec => []PolicyInv
<1>1. AKP!Inv /\ AKP!Inv' /\ PolicyInv /\ [Next]_vars => PolicyInv'
  BY PolicyNext
<1> QED
  BY <1>1, PolicyInit, KeyInvariant, PTL DEF Spec

-----------------------------------------------------------------------------
(* The policies stay.                                                       *)

\* A policy is never deleted, nor taken for one that is.
VersionsStay ==
  \A n \in PolicyNames : \A i \in APP!Index(n) :
    apLog[n][i] # NoObject => ~apLog[n][i].deleting /\ APP!stored(n) # NoObject

WorkerStays ==
  /\ apJob.pc \notin {"Revoke", "RemoveFinalizer"}
  /\ apJob.pc \in APP!Path =>
       APP!stored(apJob.name) # NoObject /\ ~apJob.obj.deleting

PoliciesStay == VersionsStay /\ WorkerStays

\* What happens to the versions of the policies.
LEMMA PolicyLog ==
  ASSUME PolicyInv, PoliciesStay, [Next]_vars
  PROVE  \/ UNCHANGED apLog
         \/ APP!Relist
         \/ \E n \in PolicyNames : APP!Deliver(n)
         \/ \E n \in PolicyNames, v \in APP!Object :
              APP!Store(n, v) /\ ~v.deleting
<1>1. /\ APP!Inv /\ APP!TypeInv /\ apLog \in APP!Logs(APP!Version)
  BY DEF PolicyInv, APP!Inv, APP!TypeInv
<1>2. CASE AccessPolicyStep
  <2>1. APP!Step
    BY <1>2, PolicyStep DEF AccessPolicyStep
  <2>2. CASE APP!UpdateMeta
    <3>1. apJob.pc = "UpdateMeta" /\ apJob.obj \in APP!Object /\ apJob.name \in PolicyNames
      BY <1>1, <2>2 DEF APP!UpdateMeta, APP!At, APP!TypeInv, APP!JobOK, APP!Path
    <3>2. ~apJob.obj.deleting
      BY <3>1 DEF PoliciesStay, WorkerStays, APP!Path
    <3>3. APP!UpdatedMeta \in APP!Object /\ ~APP!UpdatedMeta.deleting
      BY <3>1, <3>2 DEF APP!UpdatedMeta, APP!Object
    <3>4. UNCHANGED apLog \/ APP!Store(apJob.name, APP!UpdatedMeta)
      BY <2>2 DEF APP!UpdateMeta, APP!UpdatedMeta
    <3> QED
      BY <3>1, <3>3, <3>4
  <2>3. CASE APP!PatchStatus
    <3>1. apJob.pc = "PatchStatus" /\ apJob.pc \in APP!Path
      BY <2>3 DEF APP!PatchStatus, APP!At, APP!Path, APP!ApplyPath
    <3>2. ~apJob.obj.deleting
      BY <3>1 DEF PoliciesStay, WorkerStays
    <3>3. UNCHANGED apLog \/ (apJob.current /\ APP!Store(apJob.name, APP!Patched))
      BY <2>3 DEF APP!PatchStatus, APP!OptimisticLock, APP!Patched, APP!NewestStatus
    <3>4. apJob.name \in PolicyNames
      BY <1>1, <3>1 DEF APP!TypeInv, APP!JobOK
    <3>5. apJob.current => APP!Patched \in APP!Object /\ ~APP!Patched.deleting
      BY <1>1, <3>1, <3>2, Assumptions, APP!PatchFacts DEF APP!SameSpec
    <3> QED
      BY <3>3, <3>4, <3>5
  <2>4. ~APP!RemoveFinalizer
    BY DEF APP!RemoveFinalizer, APP!At, PoliciesStay, WorkerStays
  <2>5. CASE \/ APP!Get \/ APP!Revoke \/ APP!CheckBucket \/ APP!RevokeBucket
             \/ APP!CheckAccessKey \/ APP!RevokeKey \/ APP!DenyOthers \/ APP!Allow
    BY <2>5 DEF APP!Get, APP!Revoke, APP!CheckBucket, APP!RevokeBucket,
       APP!CheckAccessKey, APP!RevokeKey, APP!DenyOthers, APP!Allow
  <2> QED
    BY <2>1, <2>2, <2>3, <2>4, <2>5 DEF APP!Step
<1>3. CASE PolicyUser
  <2>1. PICK n \in PolicyNames : APP!UserCreates(n, Perms)
    BY <1>3, PolicyWorld DEF PolicyUser
  <2> DEFINE v == [gen |-> 1, perms |-> Perms, labelled |-> FALSE,
                   finalizer |-> FALSE, deleting |-> FALSE,
                   status |-> APP!NewStatus]
  <2>2. APP!NewStatus \in APP!Status
    BY DEF APP!NewStatus, APP!Status, APP!Cond, APP!NoID
  <2>3. v \in APP!Object /\ ~v.deleting
    BY <2>2 DEF APP!Object
  <2>4. APP!Store(n, v)
    BY <2>1 DEF APP!UserCreates, APP!UserWrites
  <2> HIDE DEF v
  <2> QED
    BY <2>3, <2>4
<1>4. CASE \E n \in PolicyNames : DequeuePolicy(n) \/ PolicyInformer(n)
  BY <1>4, PolicyWorld DEF DequeuePolicy, PolicyInformer, APP!Dequeue, APP!Informer
<1>5. CASE KeySide
  BY <1>1, <1>5, KeySideMoves DEF KeysMove
<1>6. CASE Restart
  BY <1>6, PolicyWorld DEF Restart
<1>7. CASE UNCHANGED vars
  BY <1>7 DEF vars, apOnly
<1> QED
  BY <1>2, <1>3, <1>4, <1>5, <1>6, <1>7, Sides DEF PolicySide

LEMMA VersionsStayNext ==
  ASSUME PolicyInv, PoliciesStay, [Next]_vars
  PROVE  /\ VersionsStay'
         /\ \A n \in PolicyNames : APP!stored(n) # NoObject => APP!stored(n)' # NoObject
<1>1. apLog \in APP!Logs(APP!Version) /\ NoObject \notin APP!Object
  BY Assumptions DEF PolicyInv, APP!Inv, APP!TypeInv, APP!NoObjectAssumption
<1>2. CASE UNCHANGED apLog
  BY <1>2 DEF PoliciesStay, VersionsStay, APP!Index, APP!stored
<1>3. CASE APP!Relist
  <2>1. \A n \in PolicyNames : /\ APP!stored(n)' = APP!stored(n)
                               /\ Len(apLog'[n]) = 1
                               /\ apLog'[n][1] = APP!stored(n)
    BY <1>1, <1>3, Assumptions, APP!KubeRelist
  <2>2. \A n \in PolicyNames : \E j \in APP!Index(n) : apLog[n][j] = APP!stored(n)
    BY <1>1, Assumptions, APP!KubeLog DEF APP!stored
  <2>3. \A n \in PolicyNames : \A i \in APP!Index(n)' : i = 1
    <3>1. \A n \in PolicyNames : APP!Index(n)' = 1 .. 1
      BY <2>1 DEF APP!Index
    <3> QED
      BY <3>1
  <2>4. \A n \in PolicyNames : \A i \in APP!Index(n)' :
          \E j \in APP!Index(n) : apLog'[n][i] = apLog[n][j]
    BY <2>1, <2>2, <2>3
  <2> QED
    BY <2>1, <2>4 DEF PoliciesStay, VersionsStay
<1>4. CASE \E n \in PolicyNames : APP!Deliver(n)
  <2>1. PICK n \in PolicyNames : APP!Deliver(n)
    BY <1>4
  <2>2. /\ APP!stored(n)' = APP!stored(n)
        /\ \A m \in PolicyNames \ {n} : apLog'[m] = apLog[m]
        /\ \A i \in APP!Index(n)' :
             i + 1 \in APP!Index(n) /\ apLog'[n][i] = apLog[n][i + 1]
    BY <1>1, <2>1, Assumptions, APP!KubeDeliver
  <2>3. \A m \in PolicyNames : APP!stored(m)' = APP!stored(m)
    BY <2>2 DEF APP!stored
  <2>4. \A m \in PolicyNames : \A i \in APP!Index(m)' :
          \E j \in APP!Index(m) : apLog'[m][i] = apLog[m][j]
    BY <2>2 DEF APP!Index
  <2> QED
    BY <2>3, <2>4 DEF PoliciesStay, VersionsStay
<1>5. ASSUME NEW n \in PolicyNames, NEW v \in APP!Object,
             APP!Store(n, v), ~v.deleting
      PROVE  /\ VersionsStay'
             /\ \A m \in PolicyNames : APP!stored(m) # NoObject => APP!stored(m)' # NoObject
  <2>1. v \in APP!Version
    BY DEF APP!Version
  <2>2. /\ APP!stored(n)' = v
        /\ \A m \in PolicyNames \ {n} : apLog'[m] = apLog[m]
        /\ \A i \in APP!Index(n) : apLog'[n][i] = apLog[n][i]
        /\ \A i \in APP!Index(n)' \ APP!Index(n) : apLog'[n][i] = v
    BY <1>1, <1>5, <2>1, Assumptions, APP!KubeStore
  <2>3. \A m \in PolicyNames \ {n} : /\ APP!stored(m)' = APP!stored(m)
                                     /\ APP!Index(m)' = APP!Index(m)
    BY <2>2 DEF APP!stored, APP!Index
  <2>4. v # NoObject
    BY <1>1
  <2> QED
    BY <1>5, <2>2, <2>3, <2>4 DEF PoliciesStay, VersionsStay
<1> QED
  BY <1>2, <1>3, <1>4, <1>5, PolicyLog

LEMMA StaysNext ==
  ASSUME PolicyInv, PoliciesStay, [Next]_vars
  PROVE  PoliciesStay'
<1> SUFFICES WorkerStays'
  BY VersionsStayNext DEF PoliciesStay
<1>1. /\ APP!Inv /\ APP!TypeInv /\ apLog \in APP!Logs(APP!Version) /\ apJob \in APP!Job
      /\ apJob.pc # "idle" => apJob.name \in PolicyNames
  BY DEF PolicyInv, APP!Inv, APP!TypeInv, APP!JobOK
<1>2. ASSUME apJob'.name = apJob.name, apJob.pc \in APP!Path,
             apJob'.obj.deleting = apJob.obj.deleting,
             apJob'.pc \notin {"Revoke", "RemoveFinalizer"}
      PROVE  WorkerStays'
  <2>1. PICK n \in PolicyNames : n = apJob.name
    BY <1>1, <1>2 DEF APP!Path, APP!ApplyPath
  <2>2. APP!stored(n)' # NoObject /\ ~apJob.obj.deleting
    BY <1>2, <2>1, VersionsStayNext DEF PoliciesStay, WorkerStays
  <2>3. apJob'.name = n
    BY <1>2, <2>1
  <2> QED
    BY <1>2, <2>2, <2>3 DEF WorkerStays, APP!stored
<1>3. ASSUME apJob'.pc \notin APP!Path
      PROVE  WorkerStays'
  BY <1>3 DEF WorkerStays, APP!Path
<1>4. CASE apJob'.pc = apJob.pc /\ apJob'.name = apJob.name /\ apJob'.obj = apJob.obj
  BY <1>2, <1>3, <1>4 DEF PoliciesStay, WorkerStays
<1>5. CASE AccessPolicyStep
  <2>1. APP!Step
    BY <1>5, PolicyStep DEF AccessPolicyStep
  <2>2. CASE APP!Get
    <3>1. PICK n \in PolicyNames : n = apJob.name
      BY <1>1, <2>2 DEF APP!Get, APP!At
    <3>2. 1 \in APP!Index(n)
      BY <1>1, Assumptions, APP!KubeLog
    <3>3. APP!cached(n) # NoObject => ~APP!cached(n).deleting /\ APP!stored(n) # NoObject
      BY <3>2 DEF PoliciesStay, VersionsStay, APP!cached
    <3>4. \/ apJob'.pc = "idle"
          \/ /\ APP!cached(n) # NoObject
             /\ apJob'.obj = APP!cached(n) /\ apJob'.name = n
             /\ apJob'.pc \in {"CheckBucket", "UpdateMeta"}
      <4>1. \/ apJob' = APP!Idle
            \/ \E p \in {"CheckBucket", "UpdateMeta"} :
                 /\ APP!cached(n) # NoObject
                 /\ apJob' = [apJob EXCEPT !.pc = p, !.obj = APP!cached(n),
                                           !.orig = APP!cached(n).status,
                                           !.current = APP!fresh(n)]
        BY <1>1, <2>2, <3>1, <3>3 DEF APP!Get, APP!Return
      <4>2. APP!Idle.pc = "idle"
        BY DEF APP!Idle
      <4>3. ASSUME NEW p \in {"CheckBucket", "UpdateMeta"},
                   apJob' = [apJob EXCEPT !.pc = p, !.obj = APP!cached(n),
                                          !.orig = APP!cached(n).status,
                                          !.current = APP!fresh(n)]
            PROVE  /\ apJob'.obj = APP!cached(n) /\ apJob'.name = apJob.name
                   /\ apJob'.pc = p
        BY <1>1, <4>3 DEF APP!Job
      <4> QED
        BY <3>1, <4>1, <4>2, <4>3
    <3>5. CASE apJob'.pc = "idle"
      BY <1>3, <3>5 DEF APP!Path, APP!ApplyPath
    <3>6. CASE /\ APP!cached(n) # NoObject
               /\ apJob'.obj = APP!cached(n) /\ apJob'.name = n
               /\ apJob'.pc \in {"CheckBucket", "UpdateMeta"}
      <4>1. APP!stored(n)' # NoObject /\ ~apJob'.obj.deleting
        BY <3>3, <3>6, VersionsStayNext
      <4> QED
        BY <3>6, <4>1 DEF WorkerStays, APP!stored
    <3> QED
      BY <3>4, <3>5, <3>6
  <2>3. CASE APP!UpdateMeta \/ APP!PatchStatus
    <3>1. apJob'.pc = "idle"
      BY <2>3 DEF APP!UpdateMeta, APP!PatchStatus, APP!Return, APP!Idle
    <3> QED
      BY <1>3, <3>1 DEF APP!Path, APP!ApplyPath
  <2>4. ~APP!RemoveFinalizer /\ ~APP!Revoke
    BY DEF APP!RemoveFinalizer, APP!Revoke, APP!At, PoliciesStay, WorkerStays
  <2>5. CASE \/ APP!CheckBucket \/ APP!RevokeBucket \/ APP!CheckAccessKey
             \/ APP!RevokeKey \/ APP!DenyOthers \/ APP!Allow
    <3>1. APP!Goes /\ apJob'.pc \notin {"Revoke", "RemoveFinalizer"}
      BY <1>1, <2>5, Assumptions, APP!CheckBucketFacts, APP!RevokeBucketFacts,
         APP!CheckAccessKeyFacts, APP!RevokeKeyFacts, APP!DenyOthersFacts,
         APP!AllowFacts
    <3>2. apJob.pc \in APP!Path
      BY <2>5 DEF APP!CheckBucket, APP!RevokeBucket, APP!CheckAccessKey,
         APP!RevokeKey, APP!DenyOthers, APP!Allow, APP!At, APP!Path, APP!ApplyPath
    <3> QED
      BY <1>2, <3>1, <3>2 DEF APP!Goes, APP!SameSpec
  <2> QED
    BY <2>1, <2>2, <2>3, <2>4, <2>5 DEF APP!Step
<1>6. CASE PolicyUser
  <2>1. /\ apJob'.pc = apJob.pc /\ apJob'.name = apJob.name
        /\ apJob'.obj = apJob.obj
    BY <1>1, <1>6, PolicyWorld DEF PolicyUser, APP!UserCreates, APP!UserWrites, APP!Job
  <2> QED
    BY <1>4, <2>1
<1>7. CASE \E n \in PolicyNames : DequeuePolicy(n) \/ PolicyInformer(n)
  <2>1. apJob'.pc = "Get" \/ UNCHANGED apJob
    BY <1>7, PolicyWorld DEF DequeuePolicy, PolicyInformer, APP!Dequeue,
       APP!Informer, APP!Idle
  <2>2. CASE apJob'.pc = "Get"
    BY <1>3, <2>2 DEF APP!Path, APP!ApplyPath
  <2> QED
    BY <1>4, <2>1, <2>2
<1>8. CASE KeySide
  BY <1>1, <1>4, <1>8, KeySideMoves DEF KeysMove
<1>9. CASE Restart
  <2>1. apJob'.pc = "idle"
    BY <1>9 DEF Restart, AP!Idle
  <2> QED
    BY <1>3, <2>1 DEF APP!Path, APP!ApplyPath
<1>10. CASE UNCHANGED vars
  BY <1>4, <1>10 DEF vars, apOnly
<1> QED
  BY <1>5, <1>6, <1>7, <1>8, <1>9, <1>10, Sides DEF PolicySide
-----------------------------------------------------------------------------
(* An AccessKey keeps its key ID.                                           *)

\* Where no call fails, the worker has the key when it comes to the Secret.
HasKey ==
  akJob.pc \in {"GetSecret", "ReadSecret", "WriteSecret", "DeleteOldSecret",
                "UpdateStatus"} => akJob.obj.status.id # 0

\* What is written to AccessKey n: a version of the same object that does not
\* lose the key's ID, a new object, or nothing once the key is gone.
Continues(n, v) ==
  /\ v \in AKP!Object /\ AKP!stored(n) # NoObject
  /\ v.uid = AKP!stored(n).uid
  /\ v.status.id = AKP!stored(n).status.id \/ v.status.id # 0

Begins(n, v) == AKP!stored(n) = NoObject /\ v \in AKP!Object /\ v.uid = nextUID

Ends(n, v) ==
  /\ v = NoObject
  /\ AKP!stored(n) # NoObject => AKP!KeysOf(AKP!stored(n).uid) = {}

KeyWritten(n, v) ==
  AKP!Store(n, v) /\ (Continues(n, v) \/ Begins(n, v) \/ Ends(n, v))

LEMMA WorkerWrites ==
  ASSUME AKP!Inv, HasKey, AKP!Step, UNCHANGED restarts
  PROVE  \/ UNCHANGED akLog
         \/ \E n \in KeyNames, v \in AKP!Version : KeyWritten(n, v)
<1>1. /\ AKP!TypeInv /\ akLog \in AKP!Log /\ AKP!JobOK
      /\ restarts \in Nat
  BY Assumptions, AKP!WorkerFacts DEF AKP!Inv, AKP!EnvOK
<1>2. CASE AKP!UpdateStatus
  <2>1. /\ akJob.pc = "UpdateStatus" /\ akJob.pc \in AKP!EnsurePath
        /\ akJob.obj \in AKP!Object /\ akJob.obj.status \in AKP!Status
    BY <1>1, <1>2, Assumptions, AKP!WorkerFacts DEF AKP!UpdateStatus, AKP!At, AKP!EnsurePath
  <2>2. PICK n \in KeyNames : n = akJob.name
    BY <1>1, <2>1 DEF AKP!JobOK, AKP!Working
  <2>3. AKP!stored(n) # NoObject /\ AKP!stored(n).uid = akJob.obj.uid
    BY <2>1, <2>2 DEF AKP!Inv, AKP!WorkerInv, AKP!Ensuring
  <2>4. AKP!stored(n) \in AKP!Object
    BY <1>1, <2>3, Assumptions, AKP!LogFacts DEF AKP!Version
  <2> DEFINE st == AKP!UpdateAccessKeyCondition(akJob.obj)
             v  == [AKP!stored(n) EXCEPT !.status = st]
  <2>5. st \in AKP!Status /\ st.id = akJob.obj.status.id
    BY <2>1 DEF AKP!UpdateAccessKeyCondition, AKP!Object, AKP!Status
  <2>6. v \in AKP!Object /\ v.uid = AKP!stored(n).uid /\ v.status = st
    BY <2>4, <2>5 DEF AKP!Object
  <2>7. UNCHANGED akLog \/ AKP!Store(n, v)
    BY <1>2, <2>2 DEF AKP!UpdateStatus
  <2> HIDE DEF v, st
  <2> QED
    BY <2>1, <2>3, <2>5, <2>6, <2>7 DEF KeyWritten, Continues, HasKey, AKP!Version
<1>3. CASE AKP!AddFinalizer
  <2>1. PICK n \in KeyNames : n = akJob.name
    BY <1>1, <1>3 DEF AKP!AddFinalizer, AKP!At, AKP!JobOK, AKP!Working
  <2> DEFINE v == [AKP!stored(n) EXCEPT !.finalizer = TRUE]
  <2>2. UNCHANGED akLog \/ (AKP!stored(n) # NoObject /\ AKP!Store(n, v))
    BY <1>3, <2>1 DEF AKP!AddFinalizer
  <2>3. CASE AKP!stored(n) # NoObject /\ AKP!Store(n, v)
    <3>1. AKP!stored(n) \in AKP!Object
      BY <1>1, <2>3, Assumptions, AKP!LogFacts DEF AKP!Version
    <3>2. /\ v \in AKP!Object /\ v.uid = AKP!stored(n).uid
          /\ v.status = AKP!stored(n).status
      BY <3>1 DEF AKP!Object
    <3> HIDE DEF v
    <3> QED
      BY <2>3, <3>2 DEF KeyWritten, Continues, AKP!Version
  <2> QED
    BY <2>2, <2>3
<1>4. CASE AKP!RemoveFinalizer
  <2>1. akJob.pc = "RemoveFinalizer" /\ akJob.pc \in AKP!DeletePath
    BY <1>4 DEF AKP!RemoveFinalizer, AKP!At, AKP!DeletePath
  <2>2. PICK n \in KeyNames : n = akJob.name
    BY <1>1, <2>1 DEF AKP!JobOK, AKP!Working
  <2>3. UNCHANGED akLog \/ (akJob.current /\ AKP!Store(n, NoObject))
    BY <1>4, <2>2 DEF AKP!RemoveFinalizer, AKP!OptimisticLock
  <2>4. akJob.current => Ends(n, NoObject)
    BY <2>1, <2>2 DEF Ends, AKP!Inv, AKP!WorkerInv, AKP!Deleting
  <2> QED
    BY <2>3, <2>4 DEF KeyWritten, AKP!Version
<1>5. CASE \/ AKP!Get \/ AKP!GetKey \/ AKP!LookupKey \/ AKP!CreateKey
           \/ AKP!GetSecret \/ AKP!ReadSecret \/ AKP!WriteSecret
           \/ AKP!DeleteOldSecret \/ AKP!LookupForDelete \/ AKP!DeleteKey
  BY <1>5 DEF AKP!Get, AKP!GetKey, AKP!LookupKey, AKP!CreateKey, AKP!GetSecret,
     AKP!ReadSecret, AKP!WriteSecret, AKP!DeleteOldSecret, AKP!LookupForDelete,
     AKP!DeleteKey
<1> QED
  BY <1>2, <1>3, <1>4, <1>5 DEF AKP!Step

LEMMA UserKeyWrites ==
  ASSUME AKP!Inv, AKP!User
  PROVE  \E n \in KeyNames, v \in AKP!Version : KeyWritten(n, v)
<1>1. /\ AKP!TypeInv /\ akLog \in AKP!Log /\ nextUID \in Nat \ {0}
      /\ \A n \in KeyNames : AKP!stored(n) \in AKP!Version
  BY Assumptions, AKP!WorkerFacts, AKP!LogFacts DEF AKP!Inv, AKP!EnvOK
<1>2. CASE \E n \in KeyNames, s \in SecretNames : AKP!UserCreates(n, s)
  <2>1. PICK n \in KeyNames, s \in SecretNames : AKP!UserCreates(n, s)
    BY <1>2
  <2> DEFINE v == [uid |-> nextUID, gen |-> 1, secretName |-> s,
                   deleting |-> FALSE, finalizer |-> FALSE,
                   status |-> AKP!NewStatus]
  <2>2. AKP!NewStatus \in AKP!Status
    BY DEF AKP!NewStatus, AKP!Status, AKP!NoID, AKP!NoName
  <2>3. v \in AKP!Object /\ v.uid = nextUID
    BY <1>1, <2>2 DEF AKP!Object
  <2>4. AKP!Store(n, v) /\ AKP!stored(n) = NoObject
    BY <2>1 DEF AKP!UserCreates, AKP!ObjectWritten
  <2> HIDE DEF v
  <2> QED
    BY <2>3, <2>4 DEF KeyWritten, Begins, AKP!Version
<1>3. CASE \E n \in KeyNames, s \in SecretNames : AKP!UserEdits(n, s)
  <2>1. PICK n \in KeyNames, s \in SecretNames : AKP!UserEdits(n, s)
    BY <1>3
  <2> DEFINE v == [AKP!stored(n) EXCEPT !.secretName = s, !.gen = @ + 1]
  <2>2. AKP!stored(n) # NoObject /\ AKP!Store(n, v)
    BY <2>1 DEF AKP!UserEdits, AKP!ObjectWritten
  <2>3. AKP!stored(n) \in AKP!Object /\ v \in AKP!Object
    BY <1>1, <2>2, Assumptions, AKP!ObjectChanged DEF AKP!Version
  <2>4. v.uid = AKP!stored(n).uid /\ v.status = AKP!stored(n).status
    BY <2>3 DEF AKP!Object
  <2> HIDE DEF v
  <2> QED
    BY <2>2, <2>3, <2>4 DEF KeyWritten, Continues, AKP!Version
<1>4. CASE \E n \in KeyNames : AKP!UserDeletes(n)
  <2>1. PICK n \in KeyNames : AKP!UserDeletes(n)
    BY <1>4
  <2>2. AKP!stored(n) # NoObject /\ AKP!stored(n) \in AKP!Object
    BY <1>1, <2>1 DEF AKP!UserDeletes, AKP!Version
  <2>3. CASE AKP!stored(n).finalizer
    <3> DEFINE v == [AKP!stored(n) EXCEPT !.deleting = TRUE, !.gen = @ + 1]
    <3>1. AKP!Store(n, v)
      BY <2>1, <2>3 DEF AKP!UserDeletes, AKP!ObjectWritten
    <3>2. v \in AKP!Object
      BY <2>2, Assumptions, AKP!ObjectChanged
    <3>3. v.uid = AKP!stored(n).uid /\ v.status = AKP!stored(n).status
      BY <2>2 DEF AKP!Object
    <3> HIDE DEF v
    <3> QED
      BY <2>2, <3>1, <3>2, <3>3 DEF KeyWritten, Continues, AKP!Version
  <2>4. CASE ~AKP!stored(n).finalizer
    <3>1. AKP!Store(n, NoObject)
      BY <2>1, <2>4 DEF AKP!UserDeletes, AKP!ObjectWritten
    <3>2. ASSUME NEW k \in keys, k.uid = AKP!stored(n).uid
          PROVE  FALSE
      <4>1. PICK m \in KeyNames : /\ AKP!stored(m) # NoObject
                                  /\ AKP!stored(m).uid = k.uid
                                  /\ AKP!stored(m).finalizer
        BY DEF AKP!Inv, AKP!LogInv, AKP!KeyAccounted
      <4>2. m = n
        BY <1>1, <2>2, <3>2, <4>1, Assumptions, AKP!IndexFacts
           DEF AKP!Inv, AKP!LogInv, AKP!UIDsApart, AKP!Exists
      <4> QED
        BY <2>4, <4>1, <4>2
    <3>3. AKP!KeysOf(AKP!stored(n).uid) = {}
      BY <3>2 DEF AKP!KeysOf
    <3> QED
      BY <3>1, <3>3 DEF KeyWritten, Ends, AKP!Version
  <2> QED
    BY <2>3, <2>4
<1> QED
  BY <1>2, <1>3, <1>4 DEF AKP!User

LEMMA KeyLog ==
  ASSUME AKP!Inv, HasKey, [Next]_vars
  PROVE  \/ UNCHANGED akLog
         \/ \E d \in [KeyNames -> Nat] : AKP!Dropped(d)
         \/ \E n \in KeyNames, v \in AKP!Version : KeyWritten(n, v)
<1>1. akLog \in AKP!Log
  BY Assumptions, AKP!WorkerFacts DEF AKP!Inv
<1>2. CASE AccessKeyStep
  BY <1>2, KeyStep, WorkerWrites DEF AccessKeyStep
<1>3. CASE KeyUser
  <2>1. \A s : AKP!CollectGarbage(s) => UNCHANGED akLog
    BY DEF AKP!CollectGarbage
  <2> QED
    BY <1>3, <2>1, KeyWorld, UserKeyWrites DEF KeyUser
<1>4. CASE \E n \in KeyNames : DequeueKey(n) \/ KeyInformer(n)
  <2>1. PICK n \in KeyNames : DequeueKey(n) \/ KeyInformer(n)
    BY <1>4
  <2>2. UNCHANGED akLog \/ AKP!Deliver(n)
    BY <2>1, KeyWorld DEF DequeueKey, KeyInformer, AKP!Dequeue, AKP!Informer
  <2> QED
    BY <1>1, <2>2, Assumptions, AKP!DeliverView
<1>5. CASE Restart
  <2>1. AKP!Relist
    BY <1>5, KeyWorld DEF Restart
  <2> QED
    BY <1>1, <2>1, Assumptions, AKP!RelistView
<1>6. CASE UNCHANGED akOnly
  BY <1>6 DEF akOnly
<1>7. \/ AccessKeyStep \/ KeyUser \/ Restart
      \/ \E n \in KeyNames : DequeueKey(n) \/ KeyInformer(n)
      \/ UNCHANGED akOnly
  BY DEF Next, vars, AccessPolicyStep, DequeuePolicy, PolicyInformer, PolicyUser
<1> QED
  BY <1>2, <1>3, <1>4, <1>5, <1>6, <1>7
\* The worker does not lose the key it has: no call fails, and the key has
\* one owner.
LEMMA HasKeyNext ==
  ASSUME AKP!Inv, HasKey, [Next]_vars
  PROVE  HasKey'
<1>1. /\ AKP!TypeInv /\ AKP!JobOK /\ akJob \in AKP!Job
      /\ nextKey \in Nat \ {0} /\ restarts \in Nat
      /\ \A k \in keys : k.id # 0 /\ k.id \in Nat
      /\ AKP!KeyUnique
  BY Assumptions, AKP!WorkerFacts DEF AKP!Inv, AKP!LogInv, AKP!IDsApart, AKP!EnvOK,
     AKP!JobOK, AKP!Key, AKP!NoID
<1>2. CASE AccessKeyStep
  <2>1. AKP!Step /\ ~AKP!Fault
    BY <1>1, <1>2, KeyStep DEF AccessKeyStep, AKP!Fault
  <2>2. CASE AKP!GetKey
    <3>1. akJob.pc = "GetKey" /\ akJob.pc \in AKP!EnsurePath
      BY <2>2 DEF AKP!GetKey, AKP!At, AKP!EnsurePath
    <3>2. /\ akJob.obj \in AKP!Object /\ akJob.obj.status.id \in Nat
          /\ akJob.obj.status.id # 0
      BY <1>1, <3>1, Assumptions, AKP!WorkerFacts
         DEF AKP!Inv, AKP!WorkerInv, AKP!Ensuring, AKP!NoID, AKP!Status
    <3>3. AKP!KeyFound(akJob.obj.status.id) \/ AKP!Goto("CreateKey")
      BY <2>1, <2>2 DEF AKP!GetKey
    <3> QED
      BY <1>1, <3>1, <3>2, <3>3, Assumptions, AKP!HelperFacts DEF HasKey
  <2>3. CASE AKP!LookupKey
    <3>1. akJob.pc \in AKP!EnsurePath
      BY <2>3 DEF AKP!LookupKey, AKP!At, AKP!EnsurePath
    <3>2. (\E k \in keys : AKP!KeyFound(k.id)) \/ AKP!Goto("CreateKey")
      BY <1>1, <2>1, <2>3 DEF AKP!LookupKey, AKP!KeysOf, AKP!KeyUnique
    <3> QED
      BY <1>1, <3>1, <3>2, Assumptions, AKP!HelperFacts DEF HasKey
  <2>4. CASE AKP!CreateKey
    <3>1. akJob.pc \in AKP!EnsurePath
      BY <2>4 DEF AKP!CreateKey, AKP!At, AKP!EnsurePath
    <3>2. AKP!KeyFound(nextKey)
      BY <2>1, <2>4 DEF AKP!CreateKey
    <3> QED
      BY <1>1, <3>1, <3>2, Assumptions, AKP!HelperFacts DEF HasKey
  <2>5. CASE AKP!GetSecret \/ AKP!ReadSecret \/ AKP!WriteSecret \/ AKP!DeleteOldSecret
    <3>1. akJob.pc \in {"GetSecret", "ReadSecret", "WriteSecret", "DeleteOldSecret"}
      BY <2>5 DEF AKP!GetSecret, AKP!ReadSecret, AKP!WriteSecret,
         AKP!DeleteOldSecret, AKP!At
    <3>2. akJob.pc \in AKP!EnsurePath /\ akJob.obj.status.id # 0
      BY <3>1 DEF HasKey, AKP!EnsurePath
    <3>3. akJob'.obj.status.id = akJob.obj.status.id
      <4>1. CASE AKP!GetSecret \/ AKP!ReadSecret \/ AKP!WriteSecret
        <5>1. akJob' = [akJob EXCEPT !.pc = "WriteSecret",
                           !.sec = secrets[akJob.obj.secretName],
                           !.secCurrent = TRUE]
              => akJob'.obj = akJob.obj
          BY <1>1 DEF AKP!Job
        <5> QED
          BY <1>1, <3>2, <4>1, <5>1, Assumptions, AKP!HelperFacts
             DEF AKP!GetSecret, AKP!ReadSecret, AKP!WriteSecret
      <4>2. CASE AKP!DeleteOldSecret
        <5>1. akJob.obj \in AKP!Object /\ akJob.obj.status \in AKP!Status
          BY <1>1, <3>2, Assumptions, AKP!WorkerFacts
        <5>2. AKP!SecretDone(akJob.obj).status.id = akJob.obj.status.id
          BY <5>1 DEF AKP!SecretDone, AKP!Object, AKP!Status
        <5>3. AKP!SecretNotReady("Failed")
              \/ akJob' = [akJob EXCEPT !.pc = "UpdateStatus",
                                        !.obj = AKP!SecretDone(akJob.obj)]
          BY <4>2 DEF AKP!DeleteOldSecret
        <5> QED
          BY <1>1, <3>2, <5>2, <5>3, Assumptions, AKP!HelperFacts DEF AKP!Job
      <4> QED
        BY <2>5, <4>1, <4>2
    <3> QED
      BY <3>2, <3>3 DEF HasKey
  <2>6. CASE AKP!Get \/ AKP!AddFinalizer
    <3>1. ASSUME NEW o, NEW c, AKP!BeginReconcile(o, c)
          PROVE  HasKey'
      <4>1. /\ akJob'.obj = o
            /\ akJob'.pc \in {"UpdateStatus", "GetKey", "LookupKey"}
            /\ akJob'.pc = "UpdateStatus" => o.status.id # 0
        BY <1>1, <3>1 DEF AKP!BeginReconcile, AKP!UpToDate, AKP!NoID, AKP!Job
      <4> QED
        BY <4>1 DEF HasKey
    <3>2. ASSUME akJob'.pc \in {"idle", "DeleteKey", "LookupForDelete", "AddFinalizer"}
          PROVE  HasKey'
      BY <3>2 DEF HasKey
    <3>3. CASE AKP!Get
      <4> DEFINE o == AKP!cached(akJob.name)
                 c == AKP!fresh(akJob.name)
      <4>1. \/ AKP!BeginReconcile(o, c)
            \/ AKP!Return(FALSE)
            \/ AKP!Goto("AddFinalizer")
            \/ akJob' = [akJob EXCEPT !.obj = o, !.current = c, !.ext = o.status.id,
                           !.pc = IF o.status.id # AKP!NoID THEN "DeleteKey"
                                  ELSE "LookupForDelete"]
        BY <3>3 DEF AKP!Get
      <4> HIDE DEF o, c
      <4>2. AKP!Return(FALSE) => akJob'.pc = "idle"
        BY DEF AKP!Return, AKP!Idle
      <4>3. AKP!Goto("AddFinalizer") => akJob'.pc = "AddFinalizer"
        BY <1>1 DEF AKP!Goto, AKP!Job
      <4>4. ASSUME NEW p, NEW x,
                   akJob' = [akJob EXCEPT !.obj = o, !.current = c, !.ext = x,
                                          !.pc = p]
            PROVE  akJob'.pc = p
        BY <1>1, <4>4 DEF AKP!Job
      <4> QED
        BY <3>1, <3>2, <4>1, <4>2, <4>3, <4>4
    <3>4. CASE AKP!AddFinalizer
      <4> DEFINE v == [AKP!stored(akJob.name) EXCEPT !.finalizer = TRUE]
      <4>1. AKP!BeginReconcile(v, TRUE) \/ AKP!Return(TRUE)
        BY <3>4 DEF AKP!AddFinalizer
      <4>2. AKP!Return(TRUE) => akJob'.pc = "idle"
        BY DEF AKP!Return, AKP!Idle
      <4> HIDE DEF v
      <4> QED
        BY <3>1, <3>2, <4>1, <4>2
    <3> QED
      BY <2>6, <3>3, <3>4
  <2>7. CASE AKP!UpdateStatus \/ AKP!LookupForDelete \/ AKP!DeleteKey
             \/ AKP!RemoveFinalizer
    <3>1. \A again : AKP!Return(again) => akJob'.pc = "idle"
      BY DEF AKP!Return, AKP!Idle
    <3>2. AKP!Goto("RemoveFinalizer") => akJob'.pc = "RemoveFinalizer"
      BY <1>1 DEF AKP!Goto, AKP!Job
    <3>3. \A x : akJob' = [akJob EXCEPT !.ext = x, !.pc = "DeleteKey"]
                   => akJob'.pc = "DeleteKey"
      BY <1>1 DEF AKP!Job
    <3>4. akJob'.pc \in {"idle", "DeleteKey", "RemoveFinalizer"}
      BY <2>7, <3>1, <3>2, <3>3 DEF AKP!UpdateStatus, AKP!LookupForDelete,
         AKP!DeleteKey, AKP!RemoveFinalizer
    <3> QED
      BY <3>4 DEF HasKey
  <2> QED
    BY <2>1, <2>2, <2>3, <2>4, <2>5, <2>6, <2>7 DEF AKP!Step
<1>3. ASSUME akJob'.pc = akJob.pc, akJob'.obj = akJob.obj
      PROVE  HasKey'
  BY <1>3 DEF HasKey
<1>4. CASE KeyUser
  <2>1. akJob'.pc = akJob.pc /\ akJob'.obj = akJob.obj
    BY <1>1, <1>4, KeyWorld DEF KeyUser, AKP!User, AKP!UserCreates, AKP!UserEdits,
       AKP!UserDeletes, AKP!ObjectWritten, AKP!CollectGarbage, AKP!SecretChanged,
       AKP!Job
  <2> QED
    BY <1>3, <2>1
<1>5. CASE \E n \in KeyNames : DequeueKey(n) \/ KeyInformer(n)
  <2>1. akJob'.pc = "Get" \/ UNCHANGED akJob
    BY <1>5, KeyWorld DEF DequeueKey, KeyInformer, AKP!Dequeue, AKP!Informer, AKP!Idle
  <2> QED
    BY <1>3, <2>1 DEF HasKey
<1>6. CASE Restart
  BY <1>6 DEF Restart, AK!Idle, HasKey
<1>7. CASE UNCHANGED akOnly
  BY <1>3, <1>7 DEF akOnly
<1>8. \/ AccessKeyStep \/ KeyUser \/ Restart
      \/ \E n \in KeyNames : DequeueKey(n) \/ KeyInformer(n)
      \/ UNCHANGED akOnly
  BY DEF Next, vars, AccessPolicyStep, DequeuePolicy, PolicyInformer, PolicyUser
<1> QED
  BY <1>2, <1>4, <1>5, <1>6, <1>7, <1>8
\* A recorded ID stays recorded for the life of the AccessKey.
IDStays ==
  \A n \in KeyNames : \A h, i \in AKP!Index(n) :
    /\ h <= i /\ akLog[n][h] # NoObject /\ akLog[n][i] # NoObject
    /\ akLog[n][h].uid = akLog[n][i].uid
    /\ akLog[n][h].status.id # 0
    => akLog[n][i].status.id # 0

LEMMA DropsKeepIDs ==
  ASSUME AKP!TypeInv, IDStays, NEW d \in [KeyNames -> Nat], AKP!Dropped(d)
  PROVE  IDStays'
<1> SUFFICES ASSUME NEW n \in KeyNames, NEW h \in AKP!Index(n)',
                    NEW i \in AKP!Index(n)', h <= i,
                    akLog'[n][h] # NoObject, akLog'[n][i] # NoObject,
                    akLog'[n][h].uid = akLog'[n][i].uid,
                    akLog'[n][h].status.id # 0
             PROVE  akLog'[n][i].status.id # 0
  BY DEF IDStays
<1>1. /\ h + d[n] \in AKP!Index(n) /\ akLog'[n][h] = akLog[n][h + d[n]]
      /\ i + d[n] \in AKP!Index(n) /\ akLog'[n][i] = akLog[n][i + d[n]]
  BY DEF AKP!Dropped
<1>2. h + d[n] <= i + d[n]
  <2>1. h \in Int /\ i \in Int /\ d[n] \in Nat
    BY DEF AKP!Index
  <2> QED
    BY <2>1
<1> QED
  BY <1>1, <1>2 DEF IDStays

LEMMA WritesKeepIDs ==
  ASSUME AKP!Inv, IDStays, NEW n \in KeyNames, NEW v \in AKP!Version,
         KeyWritten(n, v)
  PROVE  IDStays'
<1>1. /\ AKP!TypeInv /\ akLog \in AKP!Log /\ AKP!Store(n, v)
      /\ NoObject \notin AKP!Object
  BY Assumptions, AKP!WorkerFacts DEF AKP!Inv, KeyWritten, AKP!NoObjectAssumption
<1>2. akLog' \in AKP!Log
  BY <1>1, Assumptions, AKP!StoreFacts
<1>3. \A m \in KeyNames : \A i \in AKP!Index(m)' :
        \/ i \in AKP!Index(m) /\ akLog'[m][i] = akLog[m][i]
        \/ /\ m = n /\ akLog'[m][i] = v
           /\ \A h \in AKP!Index(n) : h < i
  BY <1>1, <1>2, Assumptions, AKP!StoreView
<1>4. /\ AKP!Last(n) \in AKP!Index(n) /\ AKP!stored(n) = akLog[n][AKP!Last(n)]
      /\ \A m \in KeyNames : \A i \in AKP!Index(m) : i \in Nat
      /\ \A i \in AKP!Index(n) : i <= AKP!Last(n)
  BY <1>1, Assumptions, AKP!IndexFacts
<1> SUFFICES ASSUME NEW m \in KeyNames, NEW h \in AKP!Index(m)',
                    NEW i \in AKP!Index(m)', h <= i,
                    akLog'[m][h] # NoObject, akLog'[m][i] # NoObject,
                    akLog'[m][h].uid = akLog'[m][i].uid,
                    akLog'[m][h].status.id # 0
             PROVE  akLog'[m][i].status.id # 0
  BY DEF IDStays
<1>5. h \in Int /\ i \in Int
  BY DEF AKP!Index
<1>6. CASE i \in AKP!Index(m) /\ akLog'[m][i] = akLog[m][i]
  <2>1. h \in AKP!Index(m) /\ akLog'[m][h] = akLog[m][h]
    BY <1>3, <1>4, <1>5, <1>6
  <2> QED
    BY <1>6, <2>1 DEF IDStays
<1>7. CASE m = n /\ akLog'[m][i] = v
  <2>1. CASE akLog'[m][h] = v
    BY <1>7, <2>1
  <2>2. CASE h \in AKP!Index(m) /\ akLog'[m][h] = akLog[m][h]
    <3>1. CASE Continues(n, v)
      <4>1. AKP!stored(n).status.id # 0
        BY <1>4, <1>7, <2>2, <3>1 DEF IDStays, Continues
      <4> QED
        BY <1>7, <3>1, <4>1 DEF Continues
    <3>2. CASE Begins(n, v)
      <4>1. akLog[n][h].uid < nextUID /\ akLog[n][h].uid = nextUID
        BY <1>7, <2>2, <3>2 DEF Begins, AKP!Inv, AKP!LogInv, AKP!UIDsApart, AKP!Exists
      <4>2. nextUID \in Nat
        BY <1>1 DEF AKP!TypeInv, AKP!TypeOK
      <4> QED
        BY <4>1, <4>2
    <3>3. CASE Ends(n, v)
      BY <1>7, <3>3 DEF Ends
    <3> QED
      BY <3>1, <3>2, <3>3 DEF KeyWritten
  <2> QED
    BY <1>3, <2>1, <2>2
<1> QED
  BY <1>3, <1>6, <1>7

LEMMA IDStaysNext ==
  ASSUME AKP!Inv, HasKey, IDStays, [Next]_vars
  PROVE  IDStays'
<1>1. CASE UNCHANGED akLog
  BY <1>1 DEF IDStays, AKP!Index
<1> QED
  BY <1>1, KeyLog, DropsKeepIDs, WritesKeepIDs DEF AKP!Inv

-----------------------------------------------------------------------------
(* The key a policy's grant is on.                                          *)

\* AccessKey k has the live key id, and shows it in the cache and in every
\* event on its way.
KeyHolds(k, id) ==
  \A i \in AKP!Index(k) :
    /\ akLog[k][i] # NoObject /\ akLog[k][i].status.id = id
    /\ [id |-> id, uid |-> akLog[k][i].uid] \in keys

\* It does when the cached AccessKey has the ID of a live key.
LEMMA KeyIsHeld ==
  ASSUME AKP!Inv, IDStays, NEW k \in KeyNames, NEW x \in keys,
         AKP!cached(k) # NoObject, AKP!cached(k).status.id = x.id
  PROVE  KeyHolds(k, x.id)
<1> DEFINE o == AKP!cached(k)
<1>1. /\ AKP!TypeInv /\ akLog \in AKP!Log /\ x \in AKP!Key /\ x.id # 0
      /\ AKP!UIDsApart /\ AKP!Lifetimes /\ AKP!Recorded /\ AKP!KeyAccounted
  BY Assumptions, AKP!WorkerFacts DEF AKP!Inv, AKP!LogInv, AKP!EnvOK, AKP!IDsApart,
     AKP!NoID
<1>2. /\ 1 \in AKP!Index(k) /\ AKP!Last(k) \in AKP!Index(k)
      /\ AKP!stored(k) = akLog[k][AKP!Last(k)] /\ o = akLog[k][1]
      /\ \A i \in AKP!Index(k) : 1 <= i /\ i <= AKP!Last(k)
  BY <1>1, Assumptions, AKP!IndexFacts
<1>3. x.uid = o.uid
  BY <1>1, <1>2 DEF AKP!Recorded, AKP!Records, AKP!Exists, AKP!NoID
<1>4. AKP!stored(k) # NoObject /\ AKP!stored(k).uid = o.uid
  <2>1. PICK m \in KeyNames : /\ AKP!stored(m) # NoObject
                              /\ AKP!stored(m).uid = x.uid
    BY <1>1 DEF AKP!KeyAccounted
  <2>2. /\ AKP!Last(m) \in AKP!Index(m)
        /\ AKP!stored(m) = akLog[m][AKP!Last(m)]
    BY <1>1, Assumptions, AKP!IndexFacts
  <2>3. m = k
    BY <1>1, <1>2, <1>3, <2>1, <2>2 DEF AKP!UIDsApart, AKP!Exists
  <2> QED
    BY <1>3, <2>1, <2>3
<1> SUFFICES ASSUME NEW i \in AKP!Index(k)
             PROVE  /\ akLog[k][i] # NoObject /\ akLog[k][i].status.id = x.id
                    /\ [id |-> x.id, uid |-> akLog[k][i].uid] \in keys
  BY DEF KeyHolds
<1>5. akLog[k][i] # NoObject /\ akLog[k][i].uid = o.uid
  BY <1>1, <1>2, <1>4 DEF AKP!Lifetimes, AKP!Exists
<1>6. akLog[k][i].status.id # 0
  BY <1>1, <1>2, <1>5 DEF IDStays
<1>7. akLog[k][i].status.id = x.id
  BY <1>1, <1>3, <1>5, <1>6 DEF AKP!Recorded, AKP!Records, AKP!Exists, AKP!NoID
<1>8. [id |-> x.id, uid |-> akLog[k][i].uid] = x
  BY <1>1, <1>3, <1>5 DEF AKP!Key
<1> QED
  BY <1>5, <1>7, <1>8

\* And it goes on to as long as the key is in Garage.
LEMMA KeyHoldsStays ==
  ASSUME AKP!Inv, AKP!Inv', HasKey, [Next]_vars,
         NEW k \in KeyNames, NEW id, KeyHolds(k, id), \E x \in keys' : x.id = id
  PROVE  KeyHolds(k, id)'
<1>1. /\ AKP!TypeInv /\ akLog \in AKP!Log /\ AKP!IDsApart
      /\ keys \subseteq AKP!Key /\ nextKey \in Nat \ {0}
      /\ NoObject \notin AKP!Object
  BY Assumptions, AKP!WorkerFacts DEF AKP!Inv, AKP!LogInv, AKP!EnvOK,
     AKP!NoObjectAssumption
<1>2. /\ AKP!Last(k) \in AKP!Index(k) /\ AKP!stored(k) = akLog[k][AKP!Last(k)]
  BY <1>1, Assumptions, AKP!IndexFacts
<1> DEFINE u == AKP!stored(k).uid
<1>3. [id |-> id, uid |-> u] \in keys /\ AKP!stored(k) # NoObject
      /\ AKP!stored(k).status.id = id
  BY <1>2 DEF KeyHolds
<1>4. \A y \in keys : y.id = id => y = [id |-> id, uid |-> u]
  BY <1>3 DEF AKP!IDsApart, AKP!Inv, AKP!LogInv
<1>5. \A y \in keys' : y.id = id => y = [id |-> id, uid |-> u]
  <2>1. AKP!Next \/ UNCHANGED AKP!vars
    BY NextOfKeys
  <2>2. id < nextKey /\ id \in Nat
    BY <1>1, <1>3 DEF AKP!IDsApart, AKP!Key
  <2>3. CASE AKP!Next
    <3>1. \A y \in keys' : y \in keys \/ y.id = nextKey
      BY <1>1, <2>3, Assumptions, AKP!KeysGrow
    <3> QED
      BY <1>1, <1>4, <2>2, <3>1
  <2>4. CASE UNCHANGED AKP!vars
    BY <1>4, <2>4 DEF AKP!vars, AKP!garage
  <2> QED
    BY <2>1, <2>3, <2>4
<1>6. [id |-> id, uid |-> u] \in keys'
  BY <1>5
<1>7. \A i \in AKP!Index(k) : akLog[k][i].uid = u
  BY <1>4 DEF KeyHolds
<1>8. ASSUME \A i \in AKP!Index(k)' : \E j \in AKP!Index(k) : akLog'[k][i] = akLog[k][j]
      PROVE  KeyHolds(k, id)'
  BY <1>6, <1>7, <1>8 DEF KeyHolds
<1>9. CASE UNCHANGED akLog
  BY <1>8, <1>9 DEF AKP!Index
<1>10. CASE \E d \in [KeyNames -> Nat] : AKP!Dropped(d)
  BY <1>8, <1>10 DEF AKP!Dropped
<1>11. ASSUME NEW n \in KeyNames, NEW v \in AKP!Version, KeyWritten(n, v)
       PROVE  KeyHolds(k, id)'
  <2>1. AKP!Store(n, v) /\ akLog' \in AKP!Log
    BY <1>1, <1>11, Assumptions, AKP!StoreFacts DEF KeyWritten
  <2>2. \A i \in AKP!Index(k)' :
          \/ i \in AKP!Index(k) /\ akLog'[k][i] = akLog[k][i]
          \/ k = n /\ akLog'[k][i] = v
    BY <1>1, <2>1, Assumptions, AKP!StoreView
  <2>3. ASSUME NEW i \in AKP!Index(k)', k = n, akLog'[k][i] = v
        PROVE  v # NoObject /\ v.uid = u /\ v.status.id = id
    <3>1. ~Begins(n, v) /\ ~Ends(n, v)
      BY <1>3, <2>3 DEF Begins, Ends, AKP!KeysOf
    <3>2. Continues(n, v)
      BY <1>11, <3>1 DEF KeyWritten
    <3>3. v # NoObject /\ v.uid = u
      BY <1>1, <2>3, <3>2 DEF Continues
    <3>4. CASE v.status.id # 0
      <4>1. \A y \in keys' : y.uid = v.uid <=> y.id = v.status.id
        BY <2>3, <3>3, <3>4 DEF AKP!Inv, AKP!LogInv, AKP!Recorded, AKP!Records,
           AKP!Exists, AKP!NoID
      <4> QED
        BY <1>6, <3>3, <4>1
    <3> QED
      BY <1>3, <2>3, <3>2, <3>3, <3>4 DEF Continues
  <2> QED
    BY <1>6, <1>7, <2>2, <2>3 DEF KeyHolds
<1> QED
  BY <1>9, <1>10, <1>11, KeyLog
\* The key a policy or its worker has recorded, and every key with a grant, is
\* the one of the policy's AccessKey as long as it lives.
HoldsIfLive(n, id) ==
  id < nextKey /\ \A x \in keys : x.id = id => KeyHolds(KeyOf[n], x.id)

RecordsHeld ==
  /\ \A n \in PolicyNames : \A i \in APP!Index(n) :
       apLog[n][i] \in APP!Object => HoldsIfLive(n, apLog[n][i].status.keyID)
  /\ apJob.pc \in APP!Path => HoldsIfLive(apJob.name, APP!JobKey)

GrantsHeld ==
  \A g \in grants : \E n \in PolicyNames :
    APP!stored(n) # NoObject /\ KeyHolds(KeyOf[n], g.key)

GrantInv == PoliciesStay /\ HasKey /\ IDStays /\ RecordsHeld /\ GrantsHeld

LEMMA KeysNumbered ==
  ASSUME AKP!Inv, [Next]_vars, NEW id \in Nat, id < nextKey
  PROVE  /\ id < nextKey'
         /\ \A x \in keys' : x.id = id => x \in keys
<1>1. AKP!TypeInv /\ nextKey \in Nat
  BY DEF AKP!Inv, AKP!TypeInv, AKP!TypeOK
<1>2. AKP!Next \/ UNCHANGED AKP!vars
  BY NextOfKeys
<1>3. CASE AKP!Next
  <2>1. /\ nextKey' \in {nextKey, nextKey + 1}
        /\ \A x \in keys' : x \in keys \/ x.id = nextKey
    BY <1>1, <1>3, Assumptions, AKP!KeysGrow
  <2> QED
    BY <1>1, <2>1
<1>4. CASE UNCHANGED AKP!vars
  BY <1>4 DEF AKP!vars, AKP!garage
<1> QED
  BY <1>2, <1>3, <1>4

LEMMA HoldsIfLiveStays ==
  ASSUME AKP!Inv, AKP!Inv', HasKey, [Next]_vars,
         NEW n \in PolicyNames, NEW id \in Nat, HoldsIfLive(n, id)
  PROVE  HoldsIfLive(n, id)'
<1>1. id < nextKey' /\ \A x \in keys' : x.id = id => x \in keys
  BY KeysNumbered DEF HoldsIfLive
<1>2. PICK k \in KeyNames : k = KeyOf[n]
  BY ConstantsAssumption DEF ConstantsAssumption
<1>3. ASSUME NEW x \in keys', x.id = id
      PROVE  KeyHolds(k, x.id)'
  <2>1. KeyHolds(k, id)
    BY <1>1, <1>2, <1>3 DEF HoldsIfLive
  <2>2. KeyHolds(k, id)'
    BY <1>3, <2>1, KeyHoldsStays
  <2> QED
    BY <1>3, <2>2 DEF KeyHolds, AKP!Index
<1> QED
  BY <1>1, <1>2, <1>3 DEF HoldsIfLive, KeyHolds, AKP!Index

\* What the cached AccessKey shows is held, and no key has the ID 0.
LEMMA SeenHolds ==
  ASSUME AKP!Inv, IDStays, NEW n \in PolicyNames
  PROVE  /\ HoldsIfLive(n, 0)
         /\ HoldsIfLive(n, KeyView(KeyOf[n]).id)
<1>1. /\ nextKey \in Nat \ {0} /\ \A x \in keys : x.id # 0
  BY DEF AKP!Inv, AKP!TypeInv, AKP!TypeOK, AKP!LogInv, AKP!IDsApart, AKP!NoID
<1>2. HoldsIfLive(n, 0)
  BY <1>1 DEF HoldsIfLive
<1>3. PICK k \in KeyNames : k = KeyOf[n]
  BY ConstantsAssumption DEF ConstantsAssumption
<1>4. CASE AK!cached(k) = NoObject
  BY <1>2, <1>3, <1>4 DEF KeyView
<1>5. CASE AK!cached(k) # NoObject
  <2>1. AKP!cached(k) # NoObject /\ AKP!cached(k).status.id = KeyView(k).id
    BY <1>5, KeyLogs DEF KeyView
  <2>2. 1 \in AKP!Index(k) /\ AKP!cached(k) = akLog[k][1]
    BY Assumptions, AKP!WorkerFacts, AKP!IndexFacts DEF AKP!Inv
  <2>3. KeyView(k).id < nextKey
    <3>1. KeyView(k).id # 0 => KeyView(k).id < nextKey
      BY <2>1, <2>2 DEF AKP!Inv, AKP!LogInv, AKP!Recorded, AKP!Records,
         AKP!Exists, AKP!NoID
    <3> QED
      BY <1>1, <3>1
  <2>4. \A x \in keys : x.id = KeyView(k).id => KeyHolds(k, x.id)
    BY <2>1, KeyIsHeld
  <2> QED
    BY <1>2, <1>3, <2>3, <2>4 DEF HoldsIfLive
<1> QED
  BY <1>2, <1>4, <1>5

\* Where the worker of the policies does not step, its copy stays or goes.
LEMMA WorkerWaits ==
  ASSUME APP!Inv, [Next]_vars, ~AccessPolicyStep, apJob'.pc \in APP!Path
  PROVE  /\ apJob'.pc = apJob.pc /\ apJob'.name = apJob.name
         /\ apJob'.obj = apJob.obj /\ apJob'.failed = apJob.failed
<1>1. apJob \in APP!Job
  BY DEF APP!Inv, APP!TypeInv, APP!JobOK
<1>2. CASE KeySide
  BY <1>2, KeySideMoves DEF KeysMove
<1>3. ~Restart
  BY DEF Restart, AP!Idle, APP!Path, APP!ApplyPath
<1>4. CASE PolicyUser
  BY <1>1, <1>4, PolicyWorld DEF PolicyUser, APP!UserCreates, APP!UserWrites, APP!Job
<1>5. CASE \E n \in PolicyNames : DequeuePolicy(n) \/ PolicyInformer(n)
  <2>1. apJob'.pc = "Get" \/ UNCHANGED apJob
    BY <1>5, PolicyWorld DEF DequeuePolicy, PolicyInformer, APP!Dequeue,
       APP!Informer, APP!Idle
  <2> QED
    BY <2>1 DEF APP!Path, APP!ApplyPath
<1>6. CASE UNCHANGED vars
  BY <1>6 DEF vars, apOnly
<1> QED
  BY <1>2, <1>3, <1>4, <1>5, <1>6, Sides DEF PolicySide

\* A policy's AccessKey had the key when it was recorded, and does not get
\* another one before that key is gone from Garage.
LEMMA RecordsHeldNext ==
  ASSUME AKP!Inv, AKP!Inv', PolicyInv, GrantInv, [Next]_vars
  PROVE  RecordsHeld'
<1>1. /\ APP!Inv /\ APP!TypeInv /\ apLog \in APP!Logs(APP!Version)
      /\ apJob.pc # "idle" => apJob.name \in PolicyNames
      /\ NoObject \notin APP!Object /\ RecordsHeld
  BY Assumptions DEF PolicyInv, APP!Inv, APP!TypeInv, APP!JobOK, GrantInv,
     APP!NoObjectAssumption
<1>2. ASSUME NEW n \in PolicyNames, NEW id \in Nat, HoldsIfLive(n, id)
      PROVE  HoldsIfLive(n, id)'
  BY <1>2, HoldsIfLiveStays DEF GrantInv
<1>3. \A o \in APP!Object : o.status.keyID \in Nat
  BY DEF APP!Object, APP!Status
<1>4. \A n \in PolicyNames : \A j \in APP!Index(n) :
        apLog[n][j] \in APP!Object => HoldsIfLive(n, apLog[n][j].status.keyID)
  BY <1>1 DEF RecordsHeld
<1>5. \A n \in PolicyNames :
        /\ APP!stored(n) \in APP!Object => HoldsIfLive(n, APP!stored(n).status.keyID)
        /\ APP!cached(n) \in APP!Object => HoldsIfLive(n, APP!cached(n).status.keyID)
  BY <1>1, <1>4, Assumptions, APP!KubeLog DEF APP!stored, APP!cached
<1>6. \A n \in PolicyNames : HoldsIfLive(n, 0) /\ HoldsIfLive(n, KeyView(KeyOf[n]).id)
  BY SeenHolds DEF GrantInv
<1>7. ASSUME NEW n \in PolicyNames, NEW i \in APP!Index(n)',
             apLog'[n][i] \in APP!Object
      PROVE  HoldsIfLive(n, apLog'[n][i].status.keyID)
  <2>1. UNCHANGED apLog => APP!Index(n)' = APP!Index(n)
    BY DEF APP!Index
  <2>2. CASE UNCHANGED apLog
    BY <1>4, <1>7, <2>1, <2>2
  <2>3. CASE PolicySide
    <3>1. APP!Next
      BY <2>3, PolicySideMoves
    <3>2. \/ \E j \in APP!Index(n) :
               apLog[n][j] \in APP!Object /\ apLog'[n][i] = apLog[n][j]
          \/ /\ APP!stored(n) \in APP!Object
             /\ apLog'[n][i].status.keyID = APP!stored(n).status.keyID
          \/ /\ n = apJob.name /\ apJob.pc \in APP!Path
             /\ apLog'[n][i].status.keyID = APP!JobKey
          \/ apLog'[n][i].status.keyID = 0
      BY <1>1, <1>7, <3>1, Assumptions, APP!NewVersions DEF APP!NoID
    <3> QED
      BY <1>1, <1>4, <1>5, <1>6, <3>2 DEF RecordsHeld
  <2>4. CASE Restart
    <3>1. Len(apLog'[n]) = 1 /\ apLog'[n][1] = APP!stored(n)
      BY <1>1, <2>4, PolicyWorld, Assumptions, APP!KubeRelist DEF Restart
    <3>2. i = 1
      BY <3>1 DEF APP!Index
    <3> QED
      BY <1>5, <1>7, <3>1, <3>2
  <2>5. KeySide => UNCHANGED apLog
    BY <1>1, KeySideMoves DEF KeysMove
  <2>6. UNCHANGED vars => UNCHANGED apLog
    BY DEF vars, apOnly
  <2> QED
    BY <2>2, <2>3, <2>4, <2>5, <2>6, Sides
<1>8. ASSUME apJob'.pc \in APP!Path
      PROVE  /\ apJob'.name \in PolicyNames /\ APP!JobKey' \in Nat
             /\ HoldsIfLive(apJob'.name, APP!JobKey')
  <2>1. CASE AccessPolicyStep
    <3>1. APP!Step
      BY <2>1, PolicyStep DEF AccessPolicyStep
    <3>2. /\ apJob'.name = apJob.name
          /\ \/ apJob.pc \in APP!Path /\ APP!JobKey' = APP!JobKey
             \/ APP!JobKey' = 0
             \/ APP!JobKey' = APP!KeyOfPolicy(apJob.name).id
             \/ /\ APP!cached(apJob.name) \in APP!Object
                /\ APP!JobKey' = APP!cached(apJob.name).status.keyID
      BY <1>1, <1>8, <3>1, Assumptions, APP!JobKeyFacts DEF APP!NoID
    <3>3. PICK n \in PolicyNames : n = apJob.name
      BY <1>1, <3>1, Assumptions, APP!StepName
    <3>4. APP!KeyOfPolicy(n) = KeyView(KeyOf[n])
      BY ConstantsAssumption DEF APP!KeyOfPolicy, ConstantsAssumption
    <3>5. HoldsIfLive(n, APP!JobKey')
      BY <1>1, <1>5, <1>6, <3>2, <3>3, <3>4 DEF RecordsHeld
    <3>6. APP!JobKey' \in Nat
      <4>1. APP!Inv'
        BY <1>1, <3>1, Assumptions, APP!InvNext DEF APP!Next
      <4> QED
        BY <1>8, <4>1 DEF APP!Inv, APP!TypeInv, APP!JobOK, APP!Path, APP!ApplyPath,
           APP!JobKey, APP!Object, APP!Status
    <3> QED
      BY <3>2, <3>3, <3>5, <3>6
  <2>2. CASE ~AccessPolicyStep
    <3>1. /\ apJob'.pc = apJob.pc /\ apJob'.name = apJob.name
          /\ apJob'.obj = apJob.obj
      BY <1>1, <1>8, <2>2, WorkerWaits
    <3>2. apJob.name \in PolicyNames /\ apJob.obj \in APP!Object
      BY <1>1, <1>8, <3>1 DEF APP!TypeInv, APP!JobOK, APP!Path, APP!ApplyPath
    <3> QED
      BY <1>1, <1>3, <1>8, <3>1, <3>2 DEF RecordsHeld, APP!JobKey
  <2> QED
    BY <2>1, <2>2
<1>9. \A n \in PolicyNames : \A i \in APP!Index(n)' :
        apLog'[n][i] \in APP!Object => HoldsIfLive(n, apLog[n][i].status.keyID)'
  <2> SUFFICES ASSUME NEW n \in PolicyNames, NEW i \in APP!Index(n)',
                      apLog'[n][i] \in APP!Object
               PROVE  HoldsIfLive(n, apLog[n][i].status.keyID)'
    OBVIOUS
  <2>1. PICK id \in Nat : id = apLog'[n][i].status.keyID
    BY <1>3
  <2>2. HoldsIfLive(n, id)'
    BY <1>2, <1>7, <2>1
  <2> QED
    BY <2>1, <2>2 DEF HoldsIfLive
<1>10. apJob'.pc \in APP!Path => HoldsIfLive(apJob.name, APP!JobKey)'
  <2> SUFFICES ASSUME apJob'.pc \in APP!Path
               PROVE  HoldsIfLive(apJob.name, APP!JobKey)'
    OBVIOUS
  <2>1. PICK n \in PolicyNames, id \in Nat : n = apJob'.name /\ id = APP!JobKey'
    BY <1>8
  <2>2. HoldsIfLive(n, id)'
    BY <1>2, <1>8, <2>1
  <2> QED
    BY <2>1, <2>2 DEF HoldsIfLive, KeyHolds, AKP!Index
<1> QED
  BY <1>9, <1>10 DEF RecordsHeld

\* Only the worker of the policies adds a grant, on the key it has.
LEMMA GrantsHeldNext ==
  ASSUME AKP!Inv, AKP!Inv', PolicyInv, PolicyInv', GrantInv, [Next]_vars
  PROVE  GrantsHeld'
<1> SUFFICES ASSUME NEW g \in grants'
             PROVE  \E n \in PolicyNames :
                      APP!stored(n)' # NoObject /\ KeyHolds(KeyOf[n], g.key)'
  BY DEF GrantsHeld
<1>1. APP!Inv /\ APP!TypeInv
  BY DEF PolicyInv, APP!Inv
<1>2. \E n \in PolicyNames : APP!stored(n) # NoObject /\ KeyHolds(KeyOf[n], g.key)
  <2>1. CASE g \in grants
    BY <2>1 DEF GrantInv, GrantsHeld
  <2>2. CASE g \notin grants
    <3>1. APP!Step /\ ~(grants' \subseteq grants)
      <4>1. KeySide => grants' \subseteq grants
        BY <1>1, KeySideMoves DEF KeysMove
      <4>2. ASSUME PolicyUser \/ \E n \in PolicyNames : DequeuePolicy(n) \/ PolicyInformer(n)
            PROVE  UNCHANGED grants
        BY <4>2, PolicyWorld DEF PolicyUser, DequeuePolicy, PolicyInformer,
           APP!UserCreates, APP!UserWrites, APP!Dequeue, APP!Informer, APP!garage
      <4> QED
        BY <2>2, <4>1, <4>2, PolicyStep, Sides
           DEF PolicySide, AccessPolicyStep, Restart, vars
    <3>2. /\ apJob.pc = "Allow"
          /\ grants' = APP!With(APP!JobKey, APP!JobBucket, apJob.obj.perms)
      BY <1>1, <3>1, Assumptions, APP!StepNarrows
    <3>3. g.key = APP!JobKey /\ apJob.pc \in APP!Path
      BY <2>2, <3>2 DEF APP!With, APP!Path, APP!ApplyPath
    <3>4. PICK n \in PolicyNames : n = apJob.name
      BY <1>1, <3>2 DEF APP!TypeInv, APP!JobOK
    <3>5. UNCHANGED keys
      BY <2>2, Sides, PolicySideMoves, KeySideMoves, <1>1
         DEF KeysMove, akOnly, Restart, vars
    <3>6. PICK x \in keys : x.id = g.key
      BY <3>5 DEF PolicyInv, APP!Inv, APP!GrantsLive
    <3>7. KeyHolds(KeyOf[n], g.key)
      BY <3>3, <3>4, <3>6 DEF GrantInv, RecordsHeld, HoldsIfLive
    <3>8. APP!stored(n) # NoObject
      BY <3>3, <3>4 DEF GrantInv, PoliciesStay, WorkerStays
    <3> QED
      BY <3>7, <3>8
  <2> QED
    BY <2>1, <2>2
<1>3. PICK n \in PolicyNames : APP!stored(n) # NoObject /\ KeyHolds(KeyOf[n], g.key)
  BY <1>2
<1>4. \E x \in keys' : x.id = g.key
  BY DEF PolicyInv, APP!Inv, APP!GrantsLive
<1>5. KeyHolds(KeyOf[n], g.key)'
  BY <1>3, <1>4, KeyHoldsStays, ConstantsAssumption DEF GrantInv, ConstantsAssumption
<1> QED
  BY <1>3, <1>5, VersionsStayNext DEF GrantInv

LEMMA GrantNext ==
  ASSUME AKP!Inv, AKP!Inv', PolicyInv, PolicyInv', GrantInv, [Next]_vars
  PROVE  GrantInv'
BY StaysNext, HasKeyNext, IDStaysNext, RecordsHeldNext, GrantsHeldNext DEF GrantInv

LEMMA GrantInit == Init => GrantInv
<1> SUFFICES ASSUME Init PROVE GrantInv
  OBVIOUS
<1>1. /\ grants = {}
      /\ \A k \in KeyNames : akLog[k] = <<NoObject>>
      /\ \A n \in PolicyNames : apLog[n] = <<NoObject>>
  BY DEF Init, AK!Init, AK!KubeInit
<1>2. apJob.pc = "idle" /\ akJob.pc = "idle"
  BY DEF Init, AK!Init, AK!Idle, AP!Idle
<1>3. IDStays
  <2>1. \A k \in KeyNames : \A h \in AKP!Index(k) : akLog[k][h] = NoObject
    BY <1>1 DEF AKP!Index
  <2> QED
    BY <2>1 DEF IDStays
<1>4. VersionsStay
  <2>1. \A n \in PolicyNames : \A h \in APP!Index(n) : apLog[n][h] = NoObject
    BY <1>1 DEF APP!Index
  <2> QED
    BY <2>1 DEF VersionsStay
<1>5. \A n \in PolicyNames : \A h \in APP!Index(n) : apLog[n][h] \notin APP!Object
  <2>1. \A n \in PolicyNames : \A h \in APP!Index(n) : apLog[n][h] = NoObject
    BY <1>1 DEF APP!Index
  <2> QED
    BY <2>1, Assumptions DEF APP!NoObjectAssumption
<1> QED
  BY <1>1, <1>2, <1>3, <1>4, <1>5 DEF GrantInv, PoliciesStay, WorkerStays, HasKey,
     RecordsHeld, GrantsHeld, APP!Path, APP!ApplyPath

\* A policy that rests has recorded the ID its AccessKey shows.
LEMMA HeldFollow ==
  ASSUME AKP!Inv, PolicyInv, GrantInv
  PROVE  GrantsFollowKey
<1> SUFFICES ASSUME NEW g \in grants
             PROVE  \E n \in PolicyNames :
                      /\ AP!stored(n) # NoObject
                      /\ KeyObject(n) # NoObject
                      /\ [id |-> g.key, uid |-> KeyObject(n).uid] \in keys
                      /\ AP!stored(n).status.keyID = g.key \/ AP!Pending(n)
  BY DEF GrantsFollowKey
<1>1. PICK n \in PolicyNames : APP!stored(n) # NoObject /\ KeyHolds(KeyOf[n], g.key)
  BY DEF GrantInv, GrantsHeld
<1>2. PICK k \in KeyNames : k = KeyOf[n]
  BY ConstantsAssumption DEF ConstantsAssumption
<1>3. /\ 1 \in AKP!Index(k) /\ AKP!Last(k) \in AKP!Index(k)
      /\ AKP!stored(k) = akLog[k][AKP!Last(k)] /\ AKP!cached(k) = akLog[k][1]
  BY Assumptions, AKP!WorkerFacts, AKP!IndexFacts DEF AKP!Inv
<1>4. /\ KeyObject(n) # NoObject
      /\ [id |-> g.key, uid |-> KeyObject(n).uid] \in keys
  BY <1>1, <1>2, <1>3, KeyLogs DEF KeyHolds, KeyObject
<1>5. KeyView(k).exists /\ KeyView(k).id = g.key
  BY <1>1, <1>2, <1>3, KeyLogs DEF KeyHolds, KeyView
<1>6. ASSUME ~APP!Pending(n)
      PROVE  APP!stored(n).status.keyID = g.key
  <2>1. APP!Quiet(n) /\ apJob.name # n
    BY <1>6 DEF APP!Pending, APP!Quiet
  <2>2. ~APP!stored(n).deleting
    <3>1. /\ apLog \in APP!Logs(APP!Version)
      BY DEF PolicyInv, APP!Inv, APP!TypeInv
    <3>2. Len(apLog[n]) \in APP!Index(n)
      BY <3>1, Assumptions, APP!KubeLog
    <3> QED
      BY <1>1, <3>2 DEF GrantInv, PoliciesStay, VersionsStay, APP!stored
  <2>3. APP!Rests(n)
    BY <1>1, <2>1, <2>2 DEF APP!Rests, APP!Stays
  <2>4. APP!AgreesWithKey(APP!stored(n).status, APP!KeyOfPolicy(n))
    BY <2>3 DEF PolicyInv, APP!EventInv, APP!Settled
  <2>5. APP!KeyOfPolicy(n) = KeyView(k)
    BY <1>2 DEF APP!KeyOfPolicy
  <2> QED
    BY <1>5, <2>4, <2>5 DEF APP!AgreesWithKey
<1> QED
  BY <1>1, <1>4, <1>6, KeyLogs, PolicyWorld

\* No permission is left in Garage on a key that is not the one of its
\* policy's AccessKey: whatever steps of the two controllers interleave with
\* deletions, new AccessKeys of the same name and restarts, every grant is on
\* a live key of a policy's AccessKey, and is recorded by the policy or the
\* policy's reconcile is still to come.
THEOREM GrantsStayWithTheKey == Spec => []GrantsFollowKey
<1>1. AKP!Inv /\ AKP!Inv' /\ PolicyInv /\ PolicyInv' /\ GrantInv /\ [Next]_vars
      => GrantInv'
  BY GrantNext
<1>2. AKP!Inv /\ PolicyInv /\ GrantInv => GrantsFollowKey
  BY HeldFollow
<1> QED
  BY <1>1, <1>2, GrantInit, KeyInvariant, PoliciesMissNothing, PTL DEF Spec-----------------------------------------------------------------------------
(* Ready means usable.                                                      *)

\* Two AccessKeys do not have one key, so that policies which recorded the
\* same live key are policies for the same AccessKey.
LEMMA HeldByOne ==
  ASSUME AKP!Inv, NEW m \in PolicyNames, NEW n \in PolicyNames, NEW x \in keys,
         HoldsIfLive(m, x.id), HoldsIfLive(n, x.id)
  PROVE  KeyOf[m] = KeyOf[n]
<1>1. PICK k \in KeyNames, l \in KeyNames : k = KeyOf[m] /\ l = KeyOf[n]
  BY ConstantsAssumption DEF ConstantsAssumption
<1>2. /\ 1 \in AKP!Index(k) /\ 1 \in AKP!Index(l)
      /\ AKP!IDsApart /\ AKP!UIDsApart
  BY Assumptions, AKP!WorkerFacts, AKP!IndexFacts DEF AKP!Inv, AKP!LogInv
<1>3. /\ KeyHolds(k, x.id) /\ KeyHolds(l, x.id)
  BY <1>1 DEF HoldsIfLive
<1>4. /\ akLog[k][1] # NoObject /\ akLog[l][1] # NoObject
      /\ [id |-> x.id, uid |-> akLog[k][1].uid] \in keys
      /\ [id |-> x.id, uid |-> akLog[l][1].uid] \in keys
  BY <1>2, <1>3 DEF KeyHolds
<1>5. akLog[k][1].uid = akLog[l][1].uid
  <2>1. \A y, z \in keys : y.id = z.id => y = z
    BY <1>2 DEF AKP!IDsApart
  <2>2. [id |-> x.id, uid |-> akLog[k][1].uid] = [id |-> x.id, uid |-> akLog[l][1].uid]
    BY <1>4, <2>1
  <2>3. [id |-> x.id, uid |-> akLog[k][1].uid].uid = [id |-> x.id, uid |-> akLog[l][1].uid].uid
    BY <2>2
  <2> QED
    BY <2>3
<1> QED
  BY <1>1, <1>2, <1>4, <1>5 DEF AKP!UIDsApart, AKP!Exists

LEMMA PoliciesApart ==
  ASSUME AKP!Inv, PolicyInv, GrantInv, APP!NoSharedPair
  PROVE  APP!PairsApart
<1> SUFFICES ASSUME apJob.pc \in APP!Path, NEW n \in PolicyNames, n # apJob.name,
                    APP!Rests(n), APP!Ready(APP!stored(n).status),
                    NEW x \in keys, APP!stored(n).status.keyID = x.id,
                    APP!stored(n).status.keyID = APP!JobKey,
                    APP!stored(n).status.bucketID = APP!JobBucket,
                    APP!stored(n).status.bucketID # APP!NoID
             PROVE  FALSE
  BY DEF APP!PairsApart
<1>1. /\ APP!stored(n) # NoObject /\ APP!Settled(n) /\ APP!DepsWellFormed
      /\ apLog \in APP!Logs(APP!Version)
  BY DEF PolicyInv, APP!Inv, APP!TypeInv, APP!EventInv, APP!Rests, APP!Stays
<1>2. HoldsIfLive(n, x.id)
  <2>1. /\ Len(apLog[n]) \in APP!Index(n)
        /\ APP!stored(n) = apLog[n][Len(apLog[n])] /\ APP!stored(n) \in APP!Object
    BY <1>1, Assumptions, APP!KubeLog DEF APP!stored, APP!Version
  <2> QED
    BY <2>1 DEF GrantInv, RecordsHeld
<1>3. PICK m \in PolicyNames : m = apJob.name
  BY DEF PolicyInv, APP!Inv, APP!TypeInv, APP!JobOK, APP!Path, APP!ApplyPath
<1>4. HoldsIfLive(m, x.id)
  BY <1>3 DEF GrantInv, RecordsHeld
<1>5. KeyOf[n] = KeyOf[m]
  BY <1>2, <1>4, HeldByOne
<1>6. BucketOf[n] \in BucketNames
  BY ConstantsAssumption DEF ConstantsAssumption
<1>7. APP!BucketOfPolicy(n).exists
  BY <1>1, <1>6 DEF APP!Settled, APP!AgreesWithBucket, APP!Ready,
     APP!DepsWellFormed, APP!WellFormed, APP!BucketOfPolicy
<1>8. APP!BucketOfPolicy(n).id = APP!JobBucket
  BY <1>1, <1>7 DEF APP!Settled, APP!AgreesWithBucket
<1> QED
  BY <1>3, <1>5, <1>8 DEF APP!NoSharedPair

LEMMA RecordsHandedOut == RecordsHeld => APP!HandedOut
BY DEF RecordsHeld, HoldsIfLive, APP!HandedOut

\* A key leaves Garage with its grants, and the other keys keep theirs.
LEMMA KeySideGrants ==
  ASSUME AKP!Inv, PolicyInv, KeySide, NEW id \in Nat, id < nextKey,
         \E x \in keys' : x.id = id
  PROVE  /\ \E x \in keys : x.id = id
         /\ \A b : APP!Granted(id, b)' = APP!Granted(id, b)
<1>1. \E x \in keys : x.id = id
  BY KeysNumbered, Sides
<1>2. \A g \in grants : g.key = id => g \in grants'
  BY DEF KeySide, AccessKeyStep, DropGrants, KeyUser, DequeueKey, KeyInformer
<1>3. grants' \subseteq grants
  BY KeySideMoves DEF PolicyInv, KeysMove
<1>4. \A b : APP!Granted(id, b)' = APP!Granted(id, b)
  BY <1>2, <1>3 DEF APP!Granted
<1> QED
  BY <1>1, <1>4

\* A policy that rests, and a worker at its patch, keep the permissions they
\* found exact while the AccessKeys change.
LEMMA KeySideExact ==
  ASSUME AKP!Inv, PolicyInv, GrantInv, KeySide, APP!ExactInv
  PROVE  APP!ExactInv'
<1>1. /\ APP!HandedOut /\ UNCHANGED <<apLog, apJob>> /\ apQueue \subseteq apQueue'
  BY KeySideMoves, RecordsHandedOut DEF PolicyInv, GrantInv, KeysMove
<1>2. apLog \in APP!Logs(APP!Version)
  BY DEF PolicyInv, APP!Inv, APP!TypeInv
<1>3. ASSUME NEW st, NEW perms, st.keyID \in Nat, st.keyID < nextKey,
             APP!Exact(st, perms)
      PROVE  APP!Exact(st, perms)'
  <2> SUFFICES ASSUME APP!Ready(st), NEW x \in keys', x.id = st.keyID
               PROVE  APP!Granted(st.keyID, st.bucketID)' = perms
    BY DEF APP!Exact, APP!Ready
  <2>1. PICK id \in Nat : id = st.keyID
    BY <1>3
  <2>2. /\ \E y \in keys : y.id = id
        /\ \A b : APP!Granted(id, b)' = APP!Granted(id, b)
    BY <1>3, <2>1, KeySideGrants
  <2>3. APP!Granted(st.keyID, st.bucketID) = perms
    BY <1>3, <2>1, <2>2 DEF APP!Exact
  <2> QED
    BY <2>1, <2>2, <2>3 DEF APP!Granted
<1>4. APP!NotReadyYet'
  BY <1>1 DEF APP!ExactInv, APP!NotReadyYet
<1>5. APP!JobExact'
  <2> SUFFICES ASSUME apJob.pc = "PatchStatus"
               PROVE  APP!JobExact'
    BY <1>1 DEF APP!JobExact
  <2>1. /\ apJob.obj.status.keyID \in Nat /\ apJob.obj.status.keyID < nextKey
        /\ APP!Exact(apJob.obj.status, apJob.obj.perms)
    BY <1>1 DEF APP!HandedOut, APP!JobKey, APP!Path, APP!ApplyPath, APP!ExactInv,
       APP!JobExact, PolicyInv, APP!Inv, APP!TypeInv, APP!JobOK, APP!Object, APP!Status
  <2>2. PICK st, perms : st = apJob.obj.status /\ perms = apJob.obj.perms
    OBVIOUS
  <2>3. APP!Exact(st, perms)'
    BY <1>3, <2>1, <2>2
  <2> QED
    BY <1>1, <2>2, <2>3 DEF APP!JobExact, APP!Exact, APP!Granted, APP!Ready
<1>6. APP!SettledExact'
  <2> SUFFICES ASSUME NEW n \in PolicyNames, APP!Rests(n)'
               PROVE  APP!Exact(APP!stored(n).status, APP!stored(n).perms)'
    BY DEF APP!SettledExact
  <2>1. APP!Rests(n)
    BY <1>1 DEF APP!Rests, APP!Stays, APP!Quiet, APP!stored, APP!fresh
  <2>2. /\ Len(apLog[n]) \in APP!Index(n)
        /\ APP!stored(n) = apLog[n][Len(apLog[n])] /\ APP!stored(n) \in APP!Object
    BY <1>2, <2>1, Assumptions, APP!KubeLog
       DEF APP!stored, APP!Version, APP!Rests, APP!Stays
  <2>3. /\ APP!stored(n).status.keyID \in Nat /\ APP!stored(n).status.keyID < nextKey
        /\ APP!Exact(APP!stored(n).status, APP!stored(n).perms)
    BY <1>1, <2>1, <2>2 DEF APP!HandedOut, APP!ExactInv, APP!SettledExact,
       APP!Object, APP!Status
  <2>4. PICK st, perms : st = APP!stored(n).status /\ perms = APP!stored(n).perms
    OBVIOUS
  <2>5. APP!Exact(st, perms)'
    BY <1>3, <2>3, <2>4
  <2>6. APP!stored(n)' = APP!stored(n)
    BY <1>1 DEF APP!stored
  <2> QED
    BY <2>4, <2>5, <2>6 DEF APP!Exact, APP!Granted, APP!Ready
<1> QED
  BY <1>4, <1>5, <1>6 DEF APP!ExactInv

\* After a restart no policy rests before it was read again.
LEMMA RestartExact ==
  ASSUME PolicyInv, Restart
  PROVE  APP!ExactInv'
<1>1. APP!Relist /\ apJob'.pc = "idle"
  BY PolicyWorld DEF Restart, AP!Idle
<1>2. /\ apQueue' = {n \in PolicyNames : APP!stored(n) # NoObject}
      /\ \A n \in PolicyNames : APP!stored(n)' = APP!stored(n)
  BY <1>1, Assumptions, APP!KubeRelist DEF PolicyInv, APP!Inv, APP!TypeInv
<1>3. \A n \in PolicyNames : ~APP!Rests(n)'
  BY <1>2 DEF APP!Rests, APP!Stays, APP!Quiet
<1> QED
  BY <1>1, <1>3 DEF APP!ExactInv, APP!NotReadyYet, APP!JobExact, APP!SettledExact

LEMMA PolicyExactNext ==
  ASSUME AKP!Inv, PolicyInv, GrantInv, APP!NoSharedPair, APP!ExactInv, [Next]_vars
  PROVE  APP!ExactInv'
<1>1. CASE PolicySide \/ UNCHANGED vars
  <2>1. APP!Next \/ UNCHANGED APP!vars
    BY <1>1, PolicySideMoves, SameViews
       DEF vars, akOnly, apOnly, APP!vars, APP!deps, APP!garage
  <2>2. APP!PairsApart /\ APP!HandedOut
    BY PoliciesApart, RecordsHandedOut DEF GrantInv
  <2> QED
    BY <2>1, <2>2, Assumptions, APP!ExactNext DEF PolicyInv
<1> QED
  BY <1>1, KeySideExact, RestartExact, Sides

LEMMA PolicyExactInit == Init => APP!ExactInv
<1> SUFFICES ASSUME Init PROVE APP!ExactInv
  OBVIOUS
<1>1. /\ apJob.pc = "idle"
      /\ \A n \in PolicyNames : APP!stored(n) = NoObject
  BY DEF Init, AP!Idle, APP!stored
<1> QED
  BY <1>1 DEF APP!ExactInv, APP!NotReadyYet, APP!JobExact, APP!SettledExact,
     APP!Rests, APP!Stays

\* What the two controllers say of a policy and its AccessKey when neither has
\* work left for them is true together.
LEMMA ReadyAtRest ==
  ASSUME PolicyInv, APP!ExactInv, AKP!ReadyUsable, AKP!NothingForgotten
  PROVE  ReadyMeansUsable
<1> SUFFICES ASSUME NEW n \in PolicyNames, AP!ClaimsReady(AP!stored(n)),
                    ~AP!Pending(n), ~KeyPending(KeyOf[n])
             PROVE  Usable(n)
  BY DEF ReadyMeansUsable
<1>1. PICK k \in KeyNames : k = KeyOf[n]
  BY ConstantsAssumption DEF ConstantsAssumption
<1> DEFINE o == AK!stored(k)
           p == AP!stored(n)
           b == bucketCR[BucketOf[n]]
<1>2. /\ KeyView(k).ready /\ KeyView(k).id = p.status.keyID
      /\ b.id = p.status.bucketID
      /\ (\E x \in keys : x.id = p.status.keyID) =>
           APP!Granted(p.status.keyID, b.id) = p.perms
  <2>1. APP!ReadyIsTrue
    BY Assumptions, APP!ReadyFollows DEF PolicyInv
  <2>2. APP!ClaimsReady(APP!stored(n)) /\ ~APP!Pending(n)
    BY PolicyWorld, KeyLogs DEF AP!ClaimsReady, AP!Ready, APP!ClaimsReady, APP!Ready
  <2>3. p = APP!stored(n)
    BY KeyLogs
  <2> HIDE DEF p
  <2> QED
    BY <1>1, <2>1, <2>2, <2>3 DEF APP!ReadyIsTrue
<1>3. AK!fresh(k) /\ k \notin akQueue /\ akJob.name # k
  BY <1>1 DEF KeyPending
<1>4. o = AK!cached(k)
  BY <1>3 DEF AK!fresh, AK!stored, AK!cached
<1>5. o # NoObject /\ AK!Ready(o.status) /\ o.status.id = p.status.keyID
  BY <1>2, <1>4 DEF KeyView
<1>6. AKP!ClaimsReady(AKP!stored(k))
  <2>1. AKP!Settled(AKP!stored(k))
    BY <1>3, KeyLogs DEF AKP!NothingForgotten
  <2> QED
    BY <1>5, <2>1, KeyLogs DEF AKP!Settled, AKP!ClaimsReady, AK!Ready, AKP!Ready
<1>7. /\ [id |-> o.status.id, uid |-> o.uid] \in keys
      /\ secrets[o.secretName] = [exists |-> TRUE, owner |-> o.uid, id |-> o.status.id]
  <2>1. o = AKP!stored(k)
    BY KeyLogs
  <2> HIDE DEF o
  <2> QED
    BY <1>6, <2>1 DEF AKP!ReadyUsable
<1>8. \E x \in keys : x.id = p.status.keyID
  BY <1>5, <1>7
<1>9. AP!Granted(o.status.id, b.id) = p.perms
  BY <1>2, <1>5, <1>8 DEF AP!Granted, APP!Granted
<1>10. p # NoObject
  BY DEF AP!ClaimsReady
<1> QED
  BY <1>1, <1>2, <1>5, <1>7, <1>9, <1>10 DEF Usable, KeyObject
LEMMA ExactInvariant == Spec /\ []APP!NoSharedPair => []APP!ExactInv
<1>1. AKP!Inv /\ AKP!Inv' /\ PolicyInv /\ PolicyInv' /\ GrantInv /\ [Next]_vars
      => GrantInv'
  BY GrantNext
<1>2. AKP!Inv /\ PolicyInv /\ GrantInv /\ APP!NoSharedPair /\ APP!ExactInv
        /\ [Next]_vars => APP!ExactInv'
  BY PolicyExactNext
<1> QED
  BY <1>1, <1>2, GrantInit, PolicyExactInit, KeyInvariant, PoliciesMissNothing,
     PTL DEF Spec

\* The AccessKey controller, with only restarts as faults, forgets nothing.
LEMMA KeysAtRest == Spec => []AKP!NothingForgotten
<1>1. AKP!Spec => []AKP!NothingForgotten
  BY Assumptions, AKP!NoneForgotten
<1> QED
  BY <1>1, ImplementsAccessKeys, PTL

\* Ready means usable across both controllers: the Secret of the policy's
\* AccessKey holds a live key that has exactly the policy's permissions on its
\* Bucket, whatever deletions, new AccessKeys of the same name and restarts
\* came before, unless two AccessKeys share a Secret that one of them is about
\* to clean up, or two policies set the permissions of one pair.
THEOREM ReadyWorks ==
  Spec /\ []AKP!NoSharedSecret /\ []APP!NoSharedPair => []ReadyMeansUsable
<1>1. AKP!Spec /\ []AKP!NoSharedSecret => []AKP!ReadyUsable
  BY Assumptions, AKP!ReadyTellsTheTruth
<1>2. PolicyInv /\ APP!ExactInv /\ AKP!ReadyUsable /\ AKP!NothingForgotten
        => ReadyMeansUsable
  BY ReadyAtRest
<1> QED
  BY <1>1, <1>2, ImplementsAccessKeys, KeysAtRest, ExactInvariant,
     PoliciesMissNothing, PTL

\* With one AccessKey at a time and a policy of its own nothing is assumed.
THEOREM ReadyWorksAlone ==
  ASSUME \A k, l \in KeyNames : k = l, \A m, n \in PolicyNames : m = n
  PROVE  Spec => []ReadyMeansUsable
<1>1. AKP!Spec => []AKP!ReadyUsable /\ []AKP!KeepsCredentials
  BY Assumptions, AKP!ReadyOfOneName
<1>2. PolicyInv => APP!NoSharedPair
  <2>1. PolicyInv /\ apJob.pc \in APP!Path => apJob.name \in PolicyNames
    BY DEF PolicyInv, APP!Inv, APP!TypeInv, APP!JobOK, APP!Path, APP!ApplyPath
  <2> QED
    BY <2>1 DEF APP!NoSharedPair
<1>3. PolicyInv /\ APP!ExactInv /\ AKP!ReadyUsable /\ AKP!NothingForgotten
        => ReadyMeansUsable
  BY ReadyAtRest
<1> QED
  BY <1>1, <1>2, <1>3, ImplementsAccessKeys, KeysAtRest, ExactInvariant,
     PoliciesMissNothing, PTL
=============================================================================
