\* A Bucket, new or imported, edited once; a foreign ConfigMap; one failure or restart.
SPECIFICATION FairSpec
CONSTANTS
  Names = {b1}
  NoObject = NoObject
  ConfigMapNames = {c1, c2}
  Quotas <- NegativeQuota
  Changes = {"import", "foreignConfigMap"}
  MaxUID = 1
  MaxGen = 2
  MaxChanges = 1
  MaxFaults = 1
\* The changes are bounded: at the end the reconciler rests.
CHECK_DEADLOCK FALSE
INVARIANTS TypeOK ReadyIsTrue NoStaleConfigMap
PROPERTY Settles
