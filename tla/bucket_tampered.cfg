\* Others create and delete ConfigMaps and delete buckets in Garage.
SPECIFICATION Spec
CONSTANTS
  Names = {b1}
  NoObject = NoObject
  ConfigMapNames = {c1, c2}
  Quotas <- OneQuota
  Changes = {"import", "switch", "foreignConfigMap", "deleteConfigMap", "deleteBucket"}
  MaxUID = 1
  MaxGen = 2
  MaxChanges = 1
  MaxFaults = 1
\* The changes are bounded: at the end the reconciler rests.
CHECK_DEADLOCK FALSE
PROPERTIES NoTakeover IDKept
