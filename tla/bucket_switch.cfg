\* A Bucket moves from spec.name to spec.existingBucket.
SPECIFICATION Spec
CONSTANTS
  Names = {b1}
  NoObject = NoObject
  ConfigMapNames = {c1, c2}
  Quotas <- OneQuota
  Changes = {"import", "switch"}
  MaxUID = 1
  MaxGen = 2
  MaxChanges = 0
  MaxFaults = 0
\* The changes are bounded: at the end the reconciler rests.
CHECK_DEADLOCK FALSE
INVARIANT ReadyIsTrue
