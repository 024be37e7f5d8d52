\* The policy is deleted between the grant and the status patch.
SPECIFICATION Spec
CONSTANTS
  Names = {"p1"}
  NoObject = NoObject
  KeyNames = {"k1"}
  BucketNames = {"b1"}
  KeyOf <- OneKey
  BucketOf <- OneBucket
  BucketIDs = {1}
  Perms = {"read", "write"}
  Changes = {"deletePolicy"}
  MaxChanges = 1
  MaxFaults = 0
\* The changes are bounded: at the end the reconciler rests.
CHECK_DEADLOCK FALSE
INVARIANT GrantsRecorded
