\* One policy, every change of it and of its dependencies once, one failure or restart.
SPECIFICATION FairSpec
CONSTANTS
  Names = {"p1"}
  NoObject = NoObject
  KeyNames = {"k1"}
  BucketNames = {"b1"}
  KeyOf <- OneKey
  BucketOf <- OneBucket
  BucketIDs = {1, 2}
  Perms = {"read", "write"}
  Changes = {"edit", "unlabel", "unready", "deletePolicy", "deleteKey", "deleteBucket"}
  MaxChanges = 1
  MaxFaults = 1
\* The changes are bounded: at the end the reconciler rests.
CHECK_DEADLOCK FALSE
INVARIANTS TypeOK ReadyIsTrue GrantsKnown
PROPERTIES NarrowThenSet FinalizerRevokes Converges DeletionCompletes
