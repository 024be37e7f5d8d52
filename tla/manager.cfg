\* An AccessKey that is deleted and created again, a policy for it, one
\* restart of the manager.
SPECIFICATION FairSpec
CONSTANTS
  NoObject = NoObject
  KeyNames = {"k1"}
  SecretNames = {"s1"}
  PolicyNames = {"p1"}
  BucketNames = {"b1"}
  KeyOf <- OneKey
  BucketOf <- OneBucket
  BucketIDs = {1}
  Perms = {"read"}
  MaxUID = 2
  MaxGen = 1
  MaxRestarts = 1
\* The users' changes are bounded: at the end the reconcilers rest.
CHECK_DEADLOCK FALSE
INVARIANTS ReadyMeansUsable GrantsFollowKey
PROPERTIES BecomesUsable Withdraws
