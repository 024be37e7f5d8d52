\* One AccessKey name, created twice, edited and deleted; calls fail, the manager restarts.
SPECIFICATION FairSpec
CONSTANTS
  Names = {k1}
  NoObject = NoObject
  SecretNames = {s1, s2}
  Tampering = {}
  MaxUID = 2
  MaxGen = 3
  MaxFaults = 1
  MaxTamper = 0
\* The users' changes are bounded: at the end the reconciler rests.
CHECK_DEADLOCK FALSE
INVARIANTS TypeOK KeyUnique KeyAccounted ReadyUsable KeepsCredentials
PROPERTIES Settles CustodyKept CustodyPromise
