\* The spec is edited once; no call fails.
SPECIFICATION Spec
CONSTANTS
  Names = {k1}
  NoObject = NoObject
  SecretNames = {s1, s2}
  Tampering = {}
  MaxUID = 1
  MaxGen = 2
  MaxFaults = 0
  MaxTamper = 0
\* The users' changes are bounded: at the end the reconciler rests.
CHECK_DEADLOCK FALSE
INVARIANT NoStaleSecret
