\* Deleted and created again: the name conflict with the old Secret is final,
\* although the garbage collector removes that Secret.
SPECIFICATION CollectedSpec
CONSTANTS
  Names = {k1}
  NoObject = NoObject
  SecretNames = {s1}
  Tampering = {}
  MaxUID = 2
  MaxGen = 1
  MaxFaults = 0
  MaxTamper = 0
\* The users' changes are bounded: at the end the reconciler rests.
CHECK_DEADLOCK FALSE
PROPERTY SecretCreated
