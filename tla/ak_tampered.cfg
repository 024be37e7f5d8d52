\* Others delete keys in Garage, and create and delete Secrets.
SPECIFICATION Spec
CONSTANTS
  Names = {k1}
  NoObject = NoObject
  SecretNames = {s1, s2}
  Tampering = {"deleteKey", "foreignSecret", "deleteSecret"}
  MaxUID = 2
  MaxGen = 2
  MaxFaults = 1
  MaxTamper = 1
\* The users' changes are bounded: at the end the reconciler rests.
CHECK_DEADLOCK FALSE
INVARIANTS SecretsHoldOwnersKey NothingForgotten
PROPERTY FinalizerHonoured
