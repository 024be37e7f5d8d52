\* Seconds, as the controller sets them: 5 s and 15 min; 3 s and 7 s beside it.
\* A retry that would exceed the largest age has no successor.
SPECIFICATION Spec
CONSTANTS
  Width = 16
  Bases = {3, 5, 7}
  MaxInterval = 900
CHECK_DEADLOCK FALSE
INVARIANT InBracket
PROPERTY Doubles
