------------------------- MODULE OwnerSecretBackoff -------------------------
(***************************************************************************)
(* ownerSecretBackoff (internal/controller/backoff.go) and the retries of a *)
(* Bucket whose existing bucket cannot be resolved: Reconcile returns the   *)
(* backoff of the resource's age as RequeueAfter and is called again when   *)
(* it has passed.  Nothing counts the retries: the delay is a function of   *)
(* the age alone.                                                           *)
(*                                                                         *)
(* time.Duration is an integer of Width bits here (64 in Go) and one unit   *)
(* is a second; the arithmetic wraps around as Go's does.                   *)
(***************************************************************************)
EXTENDS Integers

CONSTANTS Width,        \* bits of a time.Duration
          Bases,        \* values of baseRequeueInterval
          MaxInterval   \* maxRequeueInterval

ASSUME BackoffAssumption ==
  /\ Width \in Nat \ {0}
  /\ Bases \subseteq 1 .. 2^(Width - 1) - 1
  /\ MaxInterval \in 1 .. 2^(Width - 1) - 1

MaxDuration == 2^(Width - 1) - 1

\* What ^ is, which no prover knows.
ASSUME PowersOfTwo ==
  \A n \in 0 .. Width - 1 : 2^n \in Nat /\ 2^(n + 1) = 2 * 2^n

\* A bracket that begins has a delay that fits.  With the base of 5 s and 64
\* bits of nanoseconds the last one is 2^30, and 5 s * 2^30 fits.  A base that
\* is a power of two would wrap around in the last base of all ages.
ASSUME LastBracketFits ==
  \A b \in Bases, n \in 0 .. Width :
    b * (2^n - 1) <= MaxDuration => b * 2^n <= MaxDuration

VARIABLES base,  \* baseRequeueInterval
          age    \* time.Since(bucket.CreationTimestamp.Time)

vars == <<base, age>>

\* The signed and the unsigned number of Width bits that x wraps around to.
Unsigned(x) == x % 2^Width
Signed(x) == LET u == Unsigned(x) IN IF u > MaxDuration THEN u - 2^Width ELSE u

\* bits.Len: the number of bits of x without leading zeros.
Len(x) == CHOOSE n \in 0 .. Width : x < 2^n /\ \A m \in 0 .. n - 1 : x >= 2^m

Min(a, b) == IF a < b THEN a ELSE b

\* Mutant: the bracket is one too high.
BackoffNextBracket(a, b, maxInterval) ==
  LET elapsed == IF a < 0 THEN 0 ELSE a
      n == Len(Unsigned(elapsed \div b + 1))
  IN Min(Signed(b * 2^n), maxInterval)

\* Mutant: the delay is not limited.
BackoffUncapped(a, b, maxInterval) ==
  LET elapsed == IF a < 0 THEN 0 ELSE a
      n == Len(Unsigned(elapsed \div b + 1)) - 1
  IN Signed(b * 2^n)

\* ownerSecretBackoff: double the base for every bracket of the age.
OwnerSecretBackoff(a, b, maxInterval) ==
  LET elapsed == IF a < 0 THEN 0 ELSE a
      n == Len(Unsigned(Signed(elapsed \div b + 1))) - 1
  IN Min(Signed(b * 2^n), maxInterval)

Delay == OwnerSecretBackoff(age, base, MaxInterval)

\* The age of the resource at the first retry: anything, as the manager may
\* have been down, and negative when the API server's clock is ahead.
Init ==
  /\ base \in Bases
  /\ age \in -base .. MaxDuration

\* The delay passes and Reconcile fails again.
Retry ==
  /\ age + Delay <= MaxDuration
  /\ age' = age + Delay
  /\ UNCHANGED base

Next == Retry

Spec == Init /\ [][Next]_vars

-----------------------------------------------------------------------------
(* Properties.                                                              *)

\* The brackets of backoff_test.go: bracket n begins when the delays of the
\* brackets before it, base * (2^n - 1), have passed.
Reference(a, b) ==
  LET begun == {n \in 0 .. Width : b * (2^n - 1) <= a}
  IN IF a < 0 THEN b
     ELSE b * 2^(CHOOSE n \in begun : \A m \in begun : m <= n)

\* The shift and the logarithm compute the bracket, up to the largest age of
\* Width bits and without an overflow: a delay that wrapped around to zero or
\* less would end the retries for good.
InBracket == Delay = Min(Reference(age, base), MaxInterval)

\* Retries are exponential although nothing counts them: a retry made on time
\* is followed by one after twice the delay, until the limit.
Doubles ==
  [][age >= 0 => Delay' = Min(2 * Delay, MaxInterval)]_vars
=============================================================================
