--------------------------- MODULE BackoffProofs ---------------------------
(***************************************************************************)
(* The backoff for every width of a duration, every base and every limit:   *)
(* the delay is that of the age's bracket, and one retry made on time is    *)
(* followed by another after twice the delay.                               *)
(*                                                                         *)
(* Powers and bits.Len need induction.  Its theorems in the library take a  *)
(* predicate; here the induction is over a set, by the least number that is *)
(* not in it.                                                               *)
(***************************************************************************)
EXTENDS OwnerSecretBackoff, WellFoundedInduction, TLAPS

\* Every set of naturals that is not empty has a least one.
LEMMA LeastNatural ==
  ASSUME NEW S, S \subseteq Nat, S # {}
  PROVE  \E n \in S : \A m \in S : n <= m
<1> DEFINE R == {p \in Nat \X Nat : p[1] < p[2]}
<1>1. IsWellFoundedOn(R, Nat)
  BY NatLessThanWellFounded DEF OpToRel
<1> HIDE DEF R
<1>2. PICK n \in S : \A m \in S : <<m, n>> \notin R
  BY <1>1, WFMin
<1>3. \A m, k \in Nat : <<m, k>> \notin R => k <= m
  BY DEF R
<1>4. \A m \in S : n <= m
  BY <1>2, <1>3
<1> QED
  BY <1>4

\* A set with 0 and the successor of each natural in it holds all of them.
LEMMA Induction ==
  ASSUME NEW S, 0 \in S, \A n \in Nat : n \in S => n + 1 \in S
  PROVE  Nat \subseteq S
<1> SUFFICES ASSUME Nat \ S # {} PROVE FALSE
  OBVIOUS
<1>1. PICK n \in Nat \ S : \A m \in Nat \ S : n <= m
  <2> DEFINE T == Nat \ S
  <2>1. T \subseteq Nat /\ T # {}
    OBVIOUS
  <2>2. \E n \in T : \A m \in T : n <= m
    BY <2>1, LeastNatural
  <2> QED
    BY <2>2
<1>2. n # 0 /\ n - 1 \in Nat
  BY <1>1
<1>3. n - 1 \in S
  BY <1>1, <1>2
<1> QED
  BY <1>1, <1>2, <1>3

-----------------------------------------------------------------------------
(* Powers of two, bits and widths.                                          *)

\* The powers that Width allows are positive.
LEMMA Powers ==
  /\ 2^0 = 1
  /\ \A n \in 0 .. Width : 2^n \in Nat \ {0}
<1>0. Width \in Nat \ {0}
  BY BackoffAssumption DEF BackoffAssumption
<1>1. 2^0 = 1
  OBVIOUS
<1> DEFINE S == {n \in Nat : n <= Width => 2^n \in Nat \ {0}}
<1>2. 0 \in S
  BY <1>1
<1>3. ASSUME NEW n \in Nat, n \in S PROVE n + 1 \in S
  <2> SUFFICES ASSUME n + 1 <= Width PROVE 2^(n + 1) \in Nat \ {0}
    OBVIOUS
  <2>1. n \in 0 .. Width - 1
    BY <1>0
  <2>2. 2^n \in Nat \ {0} /\ 2^(n + 1) = 2 * 2^n
    BY <2>1, <1>0, <1>3, PowersOfTwo DEF PowersOfTwo
  <2> QED
    BY <2>2
<1> HIDE DEF S
<1>4. Nat \subseteq S
  BY <1>2, <1>3, Induction
<1> QED
  BY <1>0, <1>1, <1>4 DEF S

\* The constants are durations.
LEMMA Durations ==
  /\ MaxDuration \in Nat /\ MaxInterval \in Nat \ {0}
  /\ \A b \in Bases : b \in Nat \ {0}
<1>1. Width \in Nat \ {0} /\ Width - 1 \in 0 .. Width
  BY BackoffAssumption DEF BackoffAssumption
<1>2. 2^(Width - 1) \in Nat \ {0}
  BY <1>1, Powers
<1> QED
  BY <1>1, <1>2, BackoffAssumption DEF BackoffAssumption, MaxDuration

\* They grow.
LEMMA PowersGrow ==
  \A m, n \in 0 .. Width : m <= n => 2^m <= 2^n
<1>0. Width \in Nat \ {0}
  BY BackoffAssumption DEF BackoffAssumption
<1> SUFFICES ASSUME NEW m \in 0 .. Width
             PROVE  \A n \in 0 .. Width : m <= n => 2^m <= 2^n
  OBVIOUS
<1> DEFINE S == {k \in Nat : m + k <= Width => 2^m <= 2^(m + k)}
<1>1. 0 \in S
  <2>1. m + 0 = m /\ 2^m \in Nat
    BY Powers, <1>0
  <2> QED
    BY <2>1
<1>2. ASSUME NEW k \in Nat, k \in S PROVE k + 1 \in S
  <2> SUFFICES ASSUME m + (k + 1) <= Width PROVE 2^m <= 2^(m + (k + 1))
    OBVIOUS
  <2>1. m + k \in 0 .. Width - 1 /\ m + (k + 1) = (m + k) + 1
    BY <1>0
  <2>2. 2^(m + k) \in Nat /\ 2^((m + k) + 1) = 2 * 2^(m + k)
    BY <2>1, PowersOfTwo DEF PowersOfTwo
  <2>3. 2^m <= 2^(m + k) /\ 2^m \in Nat
    BY <1>2, <2>1, <1>0, Powers
  <2> QED
    BY <2>1, <2>2, <2>3
<1> HIDE DEF S
<1>3. Nat \subseteq S
  BY <1>1, <1>2, Induction
<1>4. ASSUME NEW n \in 0 .. Width, m <= n PROVE 2^m <= 2^n
  <2>1. n - m \in Nat /\ m + (n - m) = n
    BY <1>0, <1>4
  <2>2. n - m \in S
    BY <2>1, <1>3
  <2> QED
    BY <2>1, <2>2, <1>0 DEF S
<1> QED
  BY <1>4

\* bits.Len: how many bits it takes to write x.
LEMMA Bits ==
  ASSUME NEW x \in Nat, 1 <= x, x < 2^Width
  PROVE  /\ Len(x) \in 1 .. Width
         /\ 2^(Len(x) - 1) <= x
         /\ x < 2^Len(x)
<1>0. Width \in Nat \ {0} /\ Width \in 0 .. Width
  BY BackoffAssumption DEF BackoffAssumption
<1> DEFINE S == {n \in 0 .. Width : x < 2^n}
<1>1. S \subseteq Nat /\ S # {}
  BY <1>0
<1> HIDE DEF S
<1>2. PICK n \in S : \A m \in S : n <= m
  BY <1>1, LeastNatural
<1>3. n \in 0 .. Width /\ x < 2^n
  BY <1>2 DEF S
<1>4. \A m \in 0 .. n - 1 : x >= 2^m
  <2> TAKE m \in 0 .. n - 1
  <2>1. m \in 0 .. Width /\ ~ (n <= m)
    BY <1>0, <1>3
  <2>2. m \notin S
    BY <2>1, <1>2
  <2>3. 2^m \in Nat
    BY <2>1, Powers
  <2> QED
    BY <2>1, <2>2, <2>3 DEF S
<1>5. /\ Len(x) \in 0 .. Width /\ x < 2^Len(x)
      /\ \A m \in 0 .. Len(x) - 1 : x >= 2^m
  BY <1>3, <1>4 DEF Len
<1> DEFINE k == Len(x)
<1> HIDE DEF k
<1>6. k \in 0 .. Width /\ x < 2^k /\ \A m \in 0 .. k - 1 : x >= 2^m
  BY <1>5 DEF k
<1>7. k # 0
  <2> SUFFICES ASSUME k = 0 PROVE FALSE
    OBVIOUS
  <2>1. x < 2^0
    BY <1>6
  <2> QED
    BY <2>1, Powers
<1>8. k - 1 \in 0 .. k - 1 /\ k - 1 \in 0 .. Width /\ k \in 1 .. Width
  BY <1>6, <1>7, <1>0
<1>9. x >= 2^(k - 1) /\ 2^(k - 1) \in Nat
  BY <1>6, <1>8, Powers
<1>10. 2^(k - 1) <= x
  BY <1>9
<1> QED
  BY <1>6, <1>8, <1>10 DEF k

\* Nothing wraps around that fits a duration.
LEMMA Fits ==
  ASSUME NEW x \in 0 .. MaxDuration
  PROVE  Unsigned(x) = x /\ Signed(x) = x
<1>1. 2^Width \in Nat \ {0} /\ MaxDuration < 2^Width /\ MaxDuration \in Nat
  <2>1. Width \in Nat \ {0} /\ Width - 1 \in 0 .. Width - 1 /\ (Width - 1) + 1 = Width
    BY BackoffAssumption DEF BackoffAssumption
  <2>2. 2^(Width - 1) \in Nat \ {0}
    BY <2>1, Powers
  <2>3. 2^Width = 2 * 2^(Width - 1)
    BY <2>1, PowersOfTwo DEF PowersOfTwo
  <2> QED
    BY <2>2, <2>3 DEF MaxDuration
<1>2. ASSUME NEW n \in Nat \ {0}, x \in Nat, x < n PROVE x % n = x
  BY <1>2
<1>3. Unsigned(x) = x
  BY <1>1, <1>2 DEF Unsigned
<1> QED
  BY <1>3, <1>1 DEF Signed
-----------------------------------------------------------------------------
(* Brackets.                                                                *)

\* Bracket n of base b, from its beginning to that of the next.
Bracket(n, a, b) ==
  /\ n \in 0 .. Width - 1
  /\ b * (2^n - 1) <= a /\ a < b * (2^(n + 1) - 1)

\* Products with a base are ordered like their factors.
LEMMA Scaled ==
  ASSUME NEW b \in Nat, NEW x \in Int, NEW y \in Int, x <= y
  PROVE  b * x <= b * y
<1>1. y - x \in Nat /\ y = x + (y - x)
  OBVIOUS
<1>2. b * (y - x) \in Nat /\ b * y = b * x + b * (y - x)
  BY <1>1
<1> QED
  BY <1>2

\* Go's division of an age by a base.
LEMMA Quotient ==
  ASSUME NEW e \in Nat, NEW b \in Nat \ {0}
  PROVE  /\ e \div b \in Nat
         /\ b * (e \div b) <= e /\ e < b * ((e \div b) + 1)
         /\ e \div b <= e
<1>1. e \div b \in Nat /\ b * (e \div b) <= e /\ e < b * ((e \div b) + 1)
  OBVIOUS
<1> DEFINE q == e \div b
<1> HIDE DEF q
<1>2. q \in Nat /\ b * q <= e
  BY <1>1 DEF q
<1>3. q <= b * q
  <2>1. q * 1 <= q * b
    BY <1>2, Scaled
  <2> QED
    BY <2>1, <1>2
<1>4. q <= e
  BY <1>2, <1>3
<1> QED
  BY <1>1, <1>4 DEF q

\* Later brackets have longer delays and begin later.
LEMMA Later ==
  ASSUME NEW b \in Nat, NEW m \in 0 .. Width, NEW n \in 0 .. Width, m <= n
  PROVE  /\ b * 2^m <= b * 2^n
         /\ b * (2^m - 1) <= b * (2^n - 1)
<1>1. 2^m \in Int /\ 2^n \in Int /\ 2^m <= 2^n
  BY Powers, PowersGrow
<1> QED
  BY <1>1, Scaled

\* ownerSecretBackoff takes the delay of the bracket its age is in: the quotient
\* plus one has a bit more than the number of brackets before it, the shift stays
\* within Width bits because a bracket that has begun fits, and only the limit
\* cuts it.
LEMMA DelayOfBracket ==
  ASSUME NEW b \in Bases, NEW e \in 0 .. MaxDuration
  PROVE  \E n \in 0 .. Width - 1 :
           /\ Bracket(n, e, b)
           /\ OwnerSecretBackoff(e, b, MaxInterval) = Min(b * 2^n, MaxInterval)
<1>0. /\ Width \in Nat \ {0} /\ Width - 1 \in 0 .. Width - 1
      /\ (Width - 1) + 1 = Width /\ MaxDuration = 2^(Width - 1) - 1
  BY BackoffAssumption DEF BackoffAssumption, MaxDuration
<1>1. /\ MaxDuration \in Nat /\ MaxDuration + 1 = 2^(Width - 1)
      /\ 2^Width = 2 * 2^(Width - 1)
  <2>1. 2^(Width - 1) \in Nat \ {0}
    BY <1>0, Powers
  <2> QED
    BY <2>1, <1>0, PowersOfTwo DEF PowersOfTwo
<1>2. b \in Nat \ {0}
  BY <1>0, BackoffAssumption DEF BackoffAssumption
<1> DEFINE q == e \div b
<1> HIDE DEF q
<1>3. /\ q \in Nat /\ b * q <= e /\ e < b * (q + 1) /\ q <= e
  BY <1>1, <1>2, Quotient DEF q
<1> DEFINE x == q + 1
<1>4. x \in Nat /\ 1 <= x /\ x <= MaxDuration + 1 /\ x < 2^Width
  BY <1>1, <1>3
<1> HIDE DEF x
<1> DEFINE n == Len(x) - 1
<1>5. /\ Len(x) \in 1 .. Width /\ 2^(Len(x) - 1) <= x /\ x < 2^Len(x)
  BY <1>4, Bits
<1>6. n \in 0 .. Width - 1 /\ n \in 0 .. Width /\ n + 1 \in 0 .. Width /\ n + 1 = Len(x)
  BY <1>5, <1>0
<1> HIDE DEF n
<1>7. 2^n <= x /\ x < 2^(n + 1) /\ 2^n \in Nat /\ 2^(n + 1) \in Nat
  BY <1>5, <1>6, Powers DEF n
<1>8. b * (2^n - 1) <= e
  <2>1. 2^n - 1 <= q
    BY <1>7, <1>3 DEF x
  <2>2. b * (2^n - 1) <= b * q
    BY <2>1, <1>2, <1>3, <1>7, Scaled
  <2> QED
    BY <2>2, <1>1, <1>2, <1>3, <1>7
<1>9. e < b * (2^(n + 1) - 1)
  <2>1. q + 1 <= 2^(n + 1) - 1
    BY <1>7, <1>3 DEF x
  <2>2. b * (q + 1) <= b * (2^(n + 1) - 1)
    BY <2>1, <1>2, <1>3, <1>7, Scaled
  <2> QED
    BY <2>2, <1>1, <1>2, <1>3, <1>7
<1>10. b * 2^n \in 0 .. MaxDuration
  <2>1. b * (2^n - 1) <= MaxDuration
    BY <1>1, <1>2, <1>7, <1>8
  <2>2. b * 2^n <= MaxDuration
    BY <2>1, <1>6, LastBracketFits DEF LastBracketFits
  <2> QED
    BY <2>2, <1>1, <1>2, <1>7
<1>11. x \in 0 .. MaxDuration
  <2> SUFFICES ASSUME x = MaxDuration + 1 PROVE FALSE
    BY <1>4, <1>1
  <2>1. b * (2^(Width - 1) - 1) <= MaxDuration
    BY <1>0, <1>1, <1>2, <1>3 DEF x
  <2>2. b * 2^(Width - 1) <= MaxDuration
    BY <2>1, <1>0, LastBracketFits DEF LastBracketFits
  <2>3. 1 * 2^(Width - 1) <= b * 2^(Width - 1)
    BY <1>1, <1>2, Scaled
  <2> QED
    BY <2>2, <2>3, <1>1, <1>2
<1>12. /\ Unsigned(Signed(x)) = x /\ Signed(b * 2^n) = b * 2^n
  BY <1>10, <1>11, Fits
<1>13. OwnerSecretBackoff(e, b, MaxInterval) = Min(b * 2^n, MaxInterval)
  BY <1>1, <1>12, ~ (e < 0) DEF OwnerSecretBackoff, n, x, q
<1> QED
  BY <1>6, <1>8, <1>9, <1>13 DEF Bracket
\* What a bracket says in numbers.
LEMMA Brackets ==
  ASSUME NEW b \in Bases, NEW e \in Nat, NEW n, Bracket(n, e, b)
  PROVE  /\ b \in Nat \ {0} /\ n \in 0 .. Width - 1
         /\ n \in 0 .. Width /\ n + 1 \in 0 .. Width
         /\ 2^n \in Nat \ {0} /\ 2^(n + 1) = 2 * 2^n
         /\ b * (2^n - 1) <= e /\ e < b * (2^(n + 1) - 1)
<1>0. Width \in Nat \ {0} /\ b \in Nat \ {0}
  BY BackoffAssumption DEF BackoffAssumption
<1>1. /\ n \in 0 .. Width - 1 /\ b * (2^n - 1) <= e
      /\ e < b * (2^(n + 1) - 1)
  BY DEF Bracket
<1>2. n \in 0 .. Width /\ n + 1 \in 0 .. Width
  BY <1>0, <1>1
<1>3. 2^n \in Nat \ {0} /\ 2^(n + 1) = 2 * 2^n
  BY <1>1, <1>2, Powers, PowersOfTwo DEF PowersOfTwo
<1> QED
  BY <1>0, <1>1, <1>2, <1>3

\* The reference finds the same bracket.
LEMMA ReferenceOfBracket ==
  ASSUME NEW b \in Bases, NEW e \in Nat, NEW n, Bracket(n, e, b)
  PROVE  Reference(e, b) = b * 2^n
<1>0. /\ b \in Nat \ {0} /\ n \in 0 .. Width - 1
      /\ n \in 0 .. Width /\ n + 1 \in 0 .. Width
      /\ b * (2^n - 1) <= e /\ e < b * (2^(n + 1) - 1)
  BY Brackets
<1>1. Width \in Nat
  BY BackoffAssumption DEF BackoffAssumption
<1> DEFINE begun == {m \in 0 .. Width : b * (2^m - 1) <= e}
<1>2. n \in begun
  BY <1>0
<1>3. ASSUME NEW m \in begun PROVE m <= n
  <2> SUFFICES ASSUME n + 1 <= m PROVE FALSE
    BY <1>0
  <2>1. m \in 0 .. Width /\ b * (2^m - 1) <= e
    OBVIOUS
  <2>2. b * (2^(n + 1) - 1) <= b * (2^m - 1)
    BY <2>1, <1>0, Later
  <2>3. 2^m \in Nat /\ 2^(n + 1) \in Nat
    BY <2>1, <1>0, Powers
  <2>4. b * (2^m - 1) \in Int /\ b * (2^(n + 1) - 1) \in Int
    BY <2>3, <1>0
  <2> QED
    BY <2>1, <2>2, <2>4, <1>0
<1> DEFINE last == CHOOSE k \in begun : \A m \in begun : m <= k
<1>4. last \in begun /\ \A m \in begun : m <= last
  BY <1>2, <1>3
<1>5. begun \subseteq Int
  BY <1>1
<1> HIDE DEF begun, last
<1>6. last = n
  BY <1>2, <1>3, <1>4, <1>5
<1>7. Reference(e, b) = b * 2^last
  BY ~ (e < 0) DEF Reference, begun, last
<1> QED
  BY <1>6, <1>7

-----------------------------------------------------------------------------
(* The theorems.                                                            *)

\* The base, and an age that a duration can hold.
AgeOK ==
  /\ base \in Bases
  /\ age \in Int /\ age <= MaxDuration

\* Ages only grow by delays that still fit.
LEMMA AgeIsOK == Spec => []AgeOK
<1>0. /\ MaxDuration \in Nat /\ MaxInterval \in Nat \ {0}
      /\ \A b \in Bases : b \in Nat \ {0}
  BY Durations
<1>1. Init => AgeOK
  BY <1>0 DEF Init, AgeOK
<1>2. AgeOK /\ [Next]_vars => AgeOK'
  <2> SUFFICES ASSUME AgeOK, [Next]_vars PROVE AgeOK'
    OBVIOUS
  <2>1. CASE Retry
    <3> DEFINE e == IF age < 0 THEN 0 ELSE age
    <3>1. e \in 0 .. MaxDuration
      BY <1>0 DEF AgeOK
    <3>2. Delay = OwnerSecretBackoff(e, base, MaxInterval)
      BY DEF Delay, OwnerSecretBackoff, AgeOK
    <3> HIDE DEF e
    <3>3. PICK n \in 0 .. Width - 1 :
            /\ Bracket(n, e, base) /\ Delay = Min(base * 2^n, MaxInterval)
      BY <3>1, <3>2, DelayOfBracket DEF AgeOK
    <3>4. base * 2^n \in Int
      BY <3>1, <3>3, Brackets DEF AgeOK
    <3>5. Delay \in Int
      BY <3>3, <3>4, <1>0 DEF Min
    <3> QED
      BY <2>1, <3>5, <1>0 DEF Retry, AgeOK
  <2>2. CASE UNCHANGED vars
    BY <2>2 DEF vars, AgeOK
  <2> QED
    BY <2>1, <2>2 DEF Next
<1> QED
  BY <1>1, <1>2, PTL DEF Spec

\* For every base, age and limit the delay is that of the bracket of the age, at
\* most maxRequeueInterval: it is never zero or less, and no retry is the last.
THEOREM AlwaysInBracket == Spec => []InBracket
<1>1. AgeOK => InBracket
  <2> SUFFICES ASSUME AgeOK PROVE InBracket
    OBVIOUS
  <2>0. /\ base \in Bases /\ base \in Nat \ {0} /\ MaxDuration \in Nat
        /\ age \in Int /\ age <= MaxDuration
    BY Durations DEF AgeOK
  <2>1. CASE age >= 0
    <3>1. age \in 0 .. MaxDuration /\ age \in Nat
      BY <2>0, <2>1
    <3>2. PICK n \in 0 .. Width - 1 :
            /\ Bracket(n, age, base) /\ Delay = Min(base * 2^n, MaxInterval)
      BY <2>0, <3>1, DelayOfBracket DEF Delay
    <3>3. Reference(age, base) = base * 2^n
      BY <2>0, <3>1, <3>2, ReferenceOfBracket
    <3> QED
      BY <3>2, <3>3 DEF InBracket
  <2>2. CASE age < 0
    <3>1. 0 \in 0 .. MaxDuration /\ 0 \in Nat
      BY <2>0
    <3>2. Delay = OwnerSecretBackoff(0, base, MaxInterval)
      BY <2>2 DEF Delay, OwnerSecretBackoff
    <3>3. PICK n \in 0 .. Width - 1 :
            /\ Bracket(n, 0, base) /\ Delay = Min(base * 2^n, MaxInterval)
      BY <2>0, <3>1, <3>2, DelayOfBracket
    <3>4. 2^n \in Nat \ {0} /\ base * (2^n - 1) <= 0
      BY <2>0, <3>1, <3>3, Brackets
    <3>5. 1 * (2^n - 1) <= base * (2^n - 1)
      BY <2>0, <3>4, Scaled
    <3>6. 2^n = 1
      <4> DEFINE p == 2^n
      <4>1. p \in Nat \ {0} /\ base * (p - 1) <= 0 /\ 1 * (p - 1) <= base * (p - 1)
        BY <3>4, <3>5
      <4> HIDE DEF p
      <4>2. p = 1
        BY <4>1, <2>0
      <4> QED
        BY <4>2 DEF p
    <3>7. Delay = Min(base, MaxInterval)
      BY <2>0, <3>3, <3>6
    <3> QED
      BY <2>2, <3>7 DEF InBracket, Reference
  <2> QED
    BY <2>0, <2>1, <2>2
<1> QED
  BY <1>1, AgeIsOK, PTL

\* After a delay of at most the bracket's, the bracket is no earlier one; after all
\* of it, it is the next one.
LEMMA NextBracket ==
  ASSUME NEW b \in Bases, NEW e \in Nat, NEW n, Bracket(n, e, b),
         NEW d \in Nat, d <= b * 2^n, NEW m, Bracket(m, e + d, b)
  PROVE  /\ b * 2^n <= b * 2^m
         /\ d = b * 2^n => b * 2^m = 2 * (b * 2^n)
<1>1. /\ b \in Nat \ {0} /\ n \in 0 .. Width - 1
      /\ n \in 0 .. Width /\ n + 1 \in 0 .. Width
      /\ 2^n \in Nat \ {0} /\ 2^(n + 1) = 2 * 2^n
      /\ b * (2^n - 1) <= e /\ e < b * (2^(n + 1) - 1)
  BY Brackets
<1>2. e + d \in Nat
  OBVIOUS
<1>3. /\ m \in 0 .. Width - 1 /\ m \in 0 .. Width /\ m + 1 \in 0 .. Width
      /\ 2^m \in Nat \ {0} /\ 2^(m + 1) = 2 * 2^m
      /\ b * (2^m - 1) <= e + d /\ e + d < b * (2^(m + 1) - 1)
  BY <1>2, Brackets
<1> DEFINE p == 2^n
           r == 2^m
<1>4. /\ p \in Nat \ {0} /\ b * p \in Nat
      /\ b * (2^n - 1) = b * p - b /\ b * (2^(n + 1) - 1) = 2 * (b * p) - b
  BY <1>1
<1>5. /\ r \in Nat \ {0} /\ b * r \in Nat
      /\ b * (2^m - 1) = b * r - b /\ b * (2^(m + 1) - 1) = 2 * (b * r) - b
  BY <1>1, <1>3
<1>6. n <= m
  <2> SUFFICES ASSUME m + 1 <= n PROVE FALSE
    BY <1>1, <1>3
  <2>1. b * (2^(m + 1) - 1) <= b * (2^n - 1)
    BY <1>1, <1>3, Later
  <2> HIDE DEF p, r
  <2> QED
    BY <2>1, <1>1, <1>3, <1>4, <1>5
<1>7. b * 2^n <= b * 2^m
  BY <1>1, <1>3, <1>6, Later
<1>8. ASSUME d = b * 2^n PROVE b * 2^m = 2 * (b * 2^n)
  <2>1. m # n
    <3> SUFFICES ASSUME m = n PROVE FALSE
      OBVIOUS
    <3>1. e + d < 2 * (b * p) - b /\ b * p - b <= e /\ d = b * p
      BY <1>1, <1>3, <1>4, <1>8
    <3> HIDE DEF p
    <3> QED
      BY <3>1, <1>1, <1>4
  <2>2. ~ (n + 2 <= m)
    <3> SUFFICES ASSUME n + 2 <= m PROVE FALSE
      OBVIOUS
    <3>1. n + 2 \in 0 .. Width /\ n + 1 \in 0 .. Width - 1 /\ n + 2 = (n + 1) + 1
      <4>1. Width \in Nat
        BY BackoffAssumption DEF BackoffAssumption
      <4> QED
        BY <4>1, <1>1, <1>3
    <3>2. 2^(n + 2) = 2 * 2^(n + 1)
      BY <3>1, PowersOfTwo DEF PowersOfTwo
    <3>3. b * 2^(n + 2) <= b * 2^m
      BY <3>1, <1>1, <1>3, Later
    <3>4. b * 2^(n + 2) = 4 * (b * p)
      BY <3>2, <1>1
    <3>5. /\ 4 * (b * p) <= b * r /\ b * r - b <= e + d
          /\ e < 2 * (b * p) - b /\ d = b * p
      BY <3>3, <3>4, <1>1, <1>3, <1>4, <1>5, <1>8
    <3>6. b <= b * p
      <4>1. b * 1 <= b * p
        BY <1>1, Scaled
      <4> QED
        BY <4>1, <1>1
    <3> HIDE DEF p, r
    <3> QED
      BY <3>5, <3>6, <1>1, <1>4, <1>5
  <2>3. m = n + 1
    BY <1>1, <1>3, <1>6, <2>1, <2>2
  <2> QED
    BY <2>3, <1>1
<1> QED
  BY <1>7, <1>8

\* A retry made when its delay has passed doubles the delay, until
\* maxRequeueInterval.
THEOREM DelayDoubles == Spec => Doubles
<1>1. AgeOK /\ AgeOK' /\ [Next]_vars
        => [age >= 0 => Delay' = Min(2 * Delay, MaxInterval)]_vars
  <2> SUFFICES ASSUME AgeOK, AgeOK', Retry, age >= 0
               PROVE  Delay' = Min(2 * Delay, MaxInterval)
    BY DEF Next
  <2>0. /\ base \in Bases /\ base' = base /\ base \in Nat \ {0}
        /\ MaxInterval \in Nat \ {0}
    BY Durations DEF AgeOK, Retry
  <2>1. age \in 0 .. MaxDuration /\ age \in Nat
    BY DEF AgeOK, MaxDuration
  <2>2. PICK n \in 0 .. Width - 1 :
          /\ Bracket(n, age, base) /\ Delay = Min(base * 2^n, MaxInterval)
    BY <2>0, <2>1, DelayOfBracket DEF Delay
  <2>3. base * 2^n \in Nat
    BY <2>0, <2>1, <2>2, Brackets
  <2>4. Delay \in Nat /\ Delay <= base * 2^n /\ Delay <= MaxInterval
    BY <2>0, <2>2, <2>3 DEF Min
  <2>5. age' = age + Delay /\ age' \in 0 .. MaxDuration /\ age' \in Nat
    BY <2>1, <2>4 DEF Retry, AgeOK
  <2>6. Delay' = OwnerSecretBackoff(age', base, MaxInterval)
    BY <2>0 DEF Delay
  <2>7. PICK m \in 0 .. Width - 1 :
          /\ Bracket(m, age', base) /\ Delay' = Min(base * 2^m, MaxInterval)
    BY <2>0, <2>5, <2>6, DelayOfBracket
  <2>8. base * 2^m \in Nat
    BY <2>0, <2>5, <2>7, Brackets
  <2>9. /\ base * 2^n <= base * 2^m
        /\ Delay = base * 2^n => base * 2^m = 2 * (base * 2^n)
    BY <2>0, <2>1, <2>2, <2>4, <2>5, <2>7, NextBracket
  <2> DEFINE now == base * 2^n
             later == base * 2^m
  <2>10. /\ now \in Nat /\ later \in Nat /\ now <= later
         /\ Delay = Min(now, MaxInterval) /\ Delay' = Min(later, MaxInterval)
         /\ Delay = now => later = 2 * now
    BY <2>2, <2>3, <2>7, <2>8, <2>9
  <2> HIDE DEF now, later
  <2>11. CASE Delay = now
    BY <2>10, <2>11
  <2>12. CASE Delay # now
    <3>1. Delay = MaxInterval /\ MaxInterval <= now
      BY <2>0, <2>10, <2>12 DEF Min
    <3>2. Delay' = MaxInterval
      BY <2>0, <2>10, <3>1 DEF Min
    <3>3. Min(2 * MaxInterval, MaxInterval) = MaxInterval
      BY <2>0 DEF Min
    <3> QED
      BY <3>1, <3>2, <3>3
  <2> QED
    BY <2>11, <2>12
<1> QED
  BY <1>1, AgeIsOK, PTL DEF Spec, Doubles
=============================================================================
