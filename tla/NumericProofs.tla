---------------------------- MODULE NumericProofs ----------------------------
(***************************************************************************)
(* RoundIsNearest, ConversionsRoundTrip and ToleranceIsEpsilon hold for    *)
(* every precision, grid and factor of which NumericAssumption holds, and  *)
(* so for the doubles of IEEE 754, and for all floats.                     *)
(***************************************************************************)
EXTENDS Numeric, TLAPS, NaturalsInduction, WellFoundedInduction

\* All that most proofs ask of the constants.
LEMMA Basics == Precision \in Nat \ {0, 1} /\ MaxExponent \in Nat
  BY NumericAssumption

USE Basics

LEMMA Least ==
  ASSUME NEW T \in SUBSET Nat, T # {}
  PROVE  \E k \in T : \A l \in T : k <= l
<1> DEFINE R == {p \in Nat \X Nat : p[1] < p[2]}
<1>1. IsWellFoundedOn(R, Nat)
  <2>1. OpToRel(<, Nat) = R
    BY DEF OpToRel
  <2> QED
    BY <2>1, NatLessThanWellFounded
<1>2. \A k, l \in Nat : <<l, k>> \in R <=> l < k
  OBVIOUS
<1> HIDE DEF R
<1>3. PICK k \in T : \A l \in T : <<l, k>> \notin R
  BY <1>1, WFMin
<1>4. \A l \in T : ~(l < k) /\ l \in Nat /\ k \in Nat
  BY <1>2, <1>3
<1> QED
  BY <1>4

\* Powers of two up to this one are as they should be.
Top == Precision + MaxExponent + 1

LEMMA PowerStep == Top \in Nat /\ \A k \in 1..Top : 2^k = 2 * 2^(k - 1)
<1>1. Top \in Nat
  BY DEF Top
<1>2. ASSUME NEW k \in 1..Top PROVE 2^k = 2 * 2^(k - 1)
  <2> DEFINE l == k - 1
  <2>1. l \in 0..(Precision + MaxExponent) /\ k = l + 1
    BY <1>1 DEF Top
  <2> HIDE DEF l
  <2>2. 2^(l + 1) = 2 * 2^l
    BY <2>1, PowersOfTwo
  <2>3. 2^k = 2 * 2^l
    BY <2>1, <2>2
  <2> QED
    BY <2>3 DEF l
<1> QED
  BY <1>1, <1>2

LEMMA PowerType == \A k \in 0..Top : 2^k \in Nat \ {0}
<1> DEFINE T == {k \in 0..Top : 2^k \notin Nat \ {0}}
<1> SUFFICES ASSUME T # {} PROVE FALSE
  OBVIOUS
<1>0. T \subseteq Nat
  BY PowerStep
<1>1. PICK m \in T : \A l \in T : m <= l
  BY <1>0, Least, Zenon
<1>2. m # 0
  <2>1. 2^0 = 1
    OBVIOUS
  <2>2. 2^m \notin Nat \ {0}
    BY <1>1
  <2>3. m = 0 => 2^m = 2^0
    BY Zenon
  <2> QED
    BY <2>1, <2>2, <2>3
<1>3. m \in 1..Top /\ m - 1 \in 0..Top /\ ~(m <= m - 1)
  BY <1>2, PowerStep
<1>4. 2^(m - 1) \in Nat \ {0}
  BY <1>1, <1>3
<1> QED
  BY <1>3, <1>4, PowerStep

LEMMA PowerSum ==
  \A b \in 0..Top : \A a \in 0..Top : a + b <= Top => 2^(a + b) = 2^a * 2^b
<1> DEFINE Law(a, b) == 2^(a + b) = 2^a * 2^b
           T == {b \in 0..Top : \E a \in 0..Top : a + b <= Top /\ ~Law(a, b)}
<1> SUFFICES ASSUME T # {} PROVE FALSE
  OBVIOUS
<1>0. T \subseteq Nat
  BY PowerStep
<1>1. PICK b \in T : \A l \in T : b <= l
  BY <1>0, Least, Zenon
<1>2. PICK a \in 0..Top : a + b <= Top /\ ~Law(a, b)
  OBVIOUS
<1>3. b # 0
  <2> SUFFICES ASSUME b = 0 PROVE Law(a, b)
    BY <1>2
  <2>1. a + b = a /\ 2^0 = 1 /\ 2^a \in Nat
    BY PowerType
  <2> QED
    BY <2>1
<1>4. b - 1 \in 0..Top /\ ~(b <= b - 1) /\ a + (b - 1) <= Top /\ b \in 1..Top /\ a + b \in 1..Top
      /\ a + b - 1 = a + (b - 1)
  BY <1>2, <1>3, PowerStep
<1>5. Law(a, b - 1)
  BY <1>1, <1>4
<1>6. 2^(a + b) = 2 * 2^(a + (b - 1)) /\ 2^b = 2 * 2^(b - 1)
  BY <1>4, PowerStep
<1>7. 2^a \in Nat /\ 2^(b - 1) \in Nat
  BY <1>4, PowerType
<1>8. \A p, q \in Nat : 2 * (p * q) = p * (2 * q)
  OBVIOUS
<1> QED
  BY <1>2, <1>5, <1>6, <1>7, <1>8

\* Powers grow.
LEMMA PowerGrows ==
  ASSUME NEW a \in 0..Top, NEW b \in 0..Top
  PROVE  /\ a <= b => 2^a <= 2^b /\ 2^b = 2^(b - a) * 2^a /\ b - a \in 0..Top
         /\ a < b => 2 * 2^a <= 2^b
         /\ 2^a < 2^b => a < b
<1>1. ASSUME NEW c \in 0..Top, NEW d \in 0..Top, c <= d
      PROVE  2^c <= 2^d /\ 2^d = 2^(d - c) * 2^c /\ d - c \in 0..Top
  <2>1. d - c \in 0..Top /\ c + (d - c) = d
    BY <1>1, PowerStep
  <2>2. 2^c \in Nat \ {0} /\ 2^(d - c) \in Nat \ {0}
    BY <2>1, PowerType
  <2>3. 2^d = 2^c * 2^(d - c)
    BY <2>1, PowerSum
  <2>4. \A p, q \in Nat \ {0} : p <= p * q /\ p * q = q * p
    OBVIOUS
  <2> QED
    BY <2>1, <2>2, <2>3, <2>4
<1>2. ASSUME a < b PROVE 2 * 2^a <= 2^b
  <2>1. a + 1 \in 0..Top /\ a + 1 <= b /\ a + 1 \in 1..Top /\ (a + 1) - 1 = a
    BY <1>2, PowerStep
  <2>2. 2^(a + 1) = 2 * 2^a
    BY <2>1, PowerStep
  <2> QED
    BY <2>1, <2>2, <1>1
<1>3. ASSUME ~(a < b) PROVE ~(2^a < 2^b)
  <2>1. b <= a
    BY <1>3, PowerStep
  <2>2. 2^b <= 2^a /\ 2^a \in Nat /\ 2^b \in Nat
    BY <2>1, <1>1, PowerType
  <2> QED
    BY <2>2
<1> QED
  BY <1>1, <1>2, <1>3

------------------------------------------------------------------------------
\* What Nearest() yields.

LEMMA TimesGrows == \A a, b, w \in Nat : a <= b => a * w <= b * w
  OBVIOUS

LEMMA TimesType == \A a, b \in Nat : a * b \in Nat
  OBVIOUS

LEMMA PositiveType == \A a, b \in Nat \ {0} : a * b \in Nat \ {0}
  OBVIOUS

\* k is the exponent of the last place of n / den.
Fits(n, den, k) ==
  /\ n < 2^(Precision + k) * den
  /\ k > 0 => n >= 2^(Precision + k - 1) * den

InRange(n, den) == n < 2^(Precision + MaxExponent) * den

LEMMA ExponentType ==
  ASSUME NEW k \in 0..MaxExponent
  PROVE  /\ Precision + k \in 0..Top /\ k \in 0..Top /\ Precision \in 0..Top
         /\ Precision - 1 \in 0..Top
         /\ k > 0 => Precision + k - 1 \in 0..Top /\ k - 1 \in 0..MaxExponent
  BY DEF Top

LEMMA Exponent ==
  ASSUME NEW n \in Nat, NEW den \in Nat \ {0}, InRange(n, den)
  PROVE  \E k \in 0..MaxExponent : Fits(n, den, k)
<1> DEFINE T == {k \in 0..MaxExponent : n < 2^(Precision + k) * den}
<1>1. MaxExponent \in T /\ T \subseteq Nat
  BY DEF InRange
<1>2. PICK k \in T : \A l \in T : k <= l
  BY <1>1, Least, Zenon
<1>3. ASSUME k > 0 PROVE n >= 2^(Precision + k - 1) * den
  <2>1. k - 1 \in 0..MaxExponent /\ ~(k <= k - 1) /\ Precision + k - 1 \in 0..Top
    BY <1>3, ExponentType
  <2>2. ~(n < 2^(Precision + (k - 1)) * den)
    BY <1>2, <2>1
  <2>3. 2^(Precision + k - 1) \in Nat
    BY <2>1, PowerType
  <2> QED
    BY <2>2, <2>3
<1> QED
  BY <1>3 DEF Fits

\* Rounded to a multiple of w, a number stays between the multiples that it is between.
LEMMA Between ==
  ASSUME NEW R \in Nat, NEW C \in Nat, NEW n \in Nat, NEW w \in Nat \ {0},
         2 * (R * w - n) <= w, 2 * (n - R * w) <= w
  PROVE  /\ n <= C * w => R <= C
         /\ n >= C * w => R >= C
<1>1. \A a, b \in Nat : a < b => a * w + w <= b * w
  <2> SUFFICES ASSUME NEW a \in Nat, NEW b \in Nat, a < b PROVE a * w + w <= b * w
    OBVIOUS
  <2>1. (a + 1) * w <= b * w
    BY TimesGrows
  <2>2. (a + 1) * w = a * w + w
    OBVIOUS
  <2> QED
    BY <2>1, <2>2
<1>2. R * w \in Nat /\ C * w \in Nat
  BY TimesType
<1>3. R > C => C * w + w <= R * w
  BY <1>1
<1>4. R < C => R * w + w <= C * w
  BY <1>1
<1> DEFINE r == R * w  c == C * w
<1> HIDE DEF r, c
<1>5. /\ r \in Nat /\ c \in Nat /\ 2 * (r - n) <= w /\ 2 * (n - r) <= w
      /\ R > C => c + w <= r
      /\ R < C => r + w <= c
  BY <1>2, <1>3, <1>4 DEF r, c
<1>6. n <= c => R <= C
  BY <1>5
<1>7. n >= c => R >= C
  BY <1>5
<1> QED
  BY <1>6, <1>7 DEF c

LEMMA RoundUpNear ==
  ASSUME NEW n \in Nat, NEW den \in Nat \ {0}, NEW unit \in Nat \ {0},
         NEW R, R = RoundUp(n, den, unit), NEW w, w = unit * den
  PROVE  R \in Nat /\ 2 * (R * w - n) <= w /\ 2 * (n - R * w) <= w
<1> DEFINE q == n \div w
           r == n % w
<1>1. w \in Nat \ {0}
  BY PositiveType
<1>2. q \in Nat /\ r \in 0..(w - 1)
  BY <1>1
<1>3. r = n - q * w
  BY <1>1
<1>4. R = IF 2 * r > w \/ (2 * r = w /\ q % 2 = 1) THEN q + 1 ELSE q
  BY DEF RoundUp
<1>5. (q + 1) * w = q * w + w /\ q * w \in Nat
  BY <1>1, <1>2
<1> HIDE DEF q, r
<1>6. CASE R = q + 1 /\ 2 * r >= w
  <2>1. R * w = q * w + w
    BY <1>5, <1>6
  <2> QED
    BY <1>1, <1>2, <1>3, <1>5, <1>6, <2>1
<1>7. CASE R = q /\ 2 * r <= w
  <2>1. R * w = q * w
    BY <1>7
  <2> QED
    BY <1>1, <1>2, <1>3, <1>5, <1>7, <2>1
<1> QED
  BY <1>1, <1>2, <1>4, <1>6, <1>7

\* A product of powers.
LEMMA PowerTimes ==
  ASSUME NEW k \in 0..MaxExponent, NEW den \in Nat \ {0}
  PROVE  /\ 2^k * den \in Nat \ {0}
         /\ 2^(Precision + k) * den = 2^Precision * (2^k * den)
         /\ k > 0 => 2^(Precision + k - 1) * den = 2^(Precision - 1) * (2^k * den)
<1>1. /\ 2^k \in Nat \ {0} /\ 2^Precision \in Nat /\ 2^(Precision - 1) \in Nat
  BY ExponentType, PowerType
<1>2. 2^(Precision + k) = 2^Precision * 2^k
  BY ExponentType, PowerSum
<1>3. k > 0 => 2^(Precision + k - 1) = 2^(Precision - 1) * 2^k
  <2>1. (Precision - 1) + k = Precision + k - 1 /\ (Precision - 1) + k <= Top
    BY DEF Top
  <2>2. 2^((Precision - 1) + k) = 2^(Precision - 1) * 2^k
    BY <2>1, ExponentType, PowerSum
  <2> QED
    BY <2>1, <2>2
<1>4. \A a, b, c \in Nat : (a * b) * c = a * (b * c)
  OBVIOUS
<1> QED
  BY <1>1, <1>2, <1>3, <1>4, PositiveType

\* The float is a multiple R of the last place 2^k, and no other multiple is closer.
Rounds(n, den, k, R) ==
  /\ k \in 0..MaxExponent /\ Fits(n, den, k)
  /\ R \in 0..2^Precision /\ (k > 0 => R >= 2^(Precision - 1))
  /\ 2 * (R * (2^k * den) - n) <= 2^k * den
  /\ 2 * (n - R * (2^k * den)) <= 2^k * den

LEMMA NearestShape ==
  ASSUME NEW n \in Nat, NEW den \in Nat \ {0}, InRange(n, den)
  PROVE  \E k, R \in Nat : Rounds(n, den, k, R) /\ Nearest(n, den) = R * 2^k
<1> DEFINE k == CHOOSE k \in 0..MaxExponent :
                  /\ abs(n) < 2^(Precision + k) * den
                  /\ k > 0 => abs(n) >= 2^(Precision + k - 1) * den
           R == RoundUp(n, den, 2^k)
           w == 2^k * den
<1>1. abs(n) = n /\ ~(n < 0)
  BY DEF abs
<1>2. k \in 0..MaxExponent /\ Fits(n, den, k)
  BY <1>1, Exponent DEF Fits
<1>3. Nearest(n, den) = R * 2^k
  BY <1>1 DEF Nearest
<1> HIDE DEF k
<1>4. 2^k \in Nat \ {0} /\ 2^Precision \in Nat /\ 2^(Precision - 1) \in Nat
  BY <1>2, ExponentType, PowerType
<1>5. R \in Nat /\ 2 * (R * w - n) <= w /\ 2 * (n - R * w) <= w
  BY <1>4, RoundUpNear
<1>6. /\ w \in Nat \ {0} /\ 2^(Precision + k) * den = 2^Precision * w
      /\ k > 0 => 2^(Precision + k - 1) * den = 2^(Precision - 1) * w
  BY <1>2, PowerTimes
<1> HIDE DEF R, w
<1>7. n <= 2^Precision * w /\ (k > 0 => n >= 2^(Precision - 1) * w)
  BY <1>2, <1>4, <1>6, TimesType DEF Fits
<1>8. R <= 2^Precision /\ (k > 0 => R >= 2^(Precision - 1))
  BY <1>4, <1>5, <1>6, <1>7, Between
<1>9. Rounds(n, den, k, R)
  BY <1>2, <1>4, <1>5, <1>8 DEF Rounds, w
<1> QED
  BY <1>2, <1>3, <1>5, <1>9

\* A float.
Grid(c) == \E k \in 0..MaxExponent : \E m \in 0..2^Precision : c = m * 2^k

LEMMA GridType == ASSUME NEW c, Grid(c) PROVE c \in Nat
  BY ExponentType, PowerType, TimesType DEF Grid

\* Rounding does not pass a float.
LEMMA Sandwich ==
  ASSUME NEW n \in Nat, NEW den \in Nat \ {0}, InRange(n, den), NEW c, Grid(c)
  PROVE  /\ n <= c * den => Nearest(n, den) <= c
         /\ n >= c * den => Nearest(n, den) >= c
<1>1. PICK k, R \in Nat : Rounds(n, den, k, R) /\ Nearest(n, den) = R * 2^k
  BY NearestShape
<1>2. PICK e \in 0..MaxExponent : \E m \in 0..2^Precision : c = m * 2^e
  BY DEF Grid
<1>3. PICK m \in 0..2^Precision : c = m * 2^e
  BY <1>2
<1> DEFINE w == 2^k * den
<1>4. /\ k \in 0..MaxExponent /\ 2^k \in Nat \ {0} /\ 2^e \in Nat \ {0} /\ w \in Nat \ {0}
      /\ 2^Precision \in Nat \ {0} /\ 2^(Precision - 1) \in Nat \ {0} /\ c \in Nat /\ m \in Nat
  BY <1>1, <1>3, ExponentType, PowerType, PowerTimes, GridType DEF Rounds
<1>5. ASSUME NEW C \in Nat, c = C * 2^k
      PROVE  /\ n <= c * den => Nearest(n, den) <= c
             /\ n >= c * den => Nearest(n, den) >= c
  <2>1. \A a, b, d \in Nat : (a * b) * d = a * (b * d)
    OBVIOUS
  <2>2. c * den = C * w
    BY <1>4, <1>5, <2>1
  <2>3. 2 * (R * w - n) <= w /\ 2 * (n - R * w) <= w
    BY <1>1 DEF Rounds
  <2> HIDE DEF w
  <2>4. (n <= C * w => R <= C) /\ (n >= C * w => R >= C)
    BY <1>4, <2>3, Between
  <2>5. (R <= C => R * 2^k <= C * 2^k) /\ (C <= R => C * 2^k <= R * 2^k)
    BY <1>4, TimesGrows
  <2>6. C * 2^k \in Nat /\ R * 2^k \in Nat
    BY <1>4, TimesType
  <2> QED
    BY <1>1, <1>5, <2>2, <2>4, <2>5, <2>6
<1>6. CASE k <= e
  <2>1. 2^e = 2^(e - k) * 2^k /\ e - k \in 0..Top
    BY <1>4, <1>6, ExponentType, PowerGrows
  <2>2. 2^(e - k) \in Nat
    BY <2>1, PowerType
  <2>3. \A a, b, d \in Nat : a * (b * d) = (a * b) * d
    OBVIOUS
  <2>4. c = (m * 2^(e - k)) * 2^k
    BY <1>3, <1>4, <2>1, <2>2, <2>3
  <2> QED
    BY <1>4, <1>5, <2>2, <2>4, TimesType
<1>7. CASE e < k
  <2> DEFINE low == 2^(Precision + k - 1)
  <2>0. k > 0 /\ Precision + k - 1 \in 0..Top /\ Precision + e <= Precision + k - 1
        /\ Precision + e \in 0..Top /\ e \in 0..Top
    BY <1>4, <1>7, ExponentType
  <2>1. low \in Nat /\ 2^(Precision + e) <= low
    BY <2>0, PowerType, PowerGrows
  <2>2. m * 2^e <= 2^Precision * 2^e /\ 2^(Precision + e) = 2^Precision * 2^e
    BY <1>4, <2>0, TimesGrows, PowerSum, ExponentType
  <2>3. c <= low
    BY <1>3, <1>4, <2>1, <2>2, TimesType
  <2>4. low = 2^(Precision - 1) * 2^k
    BY <1>4, <2>0, PowerTimes
  <2>5. n >= low * den /\ R >= 2^(Precision - 1)
    BY <1>1, <2>0 DEF Rounds, Fits
  <2> HIDE DEF low
  <2>6. R * 2^k >= low
    BY <1>4, <2>4, <2>5, TimesGrows
  <2>7. CASE c = low
    BY <1>4, <1>5, <2>4, <2>7
  <2>8. CASE c < low
    <3>1. c * den < low * den
      <4>1. \A a, b \in Nat, d \in Nat \ {0} : a < b => a * d < b * d
        OBVIOUS
      <4> QED
        BY <1>4, <2>1, <2>8, <4>1
    <3>2. ~(n <= c * den)
      BY <1>4, <2>1, <2>5, <3>1, TimesType
    <3>3. R * 2^k >= c
      BY <1>4, <2>1, <2>3, <2>6, TimesType
    <3> QED
      BY <1>1, <3>2, <3>3
  <2> QED
    BY <1>4, <2>1, <2>3, <2>7, <2>8
<1> QED
  BY <1>4, <1>6, <1>7

\* The same for both signs.
IsFloat(c) == c \in Int /\ Grid(abs(c))

LEMMA AbsFacts ==
  ASSUME NEW a \in Int
  PROVE  abs(a) \in Nat /\ (a >= 0 => abs(a) = a) /\ (a < 0 => abs(a) = -a)
  BY DEF abs

LEMMA NearestType ==
  ASSUME NEW n \in Nat, NEW den \in Nat \ {0}, InRange(n, den)
  PROVE  Nearest(n, den) \in Nat
  BY NearestShape, ExponentType, PowerType, TimesType DEF Rounds

LEMMA NearestNegative ==
  ASSUME NEW n \in Nat \ {0}, NEW den \in Nat \ {0}
  PROVE  Nearest(-n, den) = -Nearest(n, den)
<1> DEFINE Up(a) ==
      LET k == CHOOSE k \in 0..MaxExponent :
                 /\ a < 2^(Precision + k) * den
                 /\ k > 0 => a >= 2^(Precision + k - 1) * den
      IN  RoundUp(a, den, 2^k) * 2^k
<1>1. abs(-n) = n /\ abs(n) = n /\ -n < 0 /\ ~(n < 0)
  BY DEF abs
<1>2. Nearest(-n, den) = -Up(abs(-n)) /\ Nearest(n, den) = Up(abs(n))
  BY <1>1, Zenon DEF Nearest
<1> QED
  BY <1>1, <1>2, Zenon

LEMMA SignedSandwich ==
  ASSUME NEW num \in Int, NEW den \in Nat \ {0}, InRange(abs(num), den), NEW c, IsFloat(c)
  PROVE  /\ Nearest(num, den) \in Int
         /\ num <= c * den => Nearest(num, den) <= c
         /\ num >= c * den => Nearest(num, den) >= c
<1>0. c \in Int /\ Grid(abs(c))
  BY DEF IsFloat
<1>1. \A a \in Int, d \in Nat \ {0} : (a < 0 => a * d < 0) /\ (a >= 0 => a * d >= 0)
                                       /\ (-a) * d = -(a * d) /\ a * d \in Int
  OBVIOUS
<1>2. CASE num >= 0
  <2>1. num \in Nat /\ InRange(num, den)
    BY <1>2, AbsFacts
  <2>2. Nearest(num, den) \in Nat
    BY <2>1, NearestType
  <2>3. CASE c >= 0
    BY <1>0, <2>1, <2>2, <2>3, Sandwich, AbsFacts
  <2>4. CASE c < 0
    <3>1. c * den < 0 /\ c * den \in Int
      BY <1>0, <1>1, <2>4
    <3> QED
      BY <1>0, <2>1, <2>2, <2>4, <3>1
  <2> QED
    BY <1>0, <2>3, <2>4
<1>3. CASE num < 0
  <2> DEFINE n == -num
  <2>1. n \in Nat \ {0} /\ InRange(n, den) /\ num = -n
    BY <1>3, AbsFacts
  <2> HIDE DEF n
  <2>2. Nearest(n, den) \in Nat /\ Nearest(num, den) = -Nearest(n, den)
    BY <2>1, NearestType, NearestNegative
  <2>3. CASE c >= 0
    <3>1. c * den >= 0 /\ c * den \in Int
      BY <1>0, <1>1, <2>3
    <3> QED
      BY <1>0, <1>3, <2>2, <2>3, <3>1
  <2>4. CASE c < 0
    <3>1. Grid(-c) /\ (-c) * den = -(c * den) /\ c * den \in Int
      BY <1>0, <1>1, <2>4, AbsFacts
    <3>2. (n <= (-c) * den => Nearest(n, den) <= -c)
          /\ (n >= (-c) * den => Nearest(n, den) >= -c)
      BY <2>1, <3>1, Sandwich
    <3> QED
      BY <1>0, <2>1, <2>2, <3>1, <3>2
  <2> QED
    BY <1>0, <2>3, <2>4
<1> QED
  BY <1>2, <1>3

\* A float is not rounded.
LEMMA Exact ==
  ASSUME NEW c, IsFloat(c), InRange(abs(c), 1)
  PROVE  Nearest(c, 1) = c
<1>1. c \in Int /\ c * 1 = c
  BY DEF IsFloat
<1> QED
  BY <1>1, SignedSandwich

\* A float is a multiple of its last place.
LEMMA Canonical ==
  ASSUME NEW c, Grid(c), NEW K \in 0..MaxExponent, c < 2^(Precision + K)
  PROVE  \E k \in 0..K : \E M \in Nat :
           /\ c = M * 2^k /\ M < 2^Precision
           /\ c < 2^(Precision + k) /\ (k > 0 => c >= 2^(Precision + k - 1))
<1>1. c \in Nat
  BY GridType
<1>2. PICK e \in 0..MaxExponent : \E m \in 0..2^Precision : c = m * 2^e
  BY DEF Grid
<1>3. PICK m \in 0..2^Precision : c = m * 2^e
  BY <1>2
<1>4. InRange(c, 1)
  <2>1. Precision + K \in 0..Top /\ Precision + MaxExponent \in 0..Top
        /\ Precision + K <= Precision + MaxExponent
    BY DEF Top
  <2>2. 2^(Precision + K) <= 2^(Precision + MaxExponent)
        /\ 2^(Precision + K) \in Nat /\ 2^(Precision + MaxExponent) \in Nat
    BY <2>1, PowerGrows, PowerType
  <2> QED
    BY <1>1, <2>2 DEF InRange
<1>5. PICK k \in 0..MaxExponent : Fits(c, 1, k)
  BY <1>1, <1>4, Exponent
<1>6. /\ 2^k \in Nat \ {0} /\ 2^e \in Nat \ {0} /\ m \in Nat
      /\ 2^Precision \in Nat \ {0} /\ 2^(Precision - 1) \in Nat \ {0}
      /\ 2^(Precision + k) \in Nat /\ 2^(Precision + K) \in Nat
  BY ExponentType, PowerType
<1>7. /\ c < 2^(Precision + k)
      /\ k > 0 => c >= 2^(Precision + k - 1) /\ 2^(Precision + k - 1) \in Nat
  BY <1>5, <1>6, ExponentType, PowerType DEF Fits
<1>8. k <= K
  <2> SUFFICES ASSUME K < k PROVE FALSE
    OBVIOUS
  <2>1. k > 0 /\ Precision + K <= Precision + k - 1 /\ Precision + K \in 0..Top
        /\ Precision + k - 1 \in 0..Top
    BY ExponentType
  <2>2. 2^(Precision + K) <= 2^(Precision + k - 1)
    BY <2>1, PowerGrows
  <2> QED
    BY <1>1, <1>6, <1>7, <2>1, <2>2
<1>9. ASSUME NEW M \in Nat, c = M * 2^k PROVE M < 2^Precision
  <2>1. 2^(Precision + k) = 2^Precision * 2^k
    BY ExponentType, PowerSum
  <2>2. 2^Precision <= M => 2^Precision * 2^k <= M * 2^k
    BY <1>6, TimesGrows
  <2> QED
    BY <1>1, <1>6, <1>7, <1>9, <2>1, <2>2
<1>10. \E M \in Nat : c = M * 2^k
  <2>1. CASE k <= e
    <3>1. 2^e = 2^(e - k) * 2^k /\ e - k \in 0..Top
      BY <2>1, ExponentType, PowerGrows
    <3>2. 2^(e - k) \in Nat
      BY <3>1, PowerType
    <3>3. \A a, b, d \in Nat : a * (b * d) = (a * b) * d
      OBVIOUS
    <3>4. c = (m * 2^(e - k)) * 2^k
      BY <1>3, <1>6, <3>1, <3>2, <3>3
    <3> QED
      BY <1>6, <3>2, <3>4, TimesType
  <2>2. CASE e < k
    <3>0. k > 0 /\ Precision + k - 1 \in 0..Top /\ Precision + e <= Precision + k - 1
          /\ Precision + e \in 0..Top /\ e \in 0..Top
      BY <2>2, ExponentType
    <3>1. 2^(Precision + e) <= 2^(Precision + k - 1)
      BY <3>0, PowerGrows
    <3>2. m * 2^e <= 2^Precision * 2^e /\ 2^(Precision + e) = 2^Precision * 2^e
      BY <1>6, <3>0, TimesGrows, PowerSum, ExponentType
    <3>3. 2^(Precision + k - 1) = 2^(Precision - 1) * 2^k
      <4>1. 2^(Precision + k - 1) * 1 = 2^(Precision - 1) * (2^k * 1)
        BY <3>0, PowerTimes
      <4>2. 2^(Precision + k - 1) \in Nat
        BY <1>7, <3>0
      <4> QED
        BY <1>6, <4>1, <4>2
    <3>4. c = 2^(Precision + k - 1)
      BY <1>1, <1>3, <1>6, <1>7, <3>0, <3>1, <3>2, TimesType
    <3> QED
      BY <1>6, <3>3, <3>4
  <2> QED
    BY <2>1, <2>2
<1> QED
  BY <1>7, <1>8, <1>9, <1>10

------------------------------------------------------------------------------
\* floor(n + .5): the sum is rounded, but not past the next integer.

\* A power of two that divides another one.
LEMMA PowerDivides ==
  ASSUME NEW a \in 0..Top, NEW b \in 0..Top, a <= b
  PROVE  \E q \in Nat \ {0} : 2^b = q * 2^a
<1>1. 2^b = 2^(b - a) * 2^a /\ b - a \in 0..Top
  BY PowerGrows
<1> QED
  BY <1>1, PowerType

\* 1.0, a half and a quarter.
LEMMA OneFacts ==
  \E j \in (Precision + 1)..MaxExponent :
    /\ One = 2^j /\ j \in 0..Top /\ j - 1 \in 0..MaxExponent /\ j - 2 \in 0..MaxExponent
    /\ One \div 2 = 2^(j - 1) /\ One = 2 * 2^(j - 1) /\ 2^(j - 1) = 2 * 2^(j - 2)
    /\ 2^(j - 1) \in Nat \ {0} /\ 2^(j - 2) \in Nat \ {0} /\ One \in Nat \ {0}
<1>0. PICK j \in (2 * Precision - 1)..MaxExponent : One = 2^j
  BY NumericAssumption
<1>1. j \in (Precision + 1)..MaxExponent /\ One = 2^j
  BY <1>0
<1>2. /\ j \in 1..Top /\ j - 1 \in 0..MaxExponent /\ j - 2 \in 0..MaxExponent
      /\ j - 1 \in 1..Top /\ j - 2 \in 0..Top /\ (j - 1) - 1 = j - 2 /\ j - 1 \in 0..Top
  BY DEF Top
<1>3. 2^j = 2 * 2^(j - 1) /\ 2^(j - 1) = 2 * 2^((j - 1) - 1)
  BY <1>2, PowerStep
<1>4. 2^(j - 1) \in Nat \ {0} /\ 2^(j - 2) \in Nat \ {0}
  BY <1>2, PowerType
<1>5. \A h \in Nat : (2 * h) \div 2 = h
  OBVIOUS
<1>6. One \div 2 = 2^(j - 1)
  BY <1>1, <1>3, <1>4, <1>5
<1>7. 2^(j - 1) = 2 * 2^(j - 2) /\ One = 2 * 2^(j - 1) /\ One \in Nat \ {0}
  BY <1>1, <1>2, <1>3, <1>4
<1> QED
  BY <1>1, <1>2, <1>4, <1>6, <1>7

LEMMA PrecisionFacts ==
  /\ 2^Precision = 2 * 2^(Precision - 1)
  /\ 2^(Precision - 1) \in Nat /\ 2^(Precision - 1) >= 2
<1>1. Precision \in 1..Top /\ Precision - 1 \in 1..Top /\ 0 \in 0..Top /\ Precision - 1 \in 0..Top
      /\ 0 < Precision - 1
  BY DEF Top
<1>2. \A a \in 0..Top : a < Precision - 1 => 2 * 2^a <= 2^(Precision - 1)
  BY <1>1, PowerGrows
<1>3. 2 * 2^0 <= 2^(Precision - 1)
  BY Zenon, <1>1, <1>2
<1>4. 2^0 = 1
  OBVIOUS
<1> QED
  BY <1>1, <1>3, <1>4, PowerStep, PowerType

\* n + .5 is a float, or is rounded to one below the next integer: n at least .5.
LEMMA AboveHalf ==
  ASSUME NEW j \in (Precision + 1)..MaxExponent, NEW h \in Nat \ {0}, h = 2^(j - 1),
         NEW k \in 0..(j - 1), NEW M \in Nat, M < 2^Precision,
         NEW z, z = M * 2^k, z < 2^(Precision + k), h <= z
  PROVE  \/ Grid(z + h)
         \/ \E F \in Nat : \E c : /\ Grid(c) /\ F * (2 * h) <= z + h /\ z + h <= c
                                  /\ c < (F + 1) * (2 * h)
<1>1. j - 1 \in 0..Top /\ k \in 0..Top /\ j \in 1..Top /\ Precision + k \in 0..Top /\ j \in 0..Top
      /\ j - 1 \in 0..MaxExponent /\ k \in 0..MaxExponent /\ Precision \in 0..Top
  BY DEF Top
<1>2. PICK q \in Nat \ {0} : h = q * 2^k
  BY <1>1, PowerDivides
<1>3. 2^k \in Nat \ {0} /\ 2^Precision \in Nat \ {0} /\ 2^(Precision + k) \in Nat \ {0}
      /\ 2^(Precision + k) = 2^Precision * 2^k /\ z \in Nat
  BY <1>1, PowerType, PowerSum, TimesType
<1>4. \A a, b, d \in Nat : (a + b) * d = a * d + b * d
  OBVIOUS
<1>5. z + h = (M + q) * 2^k
  BY <1>2, <1>3, <1>4
<1>6. CASE M + q <= 2^Precision
  <2>1. M + q \in 0..2^Precision
    BY <1>2, <1>3, <1>6
  <2> QED
    BY <1>1, <1>5, <2>1 DEF Grid
<1>7. CASE M + q > 2^Precision
  <2>1. k <= j - 2
    <3> SUFFICES ASSUME k = j - 1 PROVE FALSE
      OBVIOUS
    <3>1. h = 2^k
      OBVIOUS
    <3>2. \A a, b \in Nat \ {0} : b = a * b => a = 1
      OBVIOUS
    <3>3. q = 1
      BY <1>2, <1>3, <3>1, <3>2
    <3> QED
      BY <1>3, <1>7, <3>3
  <2>2. 2^j = 2 * h
    BY <1>1, PowerStep
  <2>3. j <= Precision + k
    <3> SUFFICES ASSUME Precision + k <= j - 1 PROVE FALSE
      BY <1>1
    <3>1. 2^(Precision + k) <= 2^(j - 1)
      BY <1>1, PowerGrows
    <3> QED
      BY <1>3, <3>1
  <2> DEFINE f == (Precision + k) - j
             F == 2^f
  <2>4. f \in 0..Top /\ f + 1 <= Precision - 1 /\ Precision - 1 \in 0..Top
        /\ f + 1 \in 1..Top /\ f + 1 \in 0..Top
    BY <1>1, <2>1, <2>3 DEF Top
  <2>5. 2^(Precision + k) = F * (2 * h)
    BY <1>1, <2>2, <2>3, <2>4, PowerGrows
  <2>6. F \in Nat /\ 2^(f + 1) = 2 * F
    <3>1. (f + 1) - 1 = f
      BY <2>4
    <3> QED
      BY <2>4, <3>1, PowerType, PowerStep
  <2>7. 2^(f + 1) <= 2^(Precision - 1)
    BY <2>4, PowerGrows
  <2> HIDE DEF f, F
  <2>8. F * (2 * h) <= z + h
    <3>1. 2^Precision * 2^k <= (M + q) * 2^k
      BY <1>2, <1>3, <1>7, TimesGrows
    <3> QED
      BY <1>3, <1>5, <2>5, <3>1
  <2>9. \A a \in Nat : a * (2 * h) + h = (2 * a + 1) * h /\ (a + 1) * (2 * h) = a * (2 * h) + 2 * h
                       /\ a * (2 * h) \in Nat
    OBVIOUS
  <2>10. Grid((2 * F + 1) * h)
    <3>1. 2 * F + 1 \in 0..2^Precision
      BY <1>3, <2>6, <2>7, PrecisionFacts
    <3> QED
      BY <1>1, <3>1 DEF Grid
  <2>11. z + h <= (2 * F + 1) * h /\ (2 * F + 1) * h < (F + 1) * (2 * h)
    BY <1>3, <2>5, <2>6, <2>9
  <2> QED
    BY <2>6, <2>8, <2>10, <2>11
<1> QED
  BY <1>2, <1>3, <1>6, <1>7

\* The same for n between .25 and .5, but not the largest float below .5.
LEMMA UnderHalf ==
  ASSUME NEW j \in (Precision + 1)..MaxExponent, NEW h \in Nat \ {0}, h = 2^(j - 1),
         One = 2^j, One = 2 * h, One \div 2 = h,
         NEW k \in 0..(j - 1), NEW M \in Nat,
         NEW z, z = M * 2^k, z < 2^(Precision + k), 2^(j - 2) < z, z < h, z # BelowHalf
  PROVE  \E c : Grid(c) /\ z + h <= c /\ c < 2 * h
<1> DEFINE e == (j - 1) - Precision
           u == 2^e
<1>1. /\ e \in 0..Top /\ e \in 0..MaxExponent /\ e + 1 \in 0..MaxExponent /\ e + 1 \in 1..Top
      /\ k \in 0..Top /\ Precision + k \in 0..Top /\ j - 2 \in 0..Top /\ Precision \in 0..Top
      /\ Precision + 1 \in 0..Top /\ e + Precision = j - 1 /\ e + (Precision + 1) = j
      /\ j - 1 \in 0..Top /\ j \in 0..Top /\ (e + 1) - 1 = e
  BY DEF Top
<1> HIDE DEF e
<1>2. /\ u \in Nat \ {0} /\ 2^Precision \in Nat \ {0} /\ 2^k \in Nat \ {0}
      /\ 2^(Precision + 1) \in Nat \ {0}
      /\ 2^(j - 2) \in Nat /\ 2^(Precision + k) \in Nat /\ z \in Nat
  BY <1>1, PowerType, TimesType
<1>3. h = 2^Precision * u /\ One = u * 2^(Precision + 1) /\ 2^(e + 1) = 2 * u
  <2>1. 2^(e + Precision) = u * 2^Precision /\ 2^(e + (Precision + 1)) = u * 2^(Precision + 1)
    BY <1>1, PowerSum
  <2>2. 2^(e + 1) = 2 * 2^((e + 1) - 1)
    BY <1>1, PowerStep
  <2> QED
    BY <1>1, <1>2, <2>1, <2>2
<1>4. \A a, b \in Nat \ {0} : (a * b) \div b = a
  <2> SUFFICES ASSUME NEW a \in Nat \ {0}, NEW b \in Nat \ {0} PROVE (a * b) \div b = a
    OBVIOUS
  <2> DEFINE q == (a * b) \div b
  <2>1. q \in Nat /\ q * b <= a * b /\ a * b < (q + 1) * b
    OBVIOUS
  <2> HIDE DEF q
  <2>2. q >= a + 1 => q * b >= (a + 1) * b
    BY <2>1, TimesGrows
  <2>3. a >= q + 1 => a * b >= (q + 1) * b
    BY <2>1, TimesGrows
  <2>4. (a + 1) * b = a * b + b /\ a * b \in Nat /\ q * b \in Nat /\ (q + 1) * b = q * b + b
    BY <2>1
  <2>5. q = a
    BY <2>1, <2>2, <2>3, <2>4
  <2> QED
    BY <2>5 DEF q
<1>5. BelowHalf = h - u
  BY <1>2, <1>3, <1>4 DEF BelowHalf
<1>6. e <= k
  <2> SUFFICES ASSUME Precision + k <= j - 2 PROVE FALSE
    BY <1>1
  <2>1. 2^(Precision + k) <= 2^(j - 2)
    BY <1>1, PowerGrows
  <2> QED
    BY <1>2, <2>1
<1>7. PICK q \in Nat \ {0} : 2^k = q * u
  BY <1>1, <1>6, PowerDivides
<1> DEFINE A == M * q
           p == 2^Precision
<1>8. A \in Nat /\ z = A * u
  <2> HIDE DEF u
  <2>1. \A a, b, d \in Nat : a * (b * d) = (a * b) * d
    OBVIOUS
  <2>2. z = M * (q * u)
    BY <1>7
  <2>3. M \in Nat /\ q \in Nat /\ u \in Nat
    BY <1>2
  <2>4. M * (q * u) = (M * q) * u
    BY <2>1, <2>3
  <2>5. M * q \in Nat
    BY <2>3
  <2> QED
    BY <2>2, <2>4, <2>5
<1>9. p \in Nat \ {0} /\ p * u = h
  BY <1>2, <1>3
<1> HIDE DEF A, p, u
<1>10. A < p
  <2>1. p <= A => p * u <= A * u
    BY <1>2, <1>8, <1>9, TimesGrows
  <2> QED
    BY <1>2, <1>8, <1>9, <2>1
<1>11. A + 2 <= p
  <2> SUFFICES ASSUME A = p - 1 PROVE FALSE
    BY <1>8, <1>9, <1>10
  <2>1. \A a \in Nat \ {0}, b \in Nat : (a - 1) * b = a * b - b
    OBVIOUS
  <2>2. A * u = p * u - u
    BY <1>2, <1>9, <2>1
  <2> QED
    BY <1>5, <1>8, <1>9, <2>2
<1>12. (A + 2) * u <= p * u /\ (A + 2) * u = A * u + 2 * u
  <2>1. \A a, b \in Nat : (a + 2) * b = a * b + 2 * b
    OBVIOUS
  <2> QED
    BY <1>2, <1>8, <1>9, <1>11, <2>1, TimesGrows
<1> DEFINE c == (p - 1) * (2 * u)
<1>13. c = 2 * h - 2 * u
  <2>1. \A a \in Nat \ {0}, b \in Nat : (a - 1) * (2 * b) = 2 * (a * b) - 2 * b
    OBVIOUS
  <2> QED
    BY <1>2, <1>9, <2>1
<1>14. Grid(c)
  <2>1. p - 1 \in 0..2^Precision
    BY <1>9 DEF p
  <2> QED
    BY <1>1, <1>3, <2>1 DEF Grid
<1> HIDE DEF c
<1>15. z + h <= c /\ c < 2 * h
  BY <1>2, <1>8, <1>9, <1>12, <1>13
<1> QED
  BY <1>14, <1>15

\* The greatest multiple of w that is not above a number.
LEMMA FloorUnique ==
  ASSUME NEW w \in Nat \ {0}, NEW n \in Int, NEW f \in Int, f * w <= n, n < (f + 1) * w
  PROVE  f = n \div w
<1> DEFINE q == n \div w
<1>1. q \in Int /\ q * w <= n /\ n < (q + 1) * w
  OBVIOUS
<1> HIDE DEF q
<1>2. \A a, b \in Int : a < b => (a + 1) * w <= b * w
  OBVIOUS
<1>3. \A a \in Int : a * w \in Int
  OBVIOUS
<1>4. ~(q < f) /\ ~(f < q)
  BY <1>1, <1>2, <1>3
<1> QED
  BY <1>1, <1>4 DEF q

\* c is a float from u up that is less than the next integer.
Below(F, c, u) == IsFloat(c) /\ F * One <= u /\ u <= c /\ c < (F + 1) * One

\* With n + .5 goes such a float.
LEMMA Ceiling ==
  ASSUME NEW z, IsFloat(z), abs(z) < 2^(Precision - 1) * One, z # BelowHalf
  PROVE  \/ IsFloat(z + One \div 2)
         \/ \E F \in Int : \E c : Below(F, c, z + One \div 2)
<1>1. PICK j \in (Precision + 1)..MaxExponent :
        /\ One = 2^j /\ j \in 0..Top /\ j - 1 \in 0..MaxExponent /\ j - 2 \in 0..MaxExponent
        /\ One \div 2 = 2^(j - 1) /\ One = 2 * 2^(j - 1) /\ 2^(j - 1) = 2 * 2^(j - 2)
        /\ 2^(j - 1) \in Nat \ {0} /\ 2^(j - 2) \in Nat \ {0} /\ One \in Nat \ {0}
  BY OneFacts
<1> DEFINE h == 2^(j - 1)
<1>2. z \in Int /\ Grid(abs(z)) /\ abs(z) \in Nat
  BY AbsFacts DEF IsFloat
<1>3. abs(z) < 2^(Precision + (j - 1))
  <2>1. 2^(Precision + (j - 1)) = 2^((Precision - 1) + j) /\ (Precision - 1) + j <= Top
        /\ Precision - 1 \in 0..Top
    <3>1. Precision + (j - 1) = (Precision - 1) + j
      OBVIOUS
    <3> QED
      BY <3>1 DEF Top
  <2>2. 2^((Precision - 1) + j) = 2^(Precision - 1) * 2^j
    BY <1>1, <2>1, PowerSum
  <2> QED
    BY <1>1, <2>1, <2>2
<1>4. PICK k \in 0..(j - 1) : \E M \in Nat :
           /\ abs(z) = M * 2^k /\ M < 2^Precision
           /\ abs(z) < 2^(Precision + k) /\ (k > 0 => abs(z) >= 2^(Precision + k - 1))
  BY <1>1, <1>2, <1>3, Canonical
<1>5. PICK M \in Nat :
           /\ abs(z) = M * 2^k /\ M < 2^Precision
           /\ abs(z) < 2^(Precision + k) /\ (k > 0 => abs(z) >= 2^(Precision + k - 1))
  BY <1>4
<1>6. k \in 0..MaxExponent /\ k \in 0..Top /\ j - 1 \in 0..Top
  BY <1>1 DEF Top
<1>7. CASE h <= z
  <2>1. abs(z) = z
    BY <1>1, <1>2, <1>7, AbsFacts
  <2>i. h = 2^(j - 1) /\ h \in Nat \ {0} /\ z = M * 2^k /\ z < 2^(Precision + k) /\ h <= z
        /\ M < 2^Precision
    BY <1>1, <1>5, <1>7, <2>1
  <2>2. \/ Grid(z + h)
        \/ \E F \in Nat : \E c : /\ Grid(c) /\ F * (2 * h) <= z + h /\ z + h <= c
                                 /\ c < (F + 1) * (2 * h)
    BY Zenon, <2>i, AboveHalf
  <2>3. \A c : Grid(c) => IsFloat(c)
    BY GridType, AbsFacts DEF IsFloat
  <2>4. One = 2 * h /\ One \div 2 = h
    BY <1>1
  <2> HIDE DEF h
  <2>5. CASE Grid(z + h)
    BY <2>3, <2>4, <2>5
  <2>6. ASSUME NEW F \in Nat, NEW c, Grid(c), F * (2 * h) <= z + h, z + h <= c,
               c < (F + 1) * (2 * h)
        PROVE  F \in Int /\ Below(F, c, z + One \div 2)
    BY <2>3, <2>4, <2>6 DEF Below
  <2> QED
    BY Zenon, <2>2, <2>5, <2>6
<1>8. CASE 2^(j - 2) < z /\ z < h
  <2>1. abs(z) = z
    BY <1>1, <1>2, <1>8, AbsFacts
  <2>2. PICK c : Grid(c) /\ z + h <= c /\ c < 2 * h
    BY <1>1, <1>5, <1>8, <2>1, UnderHalf
  <2>3. IsFloat(c) /\ c \in Nat
    BY <2>2, GridType, AbsFacts DEF IsFloat
  <2>4. 0 * One <= z + One \div 2 /\ z + One \div 2 <= c /\ c < (0 + 1) * One
    BY <1>1, <1>2, <1>8, <2>2, <2>3
  <2>5. Below(0, c, z + One \div 2)
    BY Zenon, <2>3, <2>4 DEF Below
  <2> QED
    BY <2>5
<1>9. CASE -h <= z /\ z <= 2^(j - 2)
  <2> DEFINE e == j - 2
             c == 3 * 2^e
  <2>1. 3 \in 0..2^Precision /\ e \in 0..MaxExponent
    BY <1>1, PrecisionFacts
  <2>2. Grid(c) /\ c \in Nat
    <3> HIDE DEF e
    <3> QED
      BY <2>1, GridType DEF Grid
  <2>3. IsFloat(c)
    BY <2>2, AbsFacts DEF IsFloat
  <2>4. 0 * One <= z + One \div 2 /\ z + One \div 2 <= c /\ c < (0 + 1) * One
    BY <1>1, <1>2, <1>9
  <2>5. Below(0, c, z + One \div 2)
    BY Zenon, <2>3, <2>4 DEF Below
  <2> QED
    BY <2>5
<1>10. CASE z < -h
  <2>1. abs(z) = -z
    BY <1>1, <1>2, <1>10, AbsFacts
  <2>2. PICK q \in Nat \ {0} : h = q * 2^k
    BY <1>1, <1>6, PowerDivides
  <2>3. 2^k \in Nat \ {0} /\ 2^Precision \in Nat
    BY <1>6, ExponentType, PowerType
  <2>4. \A a, b \in Nat, d \in Nat : (a - b) * d = a * d - b * d
    OBVIOUS
  <2>5. -(z + h) = (M - q) * 2^k
    BY <1>2, <1>5, <2>1, <2>2, <2>3, <2>4
  <2>6. M >= q
    <3>1. M <= q => M * 2^k <= q * 2^k
      BY <2>3, TimesGrows
    <3> QED
      BY <1>1, <1>2, <1>5, <1>10, <2>1, <2>2, <3>1
  <2>7. M - q \in 0..2^Precision
    BY <1>5, <2>3, <2>6
  <2>8. Grid(-(z + h))
    BY <1>6, <2>5, <2>7 DEF Grid
  <2>9. z + h < 0 /\ z + h \in Int
    BY <1>1, <1>2, <1>10
  <2>10. IsFloat(z + h)
    BY <2>8, <2>9, AbsFacts DEF IsFloat
  <2> QED
    BY <1>1, <2>10
<1> QED
  BY <1>1, <1>2, <1>7, <1>8, <1>9, <1>10

\* An integer is a float, up to 2^Precision.
LEMMA WholeIsFloat ==
  ASSUME NEW m \in Int, abs(m) <= 2^Precision
  PROVE  IsFloat(m * One) /\ abs(m * One) = abs(m) * One
<1>1. PICK j \in (Precision + 1)..MaxExponent : One = 2^j /\ One \in Nat \ {0}
  BY OneFacts
<1>2. abs(m * One) = abs(m) * One
  <2>1. (m >= 0 => m * One >= 0) /\ (m < 0 => m * One < 0 /\ -(m * One) = (-m) * One)
        /\ m * One \in Int
    BY <1>1
  <2> QED
    BY <2>1 DEF abs
<1>3. abs(m) \in 0..2^Precision
  BY ExponentType, PowerType, AbsFacts
<1> DEFINE a == abs(m)
<1> HIDE DEF a
<1>4. Grid(a * 2^j)
  <2>1. a \in 0..2^Precision /\ j \in 0..MaxExponent
    BY <1>3 DEF a
  <2> QED
    BY <2>1 DEF Grid
<1> QED
  BY <1>1, <1>2, <1>4 DEF IsFloat, a

\* Numbers about as large as the integers that are asked for are in range.
LEMMA RangeOfOne ==
  ASSUME NEW n \in Nat, n <= 2^Precision * One
  PROVE  InRange(n, 1) \/ n = 2^Precision * One
<1>1. PICK j \in (Precision + 1)..MaxExponent : One = 2^j /\ One \in Nat \ {0} /\ j \in 0..Top
  BY OneFacts
<1>2. Precision + j \in 0..Top /\ Precision \in 0..Top /\ Precision + MaxExponent \in 0..Top
      /\ Precision + j <= Precision + MaxExponent
  BY DEF Top
<1>3. 2^(Precision + j) = 2^Precision * 2^j /\ 2^(Precision + j) <= 2^(Precision + MaxExponent)
  <2>1. Precision + j <= Top /\ j \in 0..Top
    BY <1>1, <1>2
  <2>2. 2^(Precision + j) = 2^Precision * 2^j
    BY <1>2, <2>1, PowerSum
  <2>3. 2^(Precision + j) <= 2^(Precision + MaxExponent)
    BY <1>2, PowerGrows
  <2> QED
    BY <2>2, <2>3
<1>4. 2^(Precision + j) \in Nat /\ 2^(Precision + MaxExponent) \in Nat
  BY <1>2, PowerType
<1> QED
  BY <1>1, <1>3, <1>4 DEF InRange

\* floor() sees the integer that it would see had the sum not been rounded.
LEMMA FloorKept ==
  ASSUME NEW z, IsFloat(z), abs(z) < 2^(Precision - 1) * One, z # BelowHalf,
         NEW f \in Int, f * One <= z + One \div 2, z + One \div 2 < (f + 1) * One
  PROVE  round_to_nearest(z) = f
<1> DEFINE h == One \div 2
           u == z + h
           big == 2^(Precision - 1)
           N == Nearest(u, 1)
<1>1. One \in Nat \ {0} /\ h \in Nat \ {0} /\ One = 2 * h
  BY OneFacts
<1>2. z \in Int /\ abs(z) \in Nat /\ u \in Int
  BY <1>1, AbsFacts DEF IsFloat
<1>3. 2^Precision = 2 * big /\ big \in Nat /\ big >= 2
  BY PrecisionFacts
<1>4. f * One <= u /\ u < (f + 1) * One
  OBVIOUS
<1>5. -(big * One) < z /\ z < big * One
  <2>1. big * One \in Nat
    BY <1>1, <1>3
  <2> HIDE DEF big
  <2> QED
    BY <1>2, <2>1, AbsFacts DEF big
<1> HIDE DEF h, u, big
<1>6. abs(f) <= 2^Precision
  <2>1. \A a, b \in Int : (a <= b => a * One <= b * One) /\ a * One \in Int
                          /\ (a + 1) * One = a * One + One /\ (-a) * One = -(a * One)
    BY <1>1
  <2>i. big \in Int /\ -big \in Int /\ f + 1 \in Int
    BY <1>3
  <2>2. ~(f >= big + 1)
    <3>1. f >= big + 1 => (big + 1) * One <= f * One
      BY <1>3, <2>1
    <3>2. (big + 1) * One = big * One + One /\ big * One \in Int /\ f * One \in Int
      BY Zenon, <2>i, <2>1
    <3> QED
      BY <1>1, <1>2, <1>4, <1>5, <3>1, <3>2 DEF u
  <2>3. ~(f + 1 <= -big)
    <3>1. f + 1 <= -big => (f + 1) * One <= (-big) * One
      BY <1>3, <2>1
    <3>2. (-big) * One = -(big * One) /\ big * One \in Int /\ (f + 1) * One \in Int
      BY Zenon, <2>i, <2>1
    <3> QED
      BY <1>1, <1>2, <1>4, <1>5, <3>1, <3>2 DEF u
  <2> QED
    BY <1>3, <2>2, <2>3, AbsFacts
<1>7. IsFloat(f * One)
  BY <1>6, WholeIsFloat
<1>8. InRange(abs(u), 1)
  <2>1. abs(u) < big * One + One /\ abs(u) \in Nat
    <3>1. big * One \in Nat
      BY <1>1, <1>3
    <3> QED
      BY <1>1, <1>2, <1>5, <3>1, AbsFacts DEF u
  <2>2. big * One + One <= 2^Precision * One
    <3>1. (big + 1) * One = big * One + One
      BY <1>1, <1>3
    <3>2. big + 1 \in Nat /\ 2^Precision \in Nat /\ big + 1 <= 2^Precision
      BY <1>3
    <3>3. (big + 1) * One <= 2^Precision * One
      BY <1>1, <3>2, TimesGrows
    <3> QED
      BY <3>1, <3>3
  <2>3. big * One + One \in Nat /\ 2^Precision * One \in Nat
    BY <1>1, <1>3
  <2> QED
    BY <2>1, <2>2, <2>3, RangeOfOne
<1>9. N \in Int /\ f * One <= N
  <2>1. u >= (f * One) * 1
    BY <1>1, <1>4
  <2> QED
    BY <1>2, <1>7, <1>8, <2>1, SignedSandwich
<1>10. N < (f + 1) * One
  <2>1. CASE IsFloat(u)
    <3>1. N = u
      BY <1>8, <2>1, Exact
    <3> QED
      BY <1>4, <3>1
  <2>2. ASSUME NEW F \in Int, NEW c, Below(F, c, u) PROVE N < (f + 1) * One
    <3>1. IsFloat(c) /\ c \in Int /\ F * One <= u /\ u <= c /\ c < (F + 1) * One
      BY <2>2 DEF Below, IsFloat
    <3>2. u < (F + 1) * One
      BY <1>1, <1>2, <3>1
    <3>3. F = f
      BY <1>1, <1>2, <1>4, <3>1, <3>2, FloorUnique
    <3>4. N <= c
      <4>1. u <= c * 1
        BY <3>1
      <4> QED
        BY <1>2, <1>8, <3>1, <4>1, SignedSandwich
    <3> QED
      BY <1>1, <1>9, <3>1, <3>3, <3>4
  <2>3. IsFloat(u) \/ \E F \in Int : \E c : Below(F, c, u)
    BY Ceiling DEF u, h
  <2> QED
    BY <2>1, <2>2, <2>3
<1> HIDE DEF N
<1>11. f = N \div One
  BY <1>1, <1>9, <1>10, FloorUnique
<1> QED
  BY <1>11 DEF N, u, h, round_to_nearest, plus

LEMMA FloatsAreFloats == ASSUME NEW a \in Floats PROVE IsFloat(a)
<1>1. PICK s \in {1, -1}, m \in Significands, k \in Exponents : a = s * m * 2^k
  BY DEF Floats
<1>2. k \in 0..MaxExponent /\ m \in 0..(2^Precision - 1)
  BY NumericAssumption
<1>3. 2^k \in Nat /\ 2^Precision \in Nat \ {0} /\ m \in 0..2^Precision
  BY <1>2, ExponentType, PowerType
<1> DEFINE b == m * 2^k
<1>4. Grid(b) /\ b \in Nat
  BY <1>2, <1>3, GridType DEF Grid
<1>5. a = b \/ a = -b
  <2>1. \A c, d \in Nat : 1 * c * d = c * d /\ -1 * c * d = -(c * d)
    OBVIOUS
  <2> QED
    BY <1>1, <1>3, <2>1
<1> HIDE DEF b
<1>6. a \in Int /\ abs(a) = b
  BY <1>4, <1>5 DEF abs
<1> QED
  BY <1>4, <1>6 DEF IsFloat

LEMMA ZeroIsFloat == IsFloat(0)
<1>1. Grid(0 * 2^0)
  <2>1. 0 \in 0..MaxExponent /\ 0 \in 0..2^Precision
    BY PrecisionFacts
  <2> QED
    BY Zenon, <2>1 DEF Grid
<1>2. 0 * 2^0 = 0 /\ abs(0) = 0
  BY DEF abs
<1> QED
  BY <1>1, <1>2 DEF IsFloat

------------------------------------------------------------------------------
\* Conversions to another unit and back.

\* Half of the range in which round_to_nearest() is exact.
LEMMA QuarterFacts ==
  /\ 2^(Precision - 1) = 2 * 2^(Precision - 2) /\ 2^(Precision - 2) \in Nat \ {0}
<1>1. Precision - 1 \in 1..Top /\ Precision - 2 \in 0..Top /\ (Precision - 1) - 1 = Precision - 2
  BY DEF Top
<1>2. 2^(Precision - 1) = 2 * 2^((Precision - 1) - 1)
  BY <1>1, PowerStep
<1> QED
  BY <1>1, <1>2, PowerType

LEMMA BelowHalfFacts == BelowHalf \in Int /\ 0 < BelowHalf /\ BelowHalf <= One \div 2
<1> DEFINE h == One \div 2
           m == 2^(Precision + 1)
           q == One \div m
<1>1. One \in Nat \ {0} /\ h \in Nat \ {0} /\ One = 2 * h
  BY OneFacts
<1>2. m \in Nat /\ m >= 8
  <2>1. Precision + 1 \in 1..Top /\ (Precision + 1) - 1 = Precision
    BY DEF Top
  <2>2. m = 2 * 2^((Precision + 1) - 1)
    BY <2>1, PowerStep
  <2> QED
    BY <2>1, <2>2, PrecisionFacts
<1> HIDE DEF h, m
<1>3. q \in Nat /\ q * m <= One
  BY <1>1, <1>2
<1> HIDE DEF q
<1>4. q * 8 <= One
  <2>1. \A a, b, c \in Nat : a <= b => c * a <= c * b
    OBVIOUS
  <2>2. q * 8 <= q * m /\ q * m \in Nat
    BY <1>2, <1>3, <2>1
  <2> QED
    BY <1>1, <1>3, <2>2
<1>5. BelowHalf = h - q
  BY DEF BelowHalf, h, m, q
<1> QED
  BY <1>1, <1>3, <1>4, <1>5 DEF h

\* What is less than half from an integer is rounded to it.
LEMMA RoundsTo ==
  ASSUME NEW n \in Int, abs(n) < 2^(Precision - 2), NEW z, IsFloat(z),
         n * One - One \div 2 < z, z < n * One + One \div 2,
         n = 0 => z = 0
  PROVE  round_to_nearest(z) = n
<1> DEFINE h == One \div 2
           big == 2^(Precision - 2)
<1>1. One \in Nat \ {0} /\ h \in Nat \ {0} /\ One = 2 * h /\ big \in Nat \ {0} /\ z \in Int
      /\ 2^(Precision - 1) = 2 * big
  BY OneFacts, QuarterFacts DEF IsFloat
<1>2. \A a, b \in Int : (a <= b => a * One <= b * One) /\ a * One \in Int
                        /\ (a + 1) * One = a * One + One /\ (-a) * One = -(a * One)
                        /\ (2 * a) * One = 2 * (a * One) /\ 1 * One = One
  BY <1>1
<1>3. abs(n) < big /\ n * One - h < z /\ z < n * One + h
  OBVIOUS
<1> HIDE DEF h, big
<1>4. -big <= n /\ n <= big
  BY <1>1, <1>3, AbsFacts
<1>5. -(big * One) <= n * One /\ n * One <= big * One /\ n * One \in Int /\ big * One \in Int
      /\ 1 * One <= big * One
  BY <1>1, <1>2, <1>4
<1>6. abs(z) < 2^(Precision - 1) * One
  <2>1. (2 * big) * One = 2 * (big * One)
    BY <1>1, <1>2
  <2> QED
    BY <1>1, <1>2, <1>3, <1>5, <2>1, AbsFacts
<1>7. z # BelowHalf
  <2>1. BelowHalf \in Int /\ 0 < BelowHalf /\ BelowHalf <= h
    BY BelowHalfFacts DEF h
  <2>2. n >= 1 => 1 * One <= n * One
    BY <1>2
  <2>3. n <= -1 => n * One <= (-1) * One /\ (-1) * One = -(1 * One)
    BY <1>2
  <2> QED
    BY <1>1, <1>2, <1>3, <1>5, <2>1, <2>2, <2>3
<1>8. n * One <= z + h /\ z + h < (n + 1) * One
  BY <1>1, <1>2, <1>3, <1>5
<1> QED
  BY <1>6, <1>7, <1>8, FloorKept DEF h

LEMMA NearestIsFloat ==
  ASSUME NEW n \in Nat, NEW den \in Nat \ {0}, InRange(n, den)
  PROVE  Grid(Nearest(n, den)) /\ Nearest(n, den) \in Nat
<1>1. PICK k, R \in Nat : Rounds(n, den, k, R) /\ Nearest(n, den) = R * 2^k
  BY NearestShape
<1>2. Grid(R * 2^k)
  BY <1>1 DEF Grid, Rounds
<1> QED
  BY <1>1, <1>2, GridType

\* Divided by a factor and multiplied by it, the integer a has moved by less than half.
LEMMA MovedLittle ==
  ASSUME NEW a \in Nat, a < 2^(Precision - 2), NEW D \in 2..(One \div 4),
         NEW Q, Q = Nearest(a * One, D), NEW p, p = Nearest(Q * D, 1)
  PROVE  /\ InRange(a * One, D) /\ Q \in Nat /\ InRange(Q * D, 1)
         /\ Grid(p) /\ p \in Nat
         /\ a * One - One \div 2 < p /\ p < a * One + One \div 2
<1>1. PICK j \in (Precision + 1)..MaxExponent :
        /\ One = 2^j /\ j \in 0..Top /\ j - 1 \in 0..MaxExponent /\ j - 2 \in 0..MaxExponent
        /\ One \div 2 = 2^(j - 1) /\ One = 2 * 2^(j - 1) /\ 2^(j - 1) = 2 * 2^(j - 2)
        /\ 2^(j - 1) \in Nat \ {0} /\ 2^(j - 2) \in Nat \ {0} /\ One \in Nat \ {0}
  BY OneFacts
<1> DEFINE h == 2^(j - 1)
           A == a * One
           B == Q * D
           half == 2^(Precision - 1)
           quarter == 2^(Precision - 2)
<1>2. /\ h \in Nat \ {0} /\ One = 2 * h /\ half = 2 * quarter /\ quarter \in Nat \ {0}
      /\ 2^Precision = 2 * half /\ half \in Nat \ {0}
  BY <1>1, PrecisionFacts, QuarterFacts
<1>3. D \in Nat \ {0} /\ 2 * D <= h
  BY <1>1
<1>4. A \in Nat /\ A + One <= half * h
  <2>1. (a + 1) * One <= quarter * One
    BY <1>1, <1>2, TimesGrows
  <2>2. \A b, c \in Nat : b * (2 * c) = (2 * b) * c /\ (b + 1) * c = b * c + c /\ b * c \in Nat
    OBVIOUS
  <2>3. quarter * (2 * h) = (2 * quarter) * h /\ (a + 1) * One = a * One + One /\ a * One \in Nat
    BY <1>1, <1>2, <2>2
  <2> QED
    BY <1>2, <2>1, <2>3
<1> HIDE DEF A
<1>5. InRange(A, D)
  <2>1. A < 2^Precision * One /\ A * 1 <= A * D
    <3>1. \A c \in Nat, d \in Nat \ {0} : c <= c * d /\ c * 1 = c
      OBVIOUS
    <3>2. quarter * One <= 2^Precision * One
      BY <1>1, <1>2, TimesGrows
    <3>3. /\ half * h \in Nat /\ half * (2 * h) = 2 * (half * h)
          /\ (2 * half) * One = 2 * (half * (2 * h))
      BY <1>2
    <3> QED
      BY <1>1, <1>2, <1>3, <1>4, <3>1, <3>3
  <2>2. InRange(A, 1)
    <3>1. 2^Precision * One \in Nat
      BY <1>1, <1>2
    <3> QED
      BY <1>4, <2>1, <3>1, RangeOfOne
  <2>3. \A c \in Nat, d \in Nat \ {0} : c * 1 <= c * d /\ c * 1 = c /\ c * d \in Nat
    OBVIOUS
  <2>4. 2^(Precision + MaxExponent) \in Nat
    BY ExponentType, PowerType
  <2> QED
    BY <1>3, <1>4, <2>2, <2>3, <2>4 DEF InRange
<1>6. PICK k, R \in Nat : Rounds(A, D, k, R) /\ Q = R * 2^k
  BY <1>3, <1>4, <1>5, NearestShape DEF A
<1> DEFINE U == 2^k * D
<1>7. k \in 0..MaxExponent /\ 2^k \in Nat \ {0} /\ U \in Nat \ {0} /\ Q \in Nat /\ B = R * U
      /\ B \in Nat
  <2>1. k \in 0..MaxExponent /\ 2^k \in Nat \ {0}
    BY <1>6, ExponentType, PowerType DEF Rounds
  <2>2. \A b, c, d \in Nat : (b * c) * d = b * (c * d) /\ b * c \in Nat
    OBVIOUS
  <2> QED
    BY <1>3, <1>6, <2>1, <2>2, PositiveType
<1>8. U < h
  <2>1. CASE k = 0
    <3>1. 2^k = 1
      BY <2>1
    <3>2. U = D
      BY <1>3, <3>1
    <3> QED
      BY <1>2, <1>3, <3>2
  <2>2. CASE k > 0
    <3>1. A >= half * U
      BY <1>3, <1>6, <1>7, <2>2, PowerTimes DEF Rounds, Fits
    <3>2. h <= U => half * h <= half * U
      <4>1. \A b, c, d \in Nat : b <= c => d * b <= d * c
        OBVIOUS
      <4> QED
        BY <1>2, <1>7, <4>1
    <3>3. half * h \in Nat /\ half * U \in Nat
      BY <1>2, <1>7
    <3> QED
      BY <1>1, <1>2, <1>4, <1>7, <3>1, <3>2, <3>3
  <2> QED
    BY <1>7, <2>1, <2>2
<1>9. 2 * (B - A) <= U /\ 2 * (A - B) <= U
  BY <1>6, <1>7 DEF Rounds
<1> HIDE DEF B, U
<1>10. InRange(B, 1) /\ B + h <= half * h
  <2>1. B + h <= half * h
    BY <1>2, <1>4, <1>7, <1>8, <1>9
  <2>2. half * h \in Nat /\ 2^Precision * One = 4 * (half * h) /\ 2^Precision * One \in Nat
    BY <1>2
  <2>3. B < 2^Precision * One
    BY <1>2, <1>7, <2>1, <2>2
  <2> QED
    BY <1>7, <2>1, <2>2, <2>3, RangeOfOne
<1>11. PICK l, S \in Nat : Rounds(B, 1, l, S) /\ p = S * 2^l
  BY <1>7, <1>10, NearestShape DEF B
<1> DEFINE V == 2^l
<1>12. l \in 0..MaxExponent /\ V \in Nat \ {0} /\ p \in Nat /\ V * 1 = V /\ S * (V * 1) = p
  BY <1>11, ExponentType, PowerType, TimesType DEF Rounds
<1>13. V <= h
  <2> SUFFICES ASSUME V > h PROVE FALSE
    BY <1>2, <1>12
  <2>1. j - 1 \in 0..Top /\ l \in 0..Top
    BY <1>1, <1>12, ExponentType
  <2>2. l > 0
    <3>1. l = 0 => V = 1
      OBVIOUS
    <3> QED
      BY <1>2, <1>12, <3>1
  <2>3. B >= half * V
    <3>1. 2^(Precision + l - 1) * 1 = half * (V * 1)
      BY <1>12, <2>2, PowerTimes
    <3>2. B >= 2^(Precision + l - 1) * 1
      BY <1>11, <2>2 DEF Rounds, Fits
    <3> QED
      BY <1>12, <3>1, <3>2
  <2>4. half * h <= half * V
    <3>1. \A b, c, d \in Nat : b <= c => d * b <= d * c
      OBVIOUS
    <3> QED
      BY <1>2, <1>12, <3>1
  <2>5. half * h \in Nat /\ half * V \in Nat
    BY <1>2, <1>12
  <2> QED
    BY <1>2, <1>7, <1>10, <2>3, <2>4, <2>5
<1>14. 2 * (p - B) <= V /\ 2 * (B - p) <= V
  BY <1>11, <1>12 DEF Rounds
<1>15. A - h < p /\ p < A + h
  <2> HIDE DEF V, h
  <2> QED
    BY <1>2, <1>4, <1>7, <1>8, <1>9, <1>12, <1>13, <1>14
<1>16. Grid(p)
  BY <1>7, <1>10, NearestIsFloat DEF B
<1> QED
  BY <1>1, <1>5, <1>7, <1>10, <1>12, <1>15, <1>16 DEF A, B

LEMMA NearestZero == Nearest(0, 1) = 0
<1>1. abs(0) = 0
  BY DEF abs
<1>2. 0 < 2^(Precision + MaxExponent)
  <2>1. Precision + MaxExponent \in 0..Top
    BY DEF Top
  <2> QED
    BY <2>1, PowerType
<1>3. InRange(0, 1)
  <2>1. Precision + MaxExponent \in 0..Top
    BY DEF Top
  <2> QED
    BY <1>2, <2>1, PowerType DEF InRange
<1>4. InRange(abs(0), 1)
  BY Zenon, <1>1, <1>3
<1> QED
  BY Zenon, <1>4, ZeroIsFloat, Exact

\* The integer n, in units.
LEMMA DoubleIsExact ==
  ASSUME NEW n \in Int, abs(n) < 2^(Precision - 1)
  PROVE  double(n) = n * One
<1>1. 2^Precision = 2 * 2^(Precision - 1) /\ 2^(Precision - 1) \in Nat /\ One \in Nat \ {0}
      /\ abs(n) \in Nat
  BY PrecisionFacts, OneFacts, AbsFacts
<1>2. IsFloat(n * One) /\ abs(n * One) = abs(n) * One
  BY <1>1, WholeIsFloat
<1>3. abs(n) * One < 2^Precision * One /\ abs(n) * One \in Nat
  <2>1. \A a, b \in Nat : a < b => a * One < b * One
    BY <1>1
  <2>2. abs(n) < 2^Precision /\ 2^Precision \in Nat
    BY <1>1
  <2> QED
    BY <1>1, <2>1, <2>2, TimesType
<1>4. InRange(abs(n * One), 1)
  <2>1. 2^Precision * One \in Nat
    BY <1>1
  <2>2. InRange(abs(n) * One, 1)
    BY <1>3, <2>1, RangeOfOne
  <2> QED
    BY <1>2, <2>2
<1>5. Nearest(n * One, 1) = n * One
  BY <1>2, <1>4, Exact
<1> QED
  BY <1>5 DEF double

\* There and back, by any factor of the conversions.
LEMMA ThereAndBack ==
  ASSUME NEW n \in Int, abs(n) < 2^(Precision - 2), NEW D \in 2..(One \div 4)
  PROVE  round_to_nearest(times(over(double(n), D), D)) = n
<1> DEFINE a == abs(n)
           Q == Nearest(a * One, D)
           p == Nearest(Q * D, 1)
           z == times(over(double(n), D), D)
<1>1. a \in Nat /\ (n >= 0 => a = n) /\ (n < 0 => n = -a) /\ D \in Nat \ {0} /\ One \in Nat \ {0}
      /\ One \div 2 \in Nat
  BY AbsFacts, OneFacts
<1>2. double(n) = n * One
  <2>1. abs(n) < 2^(Precision - 1)
    BY <1>1, QuarterFacts
  <2> QED
    BY <2>1, DoubleIsExact
<1>3. z = Nearest(Nearest(n * One, D) * D, 1)
  BY <1>2 DEF times, over
<1>4. /\ Q \in Nat /\ Grid(p) /\ p \in Nat
      /\ a * One - One \div 2 < p /\ p < a * One + One \div 2
  BY <1>1, MovedLittle
<1>5. CASE n >= 0
  <2>1. z = p
    BY <1>1, <1>3, <1>5
  <2>2. IsFloat(z) /\ n * One - One \div 2 < z /\ z < n * One + One \div 2
    BY <1>1, <1>4, <1>5, <2>1, AbsFacts DEF IsFloat
  <2>3. n = 0 => z = 0
    <3> SUFFICES ASSUME n = 0 PROVE z = 0
      OBVIOUS
    <3>0. a = 0 /\ 0 * One = 0
      BY <1>1
    <3>1. Q = Nearest(0, D)
      BY <3>0
    <3>2. Nearest(0, D) <= 0
      <4>1. InRange(abs(0), D)
        <5>1. InRange(a * One, D)
          BY <1>1, MovedLittle
        <5>2. abs(0) = a * One
          BY <3>0 DEF abs
        <5> QED
          BY <5>1, <5>2
      <4>2. 0 <= 0 * D
        BY <1>1
      <4> QED
        BY <4>1, <4>2, ZeroIsFloat, SignedSandwich
    <3>3. Q * D = 0
      BY <1>1, <1>4, <3>1, <3>2
    <3> QED
      BY <2>1, <3>3, NearestZero
  <2> QED
    BY <2>2, <2>3, RoundsTo
<1>6. CASE n < 0
  <2>1. n * One = -(a * One) /\ a * One \in Nat \ {0}
    <3>1. \A b \in Int : (-b) * One = -(b * One)
      BY <1>1
    <3> QED
      BY <1>1, <1>6, <3>1, PositiveType
  <2>2. Nearest(n * One, D) = -Q
    BY <1>1, <2>1, NearestNegative
  <2>3. (-Q) * D = -(Q * D) /\ Q * D \in Nat
    BY <1>1, <1>4
  <2>4. z = -p
    <3>1. z = Nearest(-(Q * D), 1)
      BY <1>3, <2>2, <2>3
    <3>2. CASE Q * D = 0
      BY <3>1, <3>2, NearestZero
    <3>3. CASE Q * D # 0
      BY <2>3, <3>1, <3>3, NearestNegative
    <3> QED
      BY <3>2, <3>3
  <2>5. z \in Int /\ abs(z) = p
    BY <1>4, <2>4 DEF abs
  <2>6. IsFloat(z)
    BY <1>4, <2>5 DEF IsFloat
  <2>7. n * One - One \div 2 < z /\ z < n * One + One \div 2
    BY <1>1, <1>4, <2>1, <2>4
  <2>8. n # 0
    BY <1>6
  <2> QED
    BY <2>6, <2>7, <2>8, RoundsTo
<1> QED
  BY <1>5, <1>6

LEMMA TruncFacts ==
  ASSUME NEW n \in Int, NEW D \in Nat \ {0}
  PROVE  trunc(n, D) \in Int /\ abs(trunc(n, D) * D) <= abs(n) /\ abs(trunc(n, D)) <= abs(n)
<1>1. \A a \in Nat : a \div D \in Nat /\ (a \div D) * D <= a /\ a \div D <= (a \div D) * D
                     /\ (a \div D) * D \in Nat
  <2> SUFFICES ASSUME NEW a \in Nat PROVE a \div D \in Nat /\ (a \div D) * D <= a
                     /\ a \div D <= (a \div D) * D /\ (a \div D) * D \in Nat
    OBVIOUS
  <2> DEFINE q == a \div D
  <2>1. q \in Nat /\ q * D <= a
    OBVIOUS
  <2> HIDE DEF q
  <2>2. \A b \in Nat : b <= b * D /\ b * D \in Nat
    OBVIOUS
  <2>3. q <= q * D /\ q * D \in Nat
    BY <2>1, <2>2
  <2> QED
    BY <2>1, <2>3 DEF q
<1>2. CASE n < 0
  <2> DEFINE q == (-n) \div D
  <2>1. q \in Nat /\ q * D <= -n /\ q <= q * D /\ q * D \in Nat
    BY <1>1, <1>2
  <2>2. trunc(n, D) = -q
    BY <1>2 DEF trunc
  <2> HIDE DEF q
  <2>3. (-q) * D = -(q * D)
    BY <2>1
  <2>4. trunc(n, D) * D = -(q * D)
    BY <2>2, <2>3
  <2> QED
    BY <1>2, <2>1, <2>2, <2>4 DEF abs
<1>3. CASE ~(n < 0)
  <2> DEFINE q == n \div D
  <2>1. q \in Nat /\ q * D <= n /\ q <= q * D /\ q * D \in Nat
    BY <1>1, <1>3
  <2>2. trunc(n, D) = q
    BY <1>3 DEF trunc
  <2> HIDE DEF q
  <2> QED
    BY <1>3, <2>1, <2>2 DEF abs
<1> QED
  BY <1>2, <1>3

\* The seconds of a timespec are converted exactly.
LEMMA TimespecAndBack ==
  ASSUME NEW n \in Int, abs(n) < 2^(Precision - 2), Thousand^3 \in 2..(One \div 4)
  PROVE  timespec_to_nsec(nsec_to_timespec(n)) = n
<1> DEFINE D == Thousand^3
           s == trunc(n, D)
           m == s * D
<1>1. One \in Nat \ {0} /\ D \in Nat \ {0} /\ One \div 2 \in Nat \ {0}
  BY OneFacts
<1>2. s \in Int /\ m \in Int /\ abs(m) <= abs(n) /\ abs(s) <= abs(n)
      /\ abs(n) \in Nat /\ abs(m) \in Nat /\ abs(s) \in Nat
  <2>1. s \in Int
    BY <1>1, TruncFacts
  <2>2. m \in Int
    BY <1>1, <2>1
  <2> QED
    BY <1>1, <2>1, <2>2, TruncFacts, AbsFacts
<1>3. timespec_to_nsec(nsec_to_timespec(n))
        = round_to_nearest(times(double(s), D)) + (n - D * s)
  BY DEF timespec_to_nsec, nsec_to_timespec
<1> HIDE DEF D, s
<1>4. abs(m) < 2^(Precision - 1) /\ abs(s) < 2^(Precision - 1) /\ abs(m) < 2^(Precision - 2)
  BY <1>2, QuarterFacts
<1>5. double(s) = s * One /\ double(m) = m * One
  BY <1>2, <1>4, DoubleIsExact
<1>6. times(double(s), D) = m * One
  <2>1. \A a, b, c \in Int : (a * b) * c = (a * c) * b
    OBVIOUS
  <2>2. (s * One) * D = m * One
    BY <1>1, <1>2, <2>1
  <2>3. times(double(s), D) = double(m)
    BY <1>5, <2>2 DEF times, double
  <2> QED
    BY <1>5, <2>3
<1>7. round_to_nearest(m * One) = m
  <2>1. 2^Precision \in Nat /\ abs(m) <= 2^Precision
    BY <1>2, <1>4, PrecisionFacts
  <2>2. IsFloat(m * One) /\ m * One \in Int
    BY <1>2, <2>1, WholeIsFloat DEF IsFloat
  <2>3. m * One - One \div 2 < m * One /\ m * One < m * One + One \div 2
    BY <1>1, <2>2
  <2>4. m = 0 => m * One = 0
    BY <1>1
  <2> QED
    BY <1>2, <1>4, <2>2, <2>3, <2>4, RoundsTo
<1>8. D * s = m
  BY <1>1, <1>2
<1> QED
  BY <1>2, <1>3, <1>6, <1>7, <1>8

------------------------------------------------------------------------------
\* Comparison with a tolerance.

LEMMA DivBound ==
  ASSUME NEW n \in Nat, NEW w \in Nat \ {0}, NEW a \in Nat
  PROVE  a <= n \div w <=> a * w <= n
<1> DEFINE q == n \div w
<1>1. q \in Nat /\ q * w <= n /\ n < (q + 1) * w
  OBVIOUS
<1> HIDE DEF q
<1>2. a <= q => a * w <= q * w
  BY <1>1, TimesGrows
<1>3. q + 1 <= a => (q + 1) * w <= a * w
  BY <1>1, TimesGrows
<1>4. a * w \in Nat /\ q * w \in Nat /\ (q + 1) * w \in Nat
  BY <1>1, TimesType
<1>5. a <= q <=> a * w <= n
  BY <1>1, <1>2, <1>3, <1>4
<1> QED
  BY <1>5 DEF q

\* The rounding error, relative to the result and to the argument, or to the grid.
LEMMA ErrorBound ==
  ASSUME NEW n \in Nat, NEW den \in Nat \ {0}, InRange(n, den),
         NEW Q, Q = Nearest(n, den), NEW e, e = abs(Q * den - n)
  PROVE  /\ Q \in Nat /\ e \in Nat
         /\ \/ e * 2^Precision <= n /\ e * 2^Precision <= Q * den
            \/ 2 * e <= den
<1>1. PICK k, R \in Nat : Rounds(n, den, k, R) /\ Q = R * 2^k
  BY NearestShape
<1> DEFINE U == 2^k * den
           half == 2^(Precision - 1)
<1>2. k \in 0..MaxExponent /\ 2^k \in Nat \ {0} /\ U \in Nat \ {0} /\ Q \in Nat
      /\ 2^Precision = 2 * half /\ half \in Nat
  BY <1>1, ExponentType, PowerType, PowerTimes, TimesType, PrecisionFacts DEF Rounds
<1>3. Q * den = R * U
  <2>1. \A a, b, c \in Nat : (a * b) * c = a * (b * c)
    OBVIOUS
  <2> QED
    BY <1>1, <1>2, <2>1
<1>4. 2 * (R * U - n) <= U /\ 2 * (n - R * U) <= U /\ R * U \in Nat
  BY <1>1, <1>2, TimesType DEF Rounds
<1>5. e \in Nat /\ 2 * e <= U
  BY <1>2, <1>3, <1>4 DEF abs
<1>6. CASE k = 0
  <2>1. U = den
    <3>1. 2^k = 1
      BY <1>6
    <3> QED
      BY <3>1
  <2> QED
    BY <1>2, <1>5, <2>1
<1>7. CASE k > 0
  <2>1. n >= half * U
    BY <1>1, <1>2, <1>7, PowerTimes DEF Rounds, Fits
  <2>2. R * U >= half * U
    BY <1>1, <1>2, <1>7, TimesGrows DEF Rounds
  <2> HIDE DEF U, half
  <2>3. (2 * e) * half <= U * half /\ U * half = half * U /\ (2 * e) * half = e * (2 * half)
        /\ half * U \in Nat
    BY <1>2, <1>5, TimesGrows
  <2> QED
    BY <1>2, <1>3, <1>4, <1>5, <2>1, <2>2, <2>3
<1> QED
  BY <1>2, <1>6, <1>7

\* A product or a difference is rounded from an integer: exactly, if it is small.
LEMMA ErrorOfInteger ==
  ASSUME NEW n \in Nat, InRange(n, 1), NEW Q, Q = Nearest(n, 1), NEW e, e = abs(Q - n)
  PROVE  Q \in Nat /\ e \in Nat /\ e * 2^Precision <= n /\ e * 2^Precision <= Q
<1>1. Q \in Nat
  BY NearestType
<1>2. Q * 1 = Q
  BY <1>1
<1>3. /\ e \in Nat
      /\ \/ e * 2^Precision <= n /\ e * 2^Precision <= Q * 1
         \/ 2 * e <= 1
  BY <1>2, ErrorBound
<1>4. 2^Precision \in Nat
  BY PrecisionFacts
<1>5. CASE 2 * e <= 1
  <2>1. e = 0
    BY <1>3, <1>5
  <2>2. e * 2^Precision = 0
    BY <1>4, <2>1
  <2> QED
    BY <1>1, <2>1, <2>2
<1> QED
  BY <1>1, <1>2, <1>3, <1>5

\* epsilon is a float.
LEMMA EpsilonFacts ==
  2 * One = epsilon * 2^Precision /\ Grid(epsilon) /\ epsilon \in Nat \ {0}
<1>1. PICK j \in (2 * Precision - 1)..MaxExponent : One = 2^j
  BY NumericAssumption
<1> DEFINE e == (j + 1) - Precision
<1>2. j \in 0..Top /\ j + 1 \in 1..Top /\ e \in 0..MaxExponent /\ e \in 0..Top /\ (j + 1) - 1 = j
      /\ e + Precision = j + 1 /\ Precision \in 0..Top /\ e + Precision <= Top
  BY <1>1 DEF Top
<1> HIDE DEF e
<1>3. 2^(j + 1) = 2 * 2^j /\ 2^(e + Precision) = 2^e * 2^Precision
  <2>1. 2^(j + 1) = 2 * 2^((j + 1) - 1)
    BY <1>2, PowerStep
  <2>2. 2^(e + Precision) = 2^e * 2^Precision
    BY <1>2, PowerSum
  <2> QED
    BY <1>2, <2>1, <2>2
<1>4. 2^e \in Nat \ {0} /\ 2^Precision \in Nat \ {0}
  BY <1>2, PowerType
<1>5. 2 * One = 2^e * 2^Precision
  BY <1>1, <1>2, <1>3
<1>6. epsilon = 2^e
  <2>1. \A a, b \in Nat \ {0} : (a * b) \div b = a
    <3> SUFFICES ASSUME NEW a \in Nat \ {0}, NEW b \in Nat \ {0} PROVE (a * b) \div b = a
      OBVIOUS
    <3>1. a * b \in Nat /\ a * b <= a * b /\ a * b < (a + 1) * b
      OBVIOUS
    <3> QED
      BY <3>1, FloorUnique
  <2>2. (2^e * 2^Precision) \div 2^Precision = 2^e
    BY Zenon, <1>4, <2>1
  <2> QED
    BY <1>5, <2>2 DEF epsilon
<1>7. Grid(1 * 2^e) /\ 1 * 2^e = 2^e
  <2>1. 1 \in 0..2^Precision
    BY <1>4
  <2> QED
    BY <1>2, <1>4, <2>1 DEF Grid
<1> QED
  BY <1>4, <1>5, <1>6, <1>7

\* epsilon times a float that is not less than 1.0 is a float.
LEMMA ScaledFloat ==
  ASSUME NEW c, Grid(c), InRange(c, 1), One <= c
  PROVE  \E t \in Nat : Grid(t) /\ 2 * c = t * 2^Precision
<1>1. PICK j \in (2 * Precision - 1)..MaxExponent : One = 2^j
  BY NumericAssumption
<1>2. c \in Nat /\ One \in Nat \ {0} /\ MaxExponent \in 0..MaxExponent
  BY GridType, OneFacts
<1>3. c < 2^(Precision + MaxExponent)
  <2>1. 2^(Precision + MaxExponent) \in Nat
    BY ExponentType, PowerType
  <2> QED
    BY <2>1 DEF InRange
<1>4. PICK k \in 0..MaxExponent : \E M \in Nat :
           /\ c = M * 2^k /\ M < 2^Precision
           /\ c < 2^(Precision + k) /\ (k > 0 => c >= 2^(Precision + k - 1))
  BY <1>2, <1>3, Canonical
<1>5. PICK M \in Nat : c = M * 2^k /\ M < 2^Precision /\ c < 2^(Precision + k)
  BY <1>4
<1>6. Precision <= k
  <2> SUFFICES ASSUME Precision + k <= j PROVE FALSE
    BY <1>1
  <2>1. Precision + k \in 0..Top /\ j \in 0..Top
    BY <1>1 DEF Top
  <2>2. 2^(Precision + k) <= 2^j /\ 2^(Precision + k) \in Nat
    BY <2>1, PowerGrows, PowerType
  <2> QED
    BY <1>1, <1>2, <1>5, <2>2
<1> DEFINE e == (k + 1) - Precision
<1>7. k + 1 \in 1..Top /\ e \in 0..MaxExponent /\ e \in 0..Top /\ (k + 1) - 1 = k
      /\ e + Precision = k + 1 /\ Precision \in 0..Top /\ e + Precision <= Top
  BY <1>6 DEF Top
<1> HIDE DEF e
<1>8. 2^(k + 1) = 2 * 2^k /\ 2^(e + Precision) = 2^e * 2^Precision
  <2>1. 2^(k + 1) = 2 * 2^((k + 1) - 1)
    BY <1>7, PowerStep
  <2>2. 2^(e + Precision) = 2^e * 2^Precision
    BY <1>7, PowerSum
  <2> QED
    BY <1>7, <2>1, <2>2
<1>9. 2^e \in Nat \ {0} /\ 2^Precision \in Nat \ {0} /\ 2^k \in Nat \ {0}
  BY <1>7, ExponentType, PowerType
<1>10. 2 * c = (M * 2^e) * 2^Precision
  <2>1. \A a, b, d \in Nat : 2 * (a * b) = a * (2 * b) /\ a * (b * d) = (a * b) * d
    OBVIOUS
  <2>2. 2 * 2^k = 2^e * 2^Precision
    BY <1>7, <1>8
  <2>3. 2 * (M * 2^k) = M * (2 * 2^k)
    BY <1>9, <2>1
  <2>4. M * (2^e * 2^Precision) = (M * 2^e) * 2^Precision
    BY <1>9, <2>1
  <2> QED
    BY <1>5, <2>2, <2>3, <2>4
<1>11. Grid(M * 2^e) /\ M * 2^e \in Nat
  <2>1. M \in 0..2^Precision
    BY <1>5, <1>9
  <2> QED
    BY <1>7, <2>1, GridType DEF Grid
<1> QED
  BY <1>10, <1>11

LEMMA AbsMinus ==
  ASSUME NEW a \in Int, NEW b \in Int, InRange(abs(a - b), 1)
  PROVE  abs(minus(a, b)) = Nearest(abs(a - b), 1) /\ Nearest(abs(a - b), 1) \in Nat
<1> DEFINE n == abs(a - b)
<1>1. a - b \in Int /\ n \in Nat
  BY AbsFacts
<1>2. Nearest(n, 1) \in Nat
  BY <1>1, NearestType
<1>3. CASE a - b >= 0
  <2>1. n = a - b
    BY <1>1, <1>3, AbsFacts
  <2>2. minus(a, b) = Nearest(n, 1)
    BY <2>1 DEF minus
  <2> QED
    BY <1>2, <2>2, AbsFacts
<1>4. CASE a - b < 0
  <2>1. n \in Nat \ {0} /\ a - b = -n
    BY <1>1, <1>4, AbsFacts
  <2>2. minus(a, b) = -Nearest(n, 1)
    <3> HIDE DEF n
    <3>1. Nearest(a - b, 1) = -Nearest(n, 1)
      BY <2>1, NearestNegative
    <3> QED
      BY <3>1 DEF minus
  <2> HIDE DEF n
  <2>3. abs(minus(a, b)) = Nearest(n, 1)
    BY <1>2, <2>2 DEF abs
  <2> QED
    BY <1>2, <2>3 DEF n
<1> QED
  BY <1>1, <1>3, <1>4

\* The largest of two numbers and 1.0.
Largest(a, b) == IF Bigger(a, b) <= One THEN One ELSE Bigger(a, b)

LEMMA LargestFacts ==
  ASSUME NEW a \in Int, NEW b \in Int
  PROVE  /\ Bigger(a, b) \in {abs(a), abs(b)} /\ Bigger(a, b) \in Nat
         /\ Largest(a, b) \in {One, abs(a), abs(b)} /\ Largest(a, b) \in Nat \ {0}
         /\ One <= Largest(a, b) /\ abs(a) <= Largest(a, b) /\ abs(b) <= Largest(a, b)
<1>1. abs(a) \in Nat /\ abs(b) \in Nat /\ One \in Nat \ {0}
  BY AbsFacts, OneFacts
<1>2. /\ Bigger(a, b) \in {abs(a), abs(b)} /\ Bigger(a, b) \in Nat
      /\ abs(a) <= Bigger(a, b) /\ abs(b) <= Bigger(a, b)
  BY <1>1 DEF Bigger
<1> QED
  BY <1>1, <1>2 DEF Largest

\* Both tests of almost_equal() are one: the rounded difference is at most epsilon times
\* the largest of the two and 1.0, and this product is not rounded.
LEMMA ToleranceOf ==
  ASSUME NEW a, IsFloat(a), NEW b, IsFloat(b),
         InRange(abs(a), 1), InRange(abs(b), 1), InRange(abs(a - b), 1)
  PROVE  \E t \in Nat :
           /\ Grid(t) /\ 2 * Largest(a, b) = t * 2^Precision
           /\ almost_equal(a, b) <=> Nearest(abs(a - b), 1) <= t
           /\ abs(a - b) <= t => almost_equal(a, b)
<1> DEFINE p == 2^Precision
           B == Bigger(a, b)
           L == Largest(a, b)
           r == Nearest(2 * B, p)
           N == Nearest(abs(a - b), 1)
<1>1. /\ a \in Int /\ b \in Int /\ p \in Nat \ {0} /\ One \in Nat \ {0} /\ a - b \in Int
      /\ abs(a - b) \in Nat
  BY PrecisionFacts, OneFacts, AbsFacts DEF IsFloat
<1>2. B \in {abs(a), abs(b)} /\ B \in Nat
  BY <1>1, LargestFacts
<1>3. Grid(B) /\ InRange(B, 1)
  BY <1>2 DEF IsFloat
<1>4. N \in Nat /\ (almost_equal(a, b) <=> N <= epsilon \/ N <= r)
  <2>1. abs(minus(a, b)) = N /\ N \in Nat
    BY <1>1, AbsMinus
  <2> QED
    BY <2>1 DEF almost_equal
<1>5. InRange(2 * B, p)
  <2>1. p >= 2
    BY PrecisionFacts
  <2>2. 2^(Precision + MaxExponent) \in Nat
    BY ExponentType, PowerType
  <2>3. B < 2^(Precision + MaxExponent)
    BY <1>2, <1>3, <2>2 DEF InRange
  <2>4. \A c, d \in Nat : c < d => 2 * c < d * 2
    OBVIOUS
  <2>5. \A c, d, e \in Nat : d <= e => c * d <= c * e /\ c * d \in Nat /\ c * e \in Nat
    OBVIOUS
  <2>6. 2^(Precision + MaxExponent) * 2 <= 2^(Precision + MaxExponent) * p
    BY <1>1, <2>1, <2>2, <2>5
  <2>7. 2^(Precision + MaxExponent) * p \in Nat
    BY <1>1, <2>2
  <2>8. 2 * B < 2^(Precision + MaxExponent) * p
    BY <1>2, <2>2, <2>3, <2>4, <2>6, <2>7
  <2> QED
    BY <2>8 DEF InRange
<1>6. 2 * One = epsilon * p /\ Grid(epsilon) /\ epsilon \in Nat \ {0}
  BY EpsilonFacts
<1>7. r \in Nat /\ 2 * B \in Nat
  BY <1>1, <1>2, <1>5, NearestType
<1>8. \E t \in Nat : Grid(t) /\ 2 * L = t * p /\ (N <= epsilon \/ N <= r <=> N <= t)
  <2>1. CASE B <= One
    <3>1. L = One
      BY <2>1 DEF Largest
    <3>2. 2 * B <= epsilon * p
      BY <1>1, <1>2, <1>6, <2>1
    <3>3. r <= epsilon
      BY <1>1, <1>5, <1>6, <1>7, <3>2, Sandwich
    <3>4. N <= epsilon \/ N <= r <=> N <= epsilon
      BY <1>4, <1>6, <1>7, <3>3
    <3> QED
      BY <1>6, <3>1, <3>4
  <2>2. CASE One < B
    <3>1. L = B
      BY <1>1, <1>2, <2>2 DEF Largest
    <3>2. PICK t \in Nat : Grid(t) /\ 2 * B = t * p
      <4>1. One <= B
        BY <1>1, <1>2, <2>2
      <4> QED
        BY <1>3, <4>1, ScaledFloat
    <3>3. r = t
      <4>1. 2 * B <= t * p /\ 2 * B >= t * p
        BY <1>7, <3>2
      <4>2. r <= t /\ r >= t
        BY <1>1, <1>5, <1>7, <3>2, <4>1, Sandwich
      <4> QED
        BY <1>7, <3>2, <4>2
    <3>4. epsilon <= t
      <4>1. t < epsilon => t * p < epsilon * p
        <5>1. \A c, d \in Nat : c < d => c * p < d * p
          BY <1>1
        <5> QED
          BY <1>6, <5>1
      <4>2. t * p \in Nat /\ epsilon * p \in Nat /\ epsilon * p < t * p
        BY <1>1, <1>2, <1>6, <2>2, <3>2
      <4> QED
        BY <1>6, <4>1, <4>2
    <3>5. N <= epsilon \/ N <= r <=> N <= t
      BY <1>4, <1>6, <3>3, <3>4
    <3> QED
      BY <3>1, <3>2, <3>5
  <2> QED
    BY <1>1, <1>2, <2>1, <2>2
<1>9. PICK t \in Nat : Grid(t) /\ 2 * L = t * p /\ (N <= epsilon \/ N <= r <=> N <= t)
  BY <1>8
<1>10. abs(a - b) <= t => N <= t
  <2>1. t * 1 = t
    BY <1>9
  <2> QED
    BY <1>1, <1>9, <2>1, Sandwich
<1>11. (almost_equal(a, b) <=> N <= t) /\ (abs(a - b) <= t => almost_equal(a, b))
  BY <1>4, <1>9, <1>10
<1> QED
  BY <1>9, <1>11

LEMMA NearestOdd ==
  ASSUME NEW n \in Nat, NEW den \in Nat \ {0}, InRange(n, den)
  PROVE  Nearest(-n, den) = -Nearest(n, den)
<1>1. CASE n = 0
  <2>1. InRange(abs(0), den)
    <3>1. abs(0) = n
      BY <1>1 DEF abs
    <3> QED
      BY <3>1
  <2>2. 0 <= 0 * den /\ 0 >= 0 * den
    OBVIOUS
  <2>3. Nearest(0, den) \in Int /\ Nearest(0, den) <= 0 /\ Nearest(0, den) >= 0
    BY <2>1, <2>2, ZeroIsFloat, SignedSandwich
  <2>4. Nearest(0, den) = 0
    BY <2>3
  <2>5. \A c \in Int : c <= 0 /\ c >= 0 => -c = c
    OBVIOUS
  <2>6. Nearest(n, den) = Nearest(0, den)
    BY Zenon, <1>1
  <2>7. -n = n
    <3>1. n \in Int /\ n <= 0 /\ n >= 0
      BY <1>1
    <3> QED
      BY Zenon, <2>5, <3>1
  <2>8. -Nearest(n, den) = Nearest(n, den)
    BY Zenon, <2>3, <2>5, <2>6
  <2> QED
    BY Zenon, <2>7, <2>8
<1>2. CASE n # 0
  BY <1>2, NearestNegative
<1> QED
  BY <1>1, <1>2

\* Two floats are equal for almost_equal() when their difference is within epsilon.
LEMMA CloseEnough ==
  ASSUME NEW a, IsFloat(a), NEW b, IsFloat(b),
         InRange(abs(a), 1), InRange(abs(b), 1), InRange(abs(a - b), 1),
         abs(a - b) * 2^Precision <= 2 * Largest(a, b)
  PROVE  almost_equal(a, b)
<1>1. PICK t \in Nat : 2 * Largest(a, b) = t * 2^Precision
                       /\ (abs(a - b) <= t => almost_equal(a, b))
  BY ToleranceOf
<1>2. a \in Int /\ b \in Int /\ abs(a - b) \in Nat /\ 2^Precision \in Nat \ {0}
  <2>1. a \in Int /\ b \in Int
    BY DEF IsFloat
  <2>2. a - b \in Int
    BY <2>1
  <2> QED
    BY <2>1, <2>2, AbsFacts, PrecisionFacts
<1>3. \A c, d \in Nat : c < d => c * 2^Precision < d * 2^Precision
  BY <1>2
<1>4. \A c, d \in Nat : c * 2^Precision \in Nat
  BY <1>2
<1>5. ~(t < abs(a - b))
  BY <1>1, <1>2, <1>3, <1>4
<1> QED
  BY <1>1, <1>2, <1>5

\* No product of such a number overflows.
Limit == 2^(Precision + MaxExponent)

Small(a) == \A factor \in {Thousand, Thousand^2} : 2 * (a * factor) < Limit

LEMMA LimitFacts ==
  /\ Limit \in Nat \ {0} /\ Limit = 2^Precision * 2^MaxExponent
  /\ Limit = 2 * (2^(Precision - 1) * 2^MaxExponent)
  /\ 2^(Precision - 1) * 2^MaxExponent \in Nat \ {0}
  /\ Grid(2^(Precision - 1) * 2^MaxExponent)
<1> DEFINE E == 2^MaxExponent
<1>1. Precision + MaxExponent \in 0..Top /\ MaxExponent \in 0..Top /\ Precision \in 0..Top
      /\ Precision + MaxExponent <= Top /\ MaxExponent \in 0..MaxExponent
  BY DEF Top
<1>2. E \in Nat \ {0} /\ 2^Precision = 2 * 2^(Precision - 1) /\ 2^(Precision - 1) \in Nat \ {0}
  BY <1>1, PowerType, PrecisionFacts
<1>3. Limit = 2^Precision * E /\ Limit \in Nat \ {0}
  BY <1>1, PowerSum, PowerType DEF Limit
<1> HIDE DEF E
<1>4. \A a, b \in Nat : (2 * a) * b = 2 * (a * b)
  OBVIOUS
<1>5. Limit = 2 * (2^(Precision - 1) * E) /\ 2^(Precision - 1) * E \in Nat \ {0}
  BY <1>2, <1>3, <1>4, PositiveType
<1>6. 2^(Precision - 1) \in 0..2^Precision
  BY <1>2
<1>7. Grid(2^(Precision - 1) * 2^MaxExponent)
  BY <1>1, <1>6 DEF Grid
<1> QED
  BY <1>3, <1>5, <1>7 DEF E

LEMMA RangeOfLimit == \A n \in Nat : n < Limit => InRange(n, 1)
  BY LimitFacts DEF InRange, Limit

LEMMA FactorFacts ==
  ASSUME NEW D \in {Thousand, Thousand^2}
  PROVE  D \in Nat \ {0, 1}
<1>1. {Thousand, Thousand^2, Thousand^3} \subseteq 2..(One \div 4)
  BY Zenon, NumericAssumption
<1>2. D \in 2..(One \div 4)
  BY <1>1
<1> QED
  BY <1>2

LEMMA SmallFacts ==
  ASSUME NEW a \in Nat, Small(a)
  PROVE  4 * a < Limit /\ 2 * a < Limit /\ a < Limit /\ InRange(a, 1)
<1>1. Thousand \in Nat \ {0, 1}
  BY FactorFacts
<1>2. 2 * (a * Thousand) < Limit
  BY DEF Small
<1>3. 2 * a <= a * Thousand /\ a * Thousand \in Nat
  <2>1. \A c \in Nat, d \in Nat \ {0, 1} : 2 * c <= c * d /\ c * d \in Nat
    OBVIOUS
  <2> QED
    BY <1>1, <2>1
<1>4. a < Limit /\ 2 * a < Limit /\ 4 * a < Limit
  BY <1>2, <1>3, LimitFacts
<1> QED
  BY <1>4, RangeOfLimit

LEMMA FloatsAreSmall == ASSUME NEW a \in Floats PROVE Small(abs(a))
<1>1. PICK s \in {1, -1}, m \in Significands, k \in Exponents : a = s * m * 2^k
  BY DEF Floats
<1>2. k \in 0..MaxExponent /\ m \in 0..(2^Precision - 1)
      /\ \A factor \in {Thousand, Thousand^2} : 2 * factor * 2^k <= 2^MaxExponent
  BY NumericAssumption
<1> DEFINE b == m * 2^k
           p == 2^Precision
           E == 2^MaxExponent
           u == 2^k
<1>3. u \in Nat /\ p \in Nat \ {0} /\ m \in Nat /\ m + 1 <= p /\ E \in Nat \ {0} /\ Limit = p * E
  BY <1>2, ExponentType, PowerType, LimitFacts
<1>4. abs(a) = b /\ b \in Nat
  <2>1. \A c, d \in Nat : 1 * c * d = c * d /\ -1 * c * d = -(c * d) /\ c * d \in Nat
    OBVIOUS
  <2>2. (a = b \/ a = -b) /\ b \in Nat
    BY <1>1, <1>3, <2>1
  <2> HIDE DEF b
  <2> QED
    BY <2>2 DEF abs
<1>5. ASSUME NEW factor \in {Thousand, Thousand^2} PROVE 2 * (b * factor) < Limit
  <2>1. factor \in Nat /\ 2 * factor * u <= E
    BY <1>2, FactorFacts
  <2> HIDE DEF u, p, E
  <2>2. 2 * ((m * u) * factor) = m * (2 * factor * u) /\ 2 * factor * u \in Nat
    <3>1. \A c, d, e \in Nat : 2 * ((c * d) * e) = c * (2 * e * d) /\ 2 * e * d \in Nat
      OBVIOUS
    <3> QED
      BY <1>3, <2>1, <3>1
  <2>3. m * (2 * factor * u) <= m * E
    <3>1. \A c, d, e \in Nat : c <= d => e * c <= e * d
      OBVIOUS
    <3> QED
      BY <1>3, <2>1, <2>2, <3>1
  <2>4. m * E < p * E
    <3>1. \A c, d \in Nat : c < d => c * E < d * E
      BY <1>3
    <3> QED
      BY <1>3, <3>1
  <2>5. m * E \in Nat /\ p * E \in Nat /\ m * (2 * factor * u) \in Nat
    BY <1>3, <2>2, TimesType
  <2> QED
    BY <1>3, <2>2, <2>3, <2>4, <2>5 DEF u
<1> QED
  BY <1>4, <1>5 DEF Small

LEMMA TimesPositive == \A a, b \in Nat, d \in Nat \ {0} : (a * d <= b * d => a <= b) /\ a <= a * d
<1> SUFFICES ASSUME NEW a \in Nat, NEW b \in Nat, NEW d \in Nat \ {0}
             PROVE  (a * d <= b * d => a <= b) /\ a <= a * d
  OBVIOUS
<1>1. b < a => b * d < a * d
  OBVIOUS
<1>2. a * d \in Nat /\ b * d \in Nat /\ a <= a * d
  OBVIOUS
<1> QED
  BY <1>1, <1>2

\* One half of what a float may be rounded by is at most 1.0, and so is the last place
\* that a division by 1e3 leaves.
LEMMA HalfFacts ==
  /\ 2^(Precision - 1) \in Nat \ {0} /\ 2^Precision = 2 * 2^(Precision - 1)
  /\ 2^(Precision - 1) <= One /\ Thousand * 2^(Precision - 1) <= One
<1>1. Thousand \in Nat \ {0} /\ Thousand * 2^(Precision - 1) <= One
  <2>1. Thousand * 2^(Precision - 1) <= One
    BY NumericAssumption
  <2> QED
    BY <2>1, FactorFacts
<1>2. 2^(Precision - 1) \in Nat \ {0} /\ 2^Precision = 2 * 2^(Precision - 1) /\ One \in Nat
  BY PrecisionFacts, OneFacts
<1>3. \A c \in Nat, d \in Nat \ {0} : c <= d * c /\ d * c \in Nat
  OBVIOUS
<1>4. 2^(Precision - 1) <= Thousand * 2^(Precision - 1)
      /\ Thousand * 2^(Precision - 1) \in Nat
  BY <1>1, <1>2, <1>3
<1> QED
  BY <1>1, <1>2, <1>4

\* What d and a bound of it say, times a factor.
LEMMA Errors ==
  ASSUME NEW p \in Nat, NEW D \in Nat \ {0}, NEW a \in Nat, NEW z \in Nat, NEW w \in Nat,
         NEW e \in Nat, NEW f \in Nat, NEW d \in Nat,
         d * D <= e + f, e * p <= a * D, f * p <= z * D \/ f * p <= w * D
  PROVE  d * p <= a + z \/ d * p <= a + w
<1>1. (d * D) * p <= (e + f) * p /\ (e + f) * p = e * p + f * p
  <2>1. d * D \in Nat /\ e + f \in Nat
    BY TimesType
  <2>2. (d * D) * p <= (e + f) * p
    BY <2>1, TimesGrows
  <2>3. (e + f) * p = e * p + f * p
    OBVIOUS
  <2> QED
    BY <2>2, <2>3
<1>2. (d * D) * p = (d * p) * D /\ a * D + z * D = (a + z) * D /\ a * D + w * D = (a + w) * D
  OBVIOUS
<1>3. d * p \in Nat /\ e * p \in Nat /\ f * p \in Nat /\ a * D \in Nat /\ z * D \in Nat
      /\ w * D \in Nat
  BY TimesType
<1>4. (d * p) * D <= (a + z) * D \/ (d * p) * D <= (a + w) * D
  BY <1>1, <1>2, <1>3
<1> QED
  BY <1>3, <1>4, TimesPositive

\* To a smaller unit and back.
LEMMA TimesAndOver ==
  ASSUME NEW a \in Nat, Small(a), NEW D \in {Thousand, Thousand^2},
         NEW c, c = Nearest(a * D, 1), NEW z, z = Nearest(c, D)
  PROVE  /\ InRange(a * D, 1) /\ c \in Nat /\ InRange(c, D) /\ z \in Nat /\ Grid(z)
         /\ 2 * z <= Limit
         /\ abs(a - z) * 2^Precision <= a + z \/ abs(a - z) * 2^Precision <= a + One
<1> DEFINE p == 2^Precision
           half == 2^(Precision - 1)
           W == half * 2^MaxExponent
           e == abs(c - a * D)
           f == abs(z * D - c)
           d == abs(a - z)
<1>1. /\ D \in Nat \ {0, 1} /\ p \in Nat \ {0} /\ half \in Nat \ {0} /\ p = 2 * half
      /\ half <= One /\ One \in Nat \ {0} /\ W \in Nat \ {0} /\ Limit = 2 * W /\ Grid(W)
      /\ Limit \in Nat
  BY FactorFacts, PrecisionFacts, HalfFacts, OneFacts, LimitFacts
<1>2. a * D \in Nat /\ a * D < W /\ InRange(a * D, 1)
  <2>1. a * D \in Nat
    BY <1>1, TimesType
  <2>2. 2 * (a * D) < Limit
    BY DEF Small
  <2> HIDE DEF W
  <2>3. a * D < W /\ a * D < Limit
    BY <1>1, <2>1, <2>2
  <2> QED
    BY <2>1, <2>3, RangeOfLimit
<1>3. c \in Nat /\ e \in Nat /\ e * p <= a * D /\ c <= W
  <2>1. a * D <= W * 1
    BY <1>1, <1>2
  <2>2. c <= W
    BY <1>1, <1>2, <2>1, Sandwich
  <2> QED
    BY <1>2, <2>2, ErrorOfInteger
<1> HIDE DEF W, p, half
<1>4. InRange(c, D)
  <2>1. Limit <= Limit * D /\ Limit * D \in Nat
    BY <1>1, TimesPositive, TimesType
  <2> QED
    BY <1>1, <1>3, <2>1 DEF InRange, Limit
<1>5. /\ z \in Nat /\ f \in Nat
      /\ \/ f * p <= c /\ f * p <= z * D
         \/ 2 * f <= D
  BY <1>1, <1>3, <1>4, ErrorBound DEF p
<1>6. Grid(z)
  BY <1>1, <1>3, <1>4, NearestIsFloat
<1>7. z <= W
  <2>1. W <= W * D
    BY <1>1, TimesPositive
  <2>2. c <= W * D
    BY <1>1, <1>3, <2>1, TimesType
  <2> QED
    BY <1>1, <1>3, <1>4, <2>2, Sandwich
<1>8. f * p <= z * D \/ f * p <= One * D
  <2> SUFFICES ASSUME 2 * f <= D PROVE f * p <= One * D
    BY <1>5
  <2>1. (2 * f) * half <= D * half /\ (2 * f) * half = f * (2 * half)
    BY <1>1, <1>5, TimesGrows
  <2>2. half * D <= One * D /\ half * D = D * half
    BY <1>1, TimesGrows
  <2>3. f * p \in Nat /\ D * half \in Nat /\ One * D \in Nat
    BY <1>1, <1>5, TimesType
  <2> QED
    BY <1>1, <2>1, <2>2, <2>3
<1>9. d \in Nat /\ d * D <= e + f
  <2>1. d \in Nat
    BY <1>5, AbsFacts
  <2>2. a * D \in Nat /\ z * D \in Nat
    BY <1>1, <1>5, TimesType
  <2>3. d * D = abs(a * D - z * D)
    <3>1. CASE a >= z
      <4>1. d = a - z /\ (a - z) * D = a * D - z * D /\ z * D <= a * D
        BY <1>1, <1>5, <3>1, TimesGrows, AbsFacts
      <4> QED
        BY <2>2, <4>1, AbsFacts
    <3>2. CASE a < z
      <4>1. d = z - a /\ (z - a) * D = z * D - a * D /\ a * D <= z * D
        BY <1>1, <1>5, <3>2, TimesGrows DEF abs
      <4> QED
        BY <2>2, <4>1 DEF abs
    <3> QED
      BY <1>5, <3>1, <3>2
  <2>4. abs(a * D - z * D) <= e + f
    BY <1>3, <2>2 DEF abs
  <2> QED
    BY <2>1, <2>3, <2>4
<1>10. d * p <= a + z \/ d * p <= a + One
  <2> HIDE DEF d, e, f
  <2> QED
    BY <1>1, <1>3, <1>5, <1>8, <1>9, Errors
<1>11. 2 * z <= Limit
  BY <1>1, <1>5, <1>7
<1> QED
  BY <1>2, <1>3, <1>4, <1>5, <1>6, <1>10, <1>11 DEF p

\* To a larger unit and back.
LEMMA OverAndTimes ==
  ASSUME NEW a \in Nat, Grid(a), Small(a), NEW D, D = Thousand,
         NEW q, q = Nearest(a, D), NEW z, z = Nearest(q * D, 1)
  PROVE  /\ InRange(a, D) /\ q \in Nat /\ InRange(q * D, 1) /\ z \in Nat /\ Grid(z)
         /\ 2 * z <= Limit
         /\ abs(a - z) * 2^Precision <= a + z \/ abs(a - z) * 2^Precision <= One + z
<1> DEFINE p == 2^Precision
           half == 2^(Precision - 1)
           W == half * 2^MaxExponent
           e == abs(q * D - a)
           f == abs(z - q * D)
           d == abs(a - z)
<1>1. /\ D \in Nat \ {0, 1} /\ p \in Nat \ {0} /\ half \in Nat \ {0} /\ p = 2 * half
      /\ D * half <= One /\ One \in Nat \ {0} /\ W \in Nat \ {0} /\ Limit = 2 * W /\ Grid(W)
      /\ Limit \in Nat
  BY FactorFacts, PrecisionFacts, HalfFacts, OneFacts, LimitFacts
<1>2. a * D \in Nat /\ a * D < W
  <2>1. a * D \in Nat
    BY <1>1, TimesType
  <2>2. 2 * (a * D) < Limit
    BY DEF Small
  <2> HIDE DEF W
  <2> QED
    BY <1>1, <2>1, <2>2
<1>3. InRange(a, D) /\ a <= a * D
  <2>1. a < Limit
    BY SmallFacts
  <2>2. Limit <= Limit * D /\ Limit * D \in Nat /\ a <= a * D
    BY <1>1, TimesPositive, TimesType
  <2> QED
    BY <1>1, <2>1, <2>2 DEF InRange, Limit
<1> HIDE DEF W, p, half
<1>4. /\ q \in Nat /\ e \in Nat
      /\ \/ e * p <= a /\ e * p <= q * D
         \/ 2 * e <= D
  BY <1>1, <1>3, ErrorBound DEF p
<1>5. q <= a
  BY <1>1, <1>3, Sandwich
<1>6. q * D \in Nat /\ q * D <= a * D /\ q * D < W /\ InRange(q * D, 1)
  <2>1. q * D \in Nat /\ q * D <= a * D
    BY <1>1, <1>4, <1>5, TimesGrows, TimesType
  <2>2. q * D < W /\ q * D < Limit
    BY <1>1, <1>2, <2>1
  <2> QED
    BY <2>1, <2>2, RangeOfLimit
<1>7. z \in Nat /\ f \in Nat /\ f * p <= q * D /\ f * p <= z /\ Grid(z)
  BY <1>6, ErrorOfInteger, NearestIsFloat DEF p
<1>8. z <= W
  <2>1. q * D <= W * 1
    BY <1>1, <1>6
  <2> QED
    BY <1>1, <1>6, <2>1, Sandwich
<1>9. e * p <= a \/ e * p <= One
  <2> SUFFICES ASSUME 2 * e <= D PROVE e * p <= One
    BY <1>4
  <2>1. (2 * e) * half <= D * half /\ (2 * e) * half = e * (2 * half)
    BY <1>1, <1>4, TimesGrows
  <2>2. e * p \in Nat /\ D * half \in Nat
    BY <1>1, <1>4, TimesType
  <2> QED
    BY <1>1, <2>1, <2>2
<1>10. d \in Nat /\ d <= e + f
  <2>1. d \in Nat
    BY <1>7, AbsFacts
  <2>2. d <= e + f
    BY <1>6, <1>7 DEF abs
  <2> QED
    BY <2>1, <2>2
<1>11. d * p <= a + z \/ d * p <= One + z
  <2> HIDE DEF d, e, f
  <2>1. d * p <= (e + f) * p /\ (e + f) * p = e * p + f * p
    BY <1>1, <1>4, <1>7, <1>10, TimesGrows
  <2>2. d * p \in Nat /\ e * p \in Nat /\ f * p \in Nat
    BY <1>1, <1>4, <1>7, <1>10, TimesType
  <2> QED
    BY <1>1, <1>7, <1>9, <2>1, <2>2
<1>12. 2 * z <= Limit
  BY <1>1, <1>7, <1>8
<1> QED
  BY <1>3, <1>4, <1>6, <1>7, <1>11, <1>12 DEF p

\* A float that moved by so little is equal to itself, whatever its sign.
LEMMA StaysEqual ==
  ASSUME NEW a \in Nat, Grid(a), Small(a), NEW z \in Nat, Grid(z), 2 * z <= Limit,
         \/ abs(a - z) * 2^Precision <= a + z
         \/ abs(a - z) * 2^Precision <= a + One
         \/ abs(a - z) * 2^Precision <= One + z,
         NEW v, NEW w, (v = a /\ w = z) \/ (v = -a /\ w = -z)
  PROVE  almost_equal(v, w)
<1> DEFINE d == abs(a - z)
<1>1. /\ v \in Int /\ w \in Int /\ abs(v) = a /\ abs(w) = z /\ abs(v - w) = d
      /\ d \in Nat /\ d <= a + z /\ (d <= a \/ d <= z)
  BY DEF abs
<1>2. IsFloat(v) /\ IsFloat(w)
  BY <1>1 DEF IsFloat
<1>3. 2 * a < Limit /\ InRange(a, 1) /\ Limit \in Nat \ {0}
  BY SmallFacts, LimitFacts
<1> HIDE DEF d
<1>4. z < Limit /\ d < Limit
  BY <1>1, <1>3
<1>5. InRange(z, 1) /\ InRange(d, 1)
  BY <1>1, <1>4, RangeOfLimit
<1>6. /\ Largest(v, w) \in Nat /\ One \in Nat
      /\ a <= Largest(v, w) /\ z <= Largest(v, w) /\ One <= Largest(v, w)
  BY <1>1, LargestFacts, OneFacts
<1>7. d * 2^Precision \in Nat
  BY <1>1, PrecisionFacts
<1>8. d * 2^Precision <= 2 * Largest(v, w)
  <2>1. \/ d * 2^Precision <= a + z
        \/ d * 2^Precision <= a + One
        \/ d * 2^Precision <= One + z
    BY DEF d
  <2> QED
    BY <1>6, <1>7, <2>1
<1> QED
  BY <1>1, <1>2, <1>3, <1>5, <1>8, CloseEnough

\* Both ways round: the conversions of ToleranceIsEpsilon.
LEMMA UnitsAndBack ==
  ASSUME NEW v, IsFloat(v), Small(abs(v)), NEW D \in {Thousand, Thousand^2}
  PROVE  /\ almost_equal(v, over(times(v, D), D))
         /\ D = Thousand => almost_equal(v, times(over(v, D), D))
<1> DEFINE a == abs(v)
           c == Nearest(a * D, 1)
           z == Nearest(c, D)
           q == Nearest(a, D)
           u == Nearest(q * D, 1)
<1>1. v \in Int /\ a \in Nat /\ Grid(a) /\ Small(a) /\ D \in Nat \ {0} /\ (v = a \/ v = -a)
  BY AbsFacts, FactorFacts DEF IsFloat
<1> HIDE DEF a
<1>2. \A b \in Nat : (-b) * D = -(b * D) /\ b * D \in Nat
  BY <1>1
<1>3. almost_equal(v, over(times(v, D), D))
  <2>1. /\ InRange(a * D, 1) /\ c \in Nat /\ InRange(c, D) /\ z \in Nat /\ Grid(z)
        /\ 2 * z <= Limit
        /\ abs(a - z) * 2^Precision <= a + z \/ abs(a - z) * 2^Precision <= a + One
    BY <1>1, TimesAndOver
  <2>2. CASE v = a
    <3>1. over(times(v, D), D) = z
      BY <2>2 DEF over, times
    <3> HIDE DEF z, c
    <3> QED
      BY <1>1, <2>1, <2>2, <3>1, StaysEqual
  <2>3. CASE v = -a
    <3>1. v * D = -(a * D) /\ a * D \in Nat
      BY <1>1, <1>2, <2>3
    <3>2. times(v, D) = -c
      BY <2>1, <3>1, NearestOdd DEF times
    <3>3. over(-c, D) = -z
      <4> HIDE DEF c
      <4> QED
        BY <1>1, <2>1, NearestOdd DEF over
    <3> HIDE DEF z, c
    <3>4. over(times(v, D), D) = -z
      BY <3>2, <3>3
    <3> QED
      BY <1>1, <2>1, <2>3, <3>4, StaysEqual
  <2> QED
    BY <1>1, <2>2, <2>3
<1>4. ASSUME D = Thousand PROVE almost_equal(v, times(over(v, D), D))
  <2>1. /\ InRange(a, D) /\ q \in Nat /\ InRange(q * D, 1) /\ u \in Nat /\ Grid(u)
        /\ 2 * u <= Limit
        /\ abs(a - u) * 2^Precision <= a + u \/ abs(a - u) * 2^Precision <= One + u
    BY <1>1, <1>4, OverAndTimes
  <2>2. CASE v = a
    <3>1. times(over(v, D), D) = u
      BY <2>2 DEF over, times
    <3> HIDE DEF u, q
    <3> QED
      BY <1>1, <2>1, <2>2, <3>1, StaysEqual
  <2>3. CASE v = -a
    <3>1. over(v, D) = -q
      BY <1>1, <2>1, <2>3, NearestOdd DEF over
    <3>2. times(-q, D) = -u
      <4> HIDE DEF q
      <4>1. (-q) * D = -(q * D) /\ q * D \in Nat
        BY <1>2, <2>1
      <4> QED
        BY <2>1, <4>1, NearestOdd DEF times
    <3> HIDE DEF u, q
    <3>3. times(over(v, D), D) = -u
      BY <3>1, <3>2
    <3> QED
      BY <1>1, <2>1, <2>3, <3>3, StaysEqual
  <2> QED
    BY <1>1, <2>2, <2>3
<1> QED
  BY <1>3, <1>4


\* Two floats of which almost_equal() can be asked.
Asked(a, b) == IsFloat(a) /\ IsFloat(b) /\ Small(abs(a)) /\ Small(abs(b))

LEMMA AskedRange ==
  ASSUME NEW a, NEW b, Asked(a, b)
  PROVE  /\ a \in Int /\ b \in Int /\ abs(a) \in Nat /\ abs(b) \in Nat /\ abs(a - b) \in Nat
         /\ InRange(abs(a), 1) /\ InRange(abs(b), 1) /\ InRange(abs(a - b), 1)
         /\ 2 * abs(a - b) <= Limit
<1>1. a \in Int /\ b \in Int
  BY DEF IsFloat, Asked
<1>2. a - b \in Int
  BY <1>1
<1>3. abs(a) \in Nat /\ abs(b) \in Nat /\ abs(a - b) \in Nat
  BY <1>1, <1>2, AbsFacts
<1>4. 4 * abs(a) < Limit /\ 4 * abs(b) < Limit /\ InRange(abs(a), 1) /\ InRange(abs(b), 1)
  BY <1>3, SmallFacts DEF Asked
<1>5. abs(a - b) <= abs(a) + abs(b)
  BY <1>1 DEF abs
<1>6. 2 * abs(a - b) <= Limit /\ abs(a - b) < Limit
  BY <1>3, <1>4, <1>5, LimitFacts
<1> QED
  BY <1>1, <1>3, <1>4, <1>6, RangeOfLimit

\* Within epsilon, and not further than epsilon.
LEMMA EqualWithin ==
  ASSUME NEW a, NEW b, Asked(a, b), NEW limit, limit = {2 * m : m \in {One, abs(a), abs(b)}},
         NEW d, d = abs(a - b)
  PROVE  /\ (\E m \in limit : d <= m \div 2^Precision) => almost_equal(a, b)
         /\ almost_equal(a, b) =>
              \E m \in limit : d <= (m + m \div 2^Precision + 1) \div 2^Precision
<1> DEFINE p == 2^Precision
           L == Largest(a, b)
           N == Nearest(d, 1)
<1>1. /\ a \in Int /\ b \in Int /\ abs(a) \in Nat /\ abs(b) \in Nat /\ d \in Nat
      /\ InRange(abs(a), 1) /\ InRange(abs(b), 1) /\ InRange(d, 1)
      /\ p \in Nat \ {0} /\ One \in Nat
  BY AskedRange, PrecisionFacts, OneFacts
<1>2. PICK t \in Nat : /\ Grid(t) /\ 2 * L = t * p
                       /\ almost_equal(a, b) <=> N <= t
                       /\ d <= t => almost_equal(a, b)
  BY <1>1, ToleranceOf DEF Asked
<1>3. /\ L \in {One, abs(a), abs(b)} /\ L \in Nat
      /\ One <= L /\ abs(a) <= L /\ abs(b) <= L
  BY <1>1, LargestFacts
<1> HIDE DEF p, L, N
<1>4. ASSUME NEW m \in limit, d <= m \div p PROVE almost_equal(a, b)
  <2>1. m \in Nat /\ m <= t * p
    BY <1>1, <1>2, <1>3
  <2>2. d * p <= m
    BY <1>1, <1>4, <2>1, DivBound
  <2>3. d * p <= t * p
    BY <1>1, <1>2, <2>1, <2>2, TimesType
  <2> QED
    BY <1>1, <1>2, <2>3, TimesPositive
<1>5. ASSUME almost_equal(a, b)
      PROVE  \E m \in limit : d <= (m + m \div p + 1) \div p
  <2> DEFINE m == t * p
             e == abs(N - d)
  <2>1. m \in limit /\ m \in Nat
    BY <1>1, <1>2, <1>3, TimesType
  <2>2. N \in Nat /\ e \in Nat /\ e * p <= N /\ N <= t
    BY <1>1, <1>2, <1>5, ErrorOfInteger DEF N, p
  <2>3. d <= N + e
    BY <1>1, <2>2 DEF abs
  <2>4. m \div p = t
    <3>1. t <= m \div p <=> t * p <= m
      BY <1>1, <1>2, <2>1, DivBound
    <3>2. t + 1 <= m \div p <=> (t + 1) * p <= m
      BY <1>1, <1>2, <2>1, DivBound
    <3>3. (t + 1) * p = m + p /\ m \div p \in Nat
      BY <1>1, <1>2, <2>1
    <3> HIDE DEF m
    <3>4. t <= m \div p /\ ~(t + 1 <= m \div p)
      BY <1>1, <1>2, <2>1, <3>1, <3>2, <3>3 DEF m
    <3> QED
      BY <1>2, <3>3, <3>4
  <2>5. d * p <= m + t
    <3>1. d * p <= (N + e) * p /\ (N + e) * p = N * p + e * p /\ N * p <= t * p
      BY <1>1, <1>2, <2>2, <2>3, TimesGrows
    <3>2. d * p \in Nat /\ N * p \in Nat /\ e * p \in Nat
      BY <1>1, <2>2, TimesType
    <3> HIDE DEF e, m
    <3> QED
      BY <1>2, <2>1, <2>2, <3>1, <3>2 DEF m
  <2> HIDE DEF m
  <2>6. m + t + 1 \in Nat /\ d * p <= m + t + 1
    BY <1>1, <1>2, <2>1, <2>5, TimesType
  <2>7. d <= (m + t + 1) \div p
    BY <1>1, <2>6, DivBound
  <2> QED
    BY <2>1, <2>4, <2>7
<1> QED
  BY <1>4, <1>5 DEF p

\* The difference is as good as zero.
LEMMA DifferenceZero ==
  ASSUME NEW a, NEW b, Asked(a, b), almost_zero(minus(a, b))
  PROVE  almost_equal(a, b)
<1> DEFINE p == 2^Precision
           n == abs(a - b)
           N == Nearest(n, 1)
           f == minus(a, b)
           W == 2^(Precision - 1) * 2^MaxExponent
<1>1. /\ a \in Int /\ b \in Int /\ n \in Nat /\ 2 * n <= Limit
      /\ InRange(abs(a), 1) /\ InRange(abs(b), 1) /\ InRange(n, 1)
      /\ p \in Nat \ {0} /\ p >= 4 /\ One \in Nat \ {0} /\ a - b \in Int
      /\ Limit \in Nat /\ Limit = 2 * W /\ W \in Nat \ {0} /\ Grid(W)
  BY AskedRange, PrecisionFacts, OneFacts, LimitFacts
<1>2. abs(f) = N /\ N \in Nat /\ Grid(N)
  BY <1>1, AbsMinus, NearestIsFloat
<1>3. PICK t \in Nat : 2 * Largest(a, b) = t * p /\ (almost_equal(a, b) <=> N <= t)
  BY <1>1, ToleranceOf DEF Asked
<1>4. f \in Int
  <2>1. \A c \in Int : abs(c) = IF c < 0 THEN -c ELSE c
    BY DEF abs
  <2>2. IsFloat(0) /\ Nearest(a - b, 1) \in Int
    BY <1>1, ZeroIsFloat, SignedSandwich
  <2> QED
    BY <2>2 DEF minus
<1> HIDE DEF f, n, W
<1>5. IsFloat(f)
  BY <1>2, <1>4 DEF IsFloat
<1>6. InRange(N, 1)
  <2>1. n <= W * 1
    BY <1>1
  <2>2. N <= W
    BY <1>1, <2>1, Sandwich
  <2>3. N < Limit
    BY <1>1, <1>2, <2>2
  <2> QED
    BY <1>2, <2>3, RangeOfLimit
<1> HIDE DEF N
<1>7. Nearest(N, 1) = N
  <2>1. abs(N) = N /\ N \in Int
    BY <1>2, AbsFacts
  <2>2. IsFloat(N)
    BY <1>2, <2>1 DEF IsFloat
  <2> QED
    BY <1>6, <2>1, <2>2, Exact
<1>8. f - 0 = f /\ abs(0) = 0 /\ InRange(0, 1)
  <2>1. 0 < Limit
    BY <1>1
  <2> QED
    BY <1>4, <2>1, RangeOfLimit DEF abs
<1>9. PICK u \in Nat : 2 * Largest(f, 0) = u * p /\ (almost_equal(f, 0) <=> Nearest(N, 1) <= u)
  BY <1>2, <1>5, <1>6, <1>8, ZeroIsFloat, ToleranceOf
<1>10. N <= u
  BY <1>7, <1>9 DEF almost_zero, f
<1>11. Bigger(f, 0) = N
  BY <1>2, <1>8 DEF Bigger
<1>12. Largest(a, b) \in Nat /\ One <= Largest(a, b)
  BY <1>1, LargestFacts
<1>13. CASE N <= One
  <2>1. Largest(f, 0) = One
    BY <1>11, <1>13 DEF Largest
  <2>2. u * p <= t * p
    BY <1>1, <1>3, <1>9, <1>12, <2>1
  <2>3. u <= t
    BY <1>1, <2>2, TimesPositive
  <2> QED
    BY <1>2, <1>3, <1>10, <2>3
<1>14. CASE N > One
  <2>1. Largest(f, 0) = N
    BY <1>1, <1>2, <1>11, <1>14 DEF Largest
  <2>2. N * p <= u * p /\ N * 4 <= N * p /\ u * p = 2 * N
    <3>1. N * p <= u * p
      BY <1>1, <1>2, <1>10, TimesGrows
    <3>2. \A c, d \in Nat : d >= 4 => c * 4 <= c * d
      OBVIOUS
    <3> QED
      BY <1>1, <1>2, <1>9, <2>1, <3>1, <3>2
  <2>3. N * p \in Nat
    BY <1>1, <1>2
  <2> QED
    BY <1>1, <1>2, <1>14, <2>2, <2>3
<1> QED
  BY <1>1, <1>2, <1>13, <1>14

LEMMA EqualToItself ==
  ASSUME NEW a, NEW b, Asked(a, b), a = b
  PROVE  almost_equal(a, b)
<1>1. a \in Int
  BY AskedRange
<1>2. abs(a - b) = 0
  <2>1. a - a = 0
    BY <1>1
  <2> QED
    BY <2>1 DEF abs
<1>3. PICK t \in Nat : abs(a - b) <= t => almost_equal(a, b)
  BY AskedRange, ToleranceOf DEF Asked
<1> QED
  BY <1>2, <1>3

LEMMA ZeroIsSmall == Small(abs(0))
<1>1. abs(0) = 0
  BY DEF abs
<1>2. Small(0)
  <2> SUFFICES ASSUME NEW factor \in {Thousand, Thousand^2} PROVE 2 * (0 * factor) < Limit
    BY DEF Small
  <2>1. factor \in Nat
    BY FactorFacts
  <2>2. 2 * (0 * factor) = 0
    BY <2>1
  <2> QED
    BY <2>2, LimitFacts
<1> QED
  BY <1>1, <1>2, Zenon

------------------------------------------------------------------------------
\* The properties.

\* The numbers that a program asks about are floats that do not overflow.
NumericInv == NumericTypeOK /\ Asked(x, y)

LEMMA NumericInvariant == NumericSpec => []NumericInv
<1>1. NumericInit => NumericInv
  <2> SUFFICES ASSUME NumericInit PROVE NumericInv
    OBVIOUS
  <2>1. x \in Int /\ y \in Int
    BY DEF NumericInit
  <2>2. asked \in BOOLEAN
    BY Zenon DEF NumericInit
  <2>3. IsFloat(x) /\ IsFloat(y)
    BY Zenon, ZeroIsFloat DEF NumericInit
  <2>4. Small(abs(x)) /\ Small(abs(y))
    BY Zenon, ZeroIsSmall DEF NumericInit
  <2> QED
    BY <2>1, <2>2, <2>3, <2>4 DEF Asked, NumericInv, NumericTypeOK
<1>2. NumericInv /\ [NumericNext]_numericVars => NumericInv'
  <2> SUFFICES ASSUME NumericInv, [NumericNext]_numericVars PROVE NumericInv'
    OBVIOUS
  <2>1. ASSUME NEW a \in Floats, NEW b \in Floats, NumericCall(a, b) PROVE NumericInv'
    <3>1. Asked(a, b) /\ a \in Int /\ b \in Int
      BY FloatsAreFloats, FloatsAreSmall DEF IsFloat, Asked
    <3>2. asked' \in BOOLEAN
      BY <2>1, Zenon DEF NumericCall
    <3>3. x' = a /\ y' = b
      BY <2>1 DEF NumericCall
    <3> QED
      BY <3>1, <3>2, <3>3, Zenon DEF NumericInv, NumericTypeOK
  <2>2. CASE NumericReturn
    <3>1. Asked(0, 0) /\ 0 \in Int
      BY ZeroIsFloat, ZeroIsSmall DEF Asked
    <3>2. asked' \in BOOLEAN
      BY <2>2, Zenon DEF NumericReturn
    <3>3. x' = 0 /\ y' = 0
      BY <2>2 DEF NumericReturn
    <3> QED
      BY <3>1, <3>2, <3>3, Zenon DEF NumericInv, NumericTypeOK
  <2>3. CASE UNCHANGED numericVars
    <3>1. x' = x /\ y' = y /\ asked' = asked
      BY <2>3 DEF numericVars
    <3> QED
      BY <3>1, Zenon DEF NumericInv, NumericTypeOK
  <2> QED
    BY <2>1, <2>2, <2>3 DEF NumericNext
<1> QED
  BY <1>1, <1>2, PTL DEF NumericSpec

\* The variables of Numeric keep their types.
THEOREM NumericTypeCorrect == NumericSpec => []NumericTypeOK
<1>1. NumericInv => NumericTypeOK
  BY DEF NumericInv
<1> QED
  BY <1>1, NumericInvariant, PTL

\* The range of an integer type.
LEMMA TypeRange ==
  ASSUME NEW width \in 1..(Precision - 1), NEW type \in Types(width)
  PROVE  type.min \in Int /\ type.max \in Int
<1>1. width - 1 \in 0..Top /\ width \in 0..Top
  BY DEF Top
<1>2. 2^(width - 1) \in Nat /\ 2^width \in Nat
  BY <1>1, PowerType
<1> QED
  BY <1>2 DEF Types

\* round_to_nearest() yields the nearest integer for every precision, scale and float,
\* but for the largest one below .5 (numeric.h:19-35).
THEOREM RoundingIsNearest == NumericSpec => []RoundIsNearest
<1>1. NumericInv => RoundIsNearest
  <2> SUFFICES ASSUME NumericInv, abs(x) < 2^(Precision - 1) * One, x # BelowHalf
               PROVE  /\ 2 * (round_to_nearest(x) * One - x) \in (1 - One)..One
                      /\ \A width \in 1..(Precision - 1) : \A type \in Types(width) :
                           round_to_integer(x, type) # {} <=>
                             2 * x \in (2 * type.min - 1) * One..((2 * type.max + 1) * One - 1)
    BY DEF RoundIsNearest
  <2> DEFINE h == One \div 2
             f == (x + h) \div One
  <2>1. One \in Nat \ {0} /\ h \in Nat \ {0} /\ One = 2 * h
    BY OneFacts
  <2>2. IsFloat(x) /\ x \in Int
    BY DEF NumericInv, Asked, IsFloat
  <2>3. f \in Int /\ f * One <= x + h /\ x + h < (f + 1) * One
    <3>1. x + h \in Int
      BY <2>1, <2>2
    <3> HIDE DEF h
    <3> QED
      BY <2>1, <3>1
  <2> HIDE DEF f
  <2>4. round_to_nearest(x) = f
    BY <2>2, <2>3, FloorKept
  <2> HIDE DEF h
  <2>5. (f + 1) * One = f * One + One /\ f * One \in Int
    BY <2>1, <2>3
  <2>6. 2 * (f * One - x) \in (1 - One)..One
    BY <2>1, <2>2, <2>3, <2>5
  <2>7. ASSUME NEW width \in 1..(Precision - 1), NEW type \in Types(width)
        PROVE  round_to_integer(x, type) # {} <=>
                 2 * x \in (2 * type.min - 1) * One..((2 * type.max + 1) * One - 1)
    <3> DEFINE a == type.min  b == type.max
    <3>1. a \in Int /\ b \in Int
      BY TypeRange
    <3>2. round_to_integer(x, type) # {} <=> a <= f /\ f <= b
      BY <2>3, <2>4, <3>1 DEF round_to_integer
    <3> HIDE DEF a, b
    <3>3. \A c, d \in Int : (c <= d => c * One <= d * One) /\ c * One \in Int
                            /\ (c + 1) * One = c * One + One
                            /\ (2 * c - 1) * One = 2 * (c * One) - One
                            /\ (2 * c + 1) * One = 2 * (c * One) + One
      BY <2>1
    <3>4. a <= f <=> (2 * a - 1) * One <= 2 * x
      <4>1. a <= f => a * One <= f * One
        BY <2>3, <3>1, <3>3
      <4>2. f + 1 <= a => (f + 1) * One <= a * One
        BY <2>3, <3>1, <3>3
      <4>3. (2 * a - 1) * One = 2 * (a * One) - One /\ a * One \in Int
        BY <3>1, <3>3
      <4> QED
        BY <2>1, <2>2, <2>3, <2>5, <3>1, <4>1, <4>2, <4>3
    <3>5. f <= b <=> 2 * x <= (2 * b + 1) * One - 1
      <4>1. f <= b => f * One <= b * One
        BY <2>3, <3>1, <3>3
      <4>2. b + 1 <= f => (b + 1) * One <= f * One
        BY <2>3, <3>1, <3>3
      <4>3. (2 * b + 1) * One = 2 * (b * One) + One /\ (b + 1) * One = b * One + One
            /\ b * One \in Int
        BY <3>1, <3>3
      <4> QED
        BY <2>1, <2>2, <2>3, <2>5, <3>1, <4>1, <4>2, <4>3
    <3>6. (2 * a - 1) * One \in Int /\ (2 * b + 1) * One - 1 \in Int /\ 2 * x \in Int
      BY <2>1, <2>2, <3>1
    <3> QED
      BY <3>2, <3>4, <3>5, <3>6 DEF a, b
  <2> QED
    BY <2>4, <2>6, <2>7
<1> QED
  BY <1>1, NumericInvariant, PTL

\* A number of nanoseconds survives the conversion to a unit or a timespec and back
\* (chrono.h).
THEOREM ConversionsAreExact == NumericSpec => []ConversionsRoundTrip
<1>1. NumericInv => ConversionsRoundTrip
  <2> SUFFICES ASSUME NumericInv, NEW n, n = trunc(x + y, One), abs(n) < 2^(Precision - 2)
               PROVE  /\ usec_to_nsec(nsec_to_usec(n)) = n
                      /\ msec_to_nsec(nsec_to_msec(n)) = n
                      /\ sec_to_nsec(nsec_to_sec(n)) = n
                      /\ timespec_to_nsec(nsec_to_timespec(n)) = n
    BY DEF ConversionsRoundTrip
  <2>1. n \in Int
    <3>1. x + y \in Int /\ One \in Nat \ {0}
      BY OneFacts DEF NumericInv, NumericTypeOK
    <3> QED
      BY <3>1, TruncFacts
  <2>2. /\ Thousand \in 2..(One \div 4) /\ Thousand^2 \in 2..(One \div 4)
        /\ Thousand^3 \in 2..(One \div 4)
    BY Zenon, NumericAssumption
  <2>3. usec_to_nsec(nsec_to_usec(n)) = n
    BY <2>1, <2>2, ThereAndBack DEF usec_to_nsec, nsec_to_usec
  <2>4. msec_to_nsec(nsec_to_msec(n)) = n
    BY <2>1, <2>2, ThereAndBack DEF msec_to_nsec, nsec_to_msec
  <2>5. sec_to_nsec(nsec_to_sec(n)) = n
    BY <2>1, <2>2, ThereAndBack DEF sec_to_nsec, nsec_to_sec
  <2> QED
    BY <2>1, <2>2, <2>3, <2>4, <2>5, TimespecAndBack
<1> QED
  BY <1>1, NumericInvariant, PTL

\* almost_equal() has the tolerance of the machine epsilon, the orders agree with it and
\* a conversion to another unit and back stays in it (numeric.h:75-107, chrono.h), for
\* every precision, scale and pair of floats.
THEOREM ToleranceHolds == NumericSpec => []ToleranceIsEpsilon
<1>1. NumericInv => ToleranceIsEpsilon
  <2> SUFFICES ASSUME NumericInv, NEW limit, limit = {2 * m : m \in {One, abs(x), abs(y)}},
                      NEW d, d = abs(x - y)
               PROVE  /\ (\E m \in limit : d <= m \div 2^Precision) => almost_equal(x, y)
                      /\ almost_equal(x, y) =>
                           \E m \in limit : d <= (m + m \div 2^Precision + 1) \div 2^Precision
                      /\ almost_zero(minus(x, y)) => almost_equal(x, y)
                      /\ almost_le(x, y) = ~almost_gt(x, y) /\ almost_ge(x, y) = ~almost_lt(x, y)
                      /\ almost_equal(x, usec_to_msec(msec_to_usec(x)))
                      /\ almost_equal(x, sec_to_msec(msec_to_sec(x)))
                      /\ almost_equal(x, usec_to_sec(sec_to_usec(x)))
    BY DEF ToleranceIsEpsilon
  <2>1. Asked(x, y) /\ IsFloat(x) /\ Small(abs(x)) /\ x \in Int /\ y \in Int
    BY DEF NumericInv, Asked, NumericTypeOK
  <2>2. /\ (\E m \in limit : d <= m \div 2^Precision) => almost_equal(x, y)
        /\ almost_equal(x, y) =>
             \E m \in limit : d <= (m + m \div 2^Precision + 1) \div 2^Precision
    BY <2>1, EqualWithin
  <2>3. almost_zero(minus(x, y)) => almost_equal(x, y)
    BY <2>1, DifferenceZero
  <2>4. x = y => almost_equal(x, y)
    BY <2>1, EqualToItself
  <2>5. almost_le(x, y) = ~almost_gt(x, y) /\ almost_ge(x, y) = ~almost_lt(x, y)
    <3>1. almost_le(x, y) <=> ~almost_gt(x, y)
      BY <2>1, <2>4 DEF almost_le, almost_gt
    <3>2. almost_ge(x, y) <=> ~almost_lt(x, y)
      BY <2>1, <2>4 DEF almost_ge, almost_lt
    <3>3. /\ almost_le(x, y) \in BOOLEAN /\ almost_gt(x, y) \in BOOLEAN
          /\ almost_ge(x, y) \in BOOLEAN /\ almost_lt(x, y) \in BOOLEAN
      BY DEF almost_le, almost_gt, almost_ge, almost_lt, almost_equal
    <3> QED
      BY <3>1, <3>2, <3>3
  <2>6. almost_equal(x, usec_to_msec(msec_to_usec(x)))
    BY <2>1, UnitsAndBack DEF usec_to_msec, msec_to_usec
  <2>7. almost_equal(x, sec_to_msec(msec_to_sec(x)))
    BY <2>1, UnitsAndBack DEF sec_to_msec, msec_to_sec
  <2>8. almost_equal(x, usec_to_sec(sec_to_usec(x)))
    BY <2>1, UnitsAndBack DEF usec_to_sec, sec_to_usec
  <2> QED
    BY <2>2, <2>3, <2>5, <2>6, <2>7, <2>8
<1> QED
  BY <1>1, NumericInvariant, PTL

==============================================================================
