------------------------------- MODULE Numeric --------------------------------
(***************************************************************************)
(* Rounding and comparison of doubles (include/base/numeric.h) and the     *)
(* conversions between units of time (include/base/chrono.h).              *)
(*                                                                         *)
(* A double is modelled as an IEEE 754 number with Precision significant   *)
(* bits on a grid of One units per 1.0: a float is an integer, the number  *)
(* of units.  An operation yields the float next to its exact result, ties *)
(* to even, so every rounding error that the code can make occurs, only    *)
(* larger.  Thousand stands for 1e3, whose powers up to 1e9 are doubles:   *)
(* factors are not rounded.  To divide by it and multiply again does not   *)
(* always give the number back (as it does for 3, for 5, and for every     *)
(* 2^i + 2^j).                                                             *)
(***************************************************************************)
EXTENDS Integers

CONSTANTS
  Precision,   \* bits of a significand: 53 in a double
  One,         \* units in 1.0
  MaxExponent, \* bound: a unit in the last place is at most 2^MaxExponent
  Thousand,    \* 1e3
  Significands, Exponents   \* bounds: of the floats that are tried

\* What IEEE 754 says: a float has more than one significant bit; 1.0 is a power of two
\* that is far from the ends of the grid, which is as fine as 1.0 needs and one more
\* precision; the factors of the conversions are small; and no number that a program
\* asks about is so large that it overflows when it is multiplied.
ASSUME NumericAssumption ==
  /\ Precision \in Nat \ {0, 1}
  /\ MaxExponent \in Nat /\ Exponents \subseteq 0..MaxExponent
  /\ Significands \subseteq 0..(2^Precision - 1)
  /\ \E j \in (2 * Precision - 1)..MaxExponent : One = 2^j
  /\ {Thousand, Thousand^2, Thousand^3} \subseteq 2..(One \div 4)
  /\ Thousand * 2^(Precision - 1) <= One
  /\ \A k \in Exponents, factor \in {Thousand, Thousand^2} : 2 * factor * 2^k <= 2^MaxExponent

\* What Naturals says of a^b, and the provers do not know.
ASSUME PowersOfTwo == \A k \in 0..(Precision + MaxExponent) : 2^(k + 1) = 2 * 2^k

VARIABLES
  x, y,    \* two floats
  asked    \* a program asks about them

numericVars == <<x, y, asked>>

abs(a) == IF a < 0 THEN -a ELSE a

\* Division of integers in C++, for a positive divisor.
trunc(num, den) == IF num < 0 THEN -((-num) \div den) ELSE num \div den

\* The float next to num / den units.
RoundUp(num, den, unit) ==
  LET q == num \div (unit * den)
      twice == 2 * (num % (unit * den))
  IN  IF twice > unit * den \/ (twice = unit * den /\ q % 2 = 1) THEN q + 1 ELSE q

Nearest(num, den) ==
  LET k == CHOOSE k \in 0..MaxExponent :
             /\ abs(num) < 2^(Precision + k) * den
             /\ k > 0 => abs(num) >= 2^(Precision + k - 1) * den
      up == RoundUp(abs(num), den, 2^k) * 2^k
  IN  IF num < 0 THEN -up ELSE up

times(a, n) == Nearest(a * n, 1)
over(a, n) == Nearest(a, n)
plus(a, b) == Nearest(a + b, 1)
minus(a, b) == Nearest(a - b, 1)

\* static_cast from an integer to double
double(n) == Nearest(n * One, 1)

------------------------------------------------------------------------------
(* numeric.h *)

\* static_cast<ReturnT>(std::floor(n + .5)), before the cast
round_to_nearest_trunc(n) == trunc(plus(n, One \div 2), One)
round_to_nearest(n) == plus(n, One \div 2) \div One

\* round_to_int() to round_to_uint64(), for a type as the range of its values: the
\* value returned, and none where the conversion is undefined.
round_to_integer(n, type) == {round_to_nearest(n)} \cap type.min..type.max

Types(width) ==
  {[min |-> -(2^(width - 1)), max |-> 2^(width - 1) - 1], [min |-> 0, max |-> 2^width - 1]}

epsilon == (2 * One) \div 2^Precision

\* std::fmax(std::fabs(a), std::fabs(b))
Bigger_Smaller(a, b) == IF abs(a) <= abs(b) THEN abs(a) ELSE abs(b)
Bigger(a, b) == IF abs(a) >= abs(b) THEN abs(a) ELSE abs(b)

almost_equal(a, b) ==
  LET d == abs(minus(a, b))
  IN  d <= epsilon \/ d <= Nearest(2 * Bigger(a, b), 2^Precision)

almost_zero(a) == almost_equal(a, 0)
almost_lt(a, b) == a < b /\ ~almost_equal(a, b)
almost_le(a, b) == a < b \/ almost_equal(a, b)
almost_gt(a, b) == a > b /\ ~almost_equal(a, b)
almost_ge(a, b) == a > b \/ almost_equal(a, b)

------------------------------------------------------------------------------
(* chrono.h: nsec_t is an integer, the other units are doubles. *)

sec_to_nsec(n) == round_to_nearest(times(n, Thousand^3))
sec_to_msec(n) == times(n, Thousand)
sec_to_usec(n) == times(n, Thousand^2)
msec_to_nsec(n) == round_to_nearest(times(n, Thousand^2))
msec_to_sec(n) == over(n, Thousand)
msec_to_usec(n) == times(n, Thousand)
usec_to_nsec_Cast(n) == trunc(times(n, Thousand), One)
usec_to_nsec(n) == round_to_nearest(times(n, Thousand))
usec_to_sec(n) == over(n, Thousand^2)
usec_to_msec(n) == over(n, Thousand)
nsec_to_sec(n) == over(double(n), Thousand^3)
nsec_to_msec(n) == over(double(n), Thousand^2)
nsec_to_usec(n) == over(double(n), Thousand)

timespec_to_nsec(ts) ==
  round_to_nearest(times(double(ts.tv_sec), Thousand^3)) + ts.tv_nsec

nsec_to_timespec(ns) ==
  [tv_sec |-> trunc(ns, Thousand^3),
   tv_nsec |-> ns - Thousand^3 * trunc(ns, Thousand^3)]

------------------------------------------------------------------------------
(* A program asks about two numbers at a time. *)

Floats == {s * m * 2^k : s \in {1, -1}, m \in Significands, k \in Exponents}

NumericInit == x = 0 /\ y = 0 /\ asked = FALSE

NumericCall(a, b) == ~asked /\ x' = a /\ y' = b /\ asked' = TRUE

NumericReturn == asked /\ x' = 0 /\ y' = 0 /\ asked' = FALSE

NumericNext ==
  \/ \E a, b \in Floats : NumericCall(a, b)
  \/ NumericReturn

NumericSpec == NumericInit /\ [][NumericNext]_numericVars

------------------------------------------------------------------------------
(* Properties. *)

NumericTypeOK == x \in Int /\ y \in Int /\ asked \in BOOLEAN

\* Half a unit below .5 there is a float for which n + .5 rounds up to 1.
BelowHalf == (One \div 2) - One \div 2^(Precision + 1)

\* round_to_nearest() yields the nearest integer, and the greater one of two, as
\* the examples of numeric.h:19-28 say, for every double below 2^52 except the
\* largest one below .5; the sum n + .5 is rounded before floor() sees it.  So the
\* integer types that are narrower than a significand hold the result for every
\* double less than .5 above their greatest and not more than .5 below their least
\* value.
RoundIsNearest ==
  abs(x) < 2^(Precision - 1) * One /\ x # BelowHalf =>
    /\ 2 * (round_to_nearest(x) * One - x) \in (1 - One)..One
    /\ \A width \in 1..(Precision - 1) : \A type \in Types(width) :
         round_to_integer(x, type) # {} <=>
           2 * x \in (2 * type.min - 1) * One..((2 * type.max + 1) * One - 1)

\* almost_equal() holds for numbers that differ by at most the machine epsilon, or
\* epsilon times the larger one, and for none that differ by more than a rounding
\* error beyond it, though the difference and the product are rounded; the orders
\* agree with it; and a conversion to another unit and back stays in this tolerance,
\* which is "to compensate rounding errors" (numeric.h:77).
ToleranceIsEpsilon ==
  LET d == abs(x - y)
      limit == {2 * m : m \in {One, abs(x), abs(y)}}
  IN  /\ (\E m \in limit : d <= m \div 2^Precision) => almost_equal(x, y)
      /\ almost_equal(x, y) =>
           \E m \in limit : d <= (m + m \div 2^Precision + 1) \div 2^Precision
      /\ almost_zero(minus(x, y)) => almost_equal(x, y)
      /\ almost_le(x, y) = ~almost_gt(x, y) /\ almost_ge(x, y) = ~almost_lt(x, y)
      /\ almost_equal(x, usec_to_msec(msec_to_usec(x)))
      /\ almost_equal(x, sec_to_msec(msec_to_sec(x)))
      /\ almost_equal(x, usec_to_sec(sec_to_usec(x)))

\* A number of nanoseconds survives the conversion to any unit and back, though
\* n / 1e3, n / 1e6 and n / 1e9 are rounded; so does one of either sign through a
\* timespec.  The limit 2^(Precision - 2) is 2^51 ns, or 26 days; the sum is there to
\* try more numbers.
ConversionsRoundTrip ==
  LET n == trunc(x + y, One)
  IN  abs(n) < 2^(Precision - 2) =>
        /\ usec_to_nsec(nsec_to_usec(n)) = n
        /\ msec_to_nsec(nsec_to_msec(n)) = n
        /\ sec_to_nsec(nsec_to_sec(n)) = n
        /\ timespec_to_nsec(nsec_to_timespec(n)) = n

==============================================================================
