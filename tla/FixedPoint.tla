----------------------------- MODULE FixedPoint -----------------------------
(***************************************************************************)
(* The fixed-point mathematics of frame/suite/src/fixedpoint.rs: square    *)
(* root, logarithm, exponential and power by iteration, the conversions    *)
(* between integers and fixed-point numbers, and the bridge that lifts an  *)
(* unsigned number into a signed workspace.                                *)
(*                                                                         *)
(* A fixed-point number is its inner integer.  The functions are generic   *)
(* in the type; here the type is a record of what they use of it:          *)
(*    div     DIV, the inner value of one                                  *)
(*    min,max the bounds of the inner value; min is 0 for unsigned types   *)
(*    places  DECIMAL_PLACES                                               *)
(*    e       the inner value of 2.718281828459045235                      *)
(* An Option is a set: {} is None and {v} is Some(v).                      *)
(***************************************************************************)
EXTENDS Integers

CONSTANT FixedI128   \* the signed workspace of both unsigned types

None == {}

Some(v) == {v}

UnwrapOr(option, default) == IF option = {} THEN default ELSE CHOOSE v \in option : TRUE

MAX_ITERATIONS == 50

\* A loop of at most `limit` rounds over a state with a field `done`, which is
\* where the code breaks or returns.
Loop(Step(_, _), start, limit) ==
    LET after[i \in 0 .. limit] ==
            IF i = 0 THEN start
            ELSE LET s == after[i - 1] IN IF s.done THEN s ELSE Step(s, i)
    IN  after[limit]

-----------------------------------------------------------------------------
(* sp_arithmetic's FixedPointNumber on inner values.  Products and quotients *)
(* are truncated toward zero.                                                *)

Abs(x) == IF x < 0 THEN -x ELSE x

Clamp(T, x) == IF x < T.min THEN T.min ELSE IF x > T.max THEN T.max ELSE x

Checked(T, x) == IF T.min <= x /\ x <= T.max THEN Some(x) ELSE None

TruncDiv(x, y) ==
    LET q == Abs(x) \div Abs(y) IN IF (x < 0) = (y < 0) THEN q ELSE -q

\* x * y / DIV, in two parts so that no intermediate value exceeds the result.
Product(T, x, y) ==
    LET a == Abs(x)
        b == Abs(y)
        p == (a \div T.div) * b + ((a % T.div) * b) \div T.div
    IN  IF (x < 0) = (y < 0) THEN p ELSE -p

checked_mul(T, x, y) == Checked(T, Product(T, x, y))

saturating_mul(T, x, y) == Clamp(T, Product(T, x, y))

checked_div(T, x, y) == IF y = 0 THEN None ELSE Checked(T, TruncDiv(x * T.div, y))

saturating_add(T, x, y) == Clamp(T, x + y)

saturating_sub(T, x, y) == Clamp(T, x - y)

saturating_from_integer(T, n) == Clamp(T, n * T.div)

saturating_from_rational(T, n, d) == Clamp(T, TruncDiv(n * T.div, d))

-----------------------------------------------------------------------------
(* Conversions *)

to_fixed(T, n) == saturating_from_integer(T, n)

\* `asset` is the largest value of the integer type; only unsigned ones here.
from_fixed(T, asset, x) ==
    LET n == TruncDiv(x, T.div) IN IF n > asset THEN asset ELSE n

\* The inner value is taken over as it is, whatever DIV the two types have.
saturated_into(T, x) == IF x > FixedI128.max THEN FixedI128.max ELSE x

saturated_from(T, x) == Clamp(T, x)

\* Mutant: the inner value is not divided.
fixed_to_i128_inner(T, x) == Some(x)

\* The inner value of FixedI128 is an i128: an unsigned one may not fit.
FitsI128(x) == x <= FixedI128.max

\* Some only for a whole number.
fixed_to_i128(T, x) == IF FitsI128(x) /\ x % T.div = 0 THEN Some(x \div T.div) ELSE None

-----------------------------------------------------------------------------
(* Square root *)

\* Where Newton's iteration starts for x other than one.
newton_guess(T, x) ==
    IF x > T.div
    THEN UnwrapOr(checked_div(T, saturating_add(T, x, T.div), 2 * T.div), T.div)
    ELSE LET quarter == saturating_from_rational(T, 1, 4)
         IN  IF x > quarter THEN x ELSE quarter

\* One round: done when the quotient fails, within two units in the last
\* place, or when the difference no longer shrinks (`diff` is the previous
\* one, None in the first round).
newton_round(T, x, s) ==
    LET quotient == checked_div(T, x, s.guess)
        next == UnwrapOr(checked_div(T, saturating_add(T, s.guess, UnwrapOr(quotient, 0)),
                                     2 * T.div), s.guess)
        diff == Abs(next - s.guess)
    IN  IF quotient = None THEN [s EXCEPT !.done = TRUE]
        ELSE [guess |-> next, diff |-> Some(diff),
              done  |-> diff <= 2 \/ (s.diff # None /\ diff >= UnwrapOr(s.diff, 0))]

fixed_sqrt_newton(T, x) ==
    LET Round(s, i) == newton_round(T, x, s)
    IN  IF x <= 0 THEN 0
        ELSE IF x = T.div THEN T.div
        ELSE Loop(Round, [guess |-> newton_guess(T, x), diff |-> None, done |-> FALSE],
                  MAX_ITERATIONS).guess

fixed_sqrt(T, x) == IF x < 0 THEN None ELSE Some(fixed_sqrt_newton(T, x))

\* Mutant: the root of the absolute value.
complex_sqrt_abs(T, x) == [real |-> fixed_sqrt_newton(T, Clamp(T, Abs(x))), imgn |-> 0]

complex_sqrt(T, x) ==
    IF x < 0 THEN [real |-> 0, imgn |-> fixed_sqrt_newton(T, Clamp(T, -x))]
             ELSE [real |-> fixed_sqrt_newton(T, x), imgn |-> 0]

-----------------------------------------------------------------------------
(* Logarithm *)

\* Square roots until y is within a half of one; k counts them.
range_reduce_sqrt(T, y) ==
    LET Round(s, i) ==
            LET root == fixed_sqrt_newton(T, s.y)
            IN  IF \/ Abs(s.y - T.div) <= saturating_from_rational(T, 1, 2)
                   \/ root = s.y
                   \/ root = 0
                THEN [s EXCEPT !.done = TRUE]
                ELSE [y |-> root, k |-> s.k + 1, done |-> FALSE]
    IN  Loop(Round, [y |-> y, k |-> 0, done |-> FALSE], MAX_ITERATIONS)

\* Twice the series of t + t^3/3 + t^5/5 + ..., t = (y - 1) / (y + 1).
ln_near_one(T, y) ==
    LET t == UnwrapOr(checked_div(T, saturating_sub(T, y, T.div), saturating_add(T, y, T.div)), 0)
        square == UnwrapOr(checked_mul(T, t, t), 0)
        Round(s, i) ==
            LET term == UnwrapOr(checked_div(T, s.power, saturating_from_integer(T, 2 * i - 1)), 0)
                sum  == saturating_add(T, s.sum, term)
            IN  IF Abs(term) <= 1 \/ sum = s.sum
                THEN [s EXCEPT !.done = TRUE]
                ELSE [sum |-> sum, power |-> UnwrapOr(checked_mul(T, s.power, square), 0),
                      done |-> FALSE]
    IN  saturating_mul(T, Loop(Round, [sum |-> 0, power |-> t, done |-> FALSE],
                               MAX_ITERATIONS).sum, 2 * T.div)

\* None where the logarithm does not exist, or is negative and the type unsigned.
fixed_ln(T, x) ==
    LET reduced == range_reduce_sqrt(T, x)
        ln      == ln_near_one(T, reduced.y)
    IN  IF x <= 0 \/ (T.min = 0 /\ x < T.div) THEN None
        ELSE IF x = T.div THEN Some(0)
        ELSE IF reduced.k > 31 THEN None
        ELSE IF reduced.k = 0 THEN Some(ln)
        ELSE Some(saturating_mul(T, ln, saturating_from_integer(T, 2 ^ reduced.k)))

-----------------------------------------------------------------------------
(* Integer powers, exponential, powers *)

\* Square and multiply, the lowest of the 128 bits of n first.
fixed_powi_positive(T, x, n) ==
    LET Round(s, i) ==
            LET rest == s.n \div 2
            IN  [n      |-> rest,
                 result |-> IF s.n % 2 = 1 THEN saturating_mul(T, s.result, s.base) ELSE s.result,
                 base   |-> IF rest > 0 THEN saturating_mul(T, s.base, s.base) ELSE s.base,
                 done   |-> rest = 0]
    IN  Loop(Round, [n |-> n, result |-> T.div, base |-> x, done |-> n = 0], 128).result

fixed_powi(T, x, n) ==
    IF n >= 0 THEN Some(fixed_powi_positive(T, x, n))
    ELSE IF x = 0 THEN None
    ELSE checked_div(T, T.div, fixed_powi_positive(T, x, -n))

\* Mutant: the first term only.
exp_series_linear(T, r) == saturating_add(T, T.div, r)

\* The Taylor series of exp at r.
exp_series(T, r) ==
    LET Round(s, i) ==
            LET term == UnwrapOr(checked_div(T, UnwrapOr(checked_mul(T, s.term, r), 0),
                                             saturating_from_integer(T, i)), 0)
                sum  == saturating_add(T, s.sum, term)
            IN  IF Abs(term) <= 1 \/ sum = s.sum
                THEN [s EXCEPT !.done = TRUE]
                ELSE [sum |-> sum, term |-> term, done |-> FALSE]
    IN  Loop(Round, [sum |-> T.div, term |-> T.div, done |-> FALSE], MAX_ITERATIONS).sum

\* x is split at its whole part, truncated toward zero.
fixed_exp(T, x) ==
    LET n     == TruncDiv(x, T.div)
        sum   == exp_series(T, saturating_sub(T, x, saturating_from_integer(T, n)))
        whole == fixed_powi(T, T.e, n)
    IN  IF x = 0 THEN Some(T.div)
        ELSE IF x < saturating_from_integer(T, -(10 * T.places)) THEN Some(0)
        ELSE IF ~FitsI128(x) THEN None
        ELSE IF n = 0 THEN Some(sum)
        ELSE IF whole = None \/ UnwrapOr(whole, 0) >= T.max THEN None
        ELSE checked_mul(T, sum, UnwrapOr(whole, 0))

fixed_pow(T, x, p) ==
    LET n  == fixed_to_i128(T, p)
        ln == fixed_ln(T, x)
    IN  IF x = 0 THEN (IF p <= 0 THEN None ELSE Some(0))
        ELSE IF x < 0 /\ n = None THEN None
        ELSE IF p = 0 \/ x = T.div THEN Some(T.div)
        ELSE IF n # None THEN UNION {fixed_powi(T, x, k) : k \in n}
        ELSE UNION {fixed_exp(T, saturating_mul(T, p, l)) : l \in ln}
=============================================================================
