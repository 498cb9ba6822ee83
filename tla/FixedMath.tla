----------------------------- MODULE FixedMath -----------------------------
(***************************************************************************)
(* Calls of the fixed-point functions of FixedPoint, one at a time, on     *)
(* every type of Types and every argument of Numbers.  `call` is the last  *)
(* call with its result; NoCall stands between two calls.  Curves and      *)
(* Rankings add the calls of the models built on these functions.          *)
(***************************************************************************)
EXTENDS FixedPoint

CONSTANTS
    Asset,      \* the asset type of the models: max, bits, fixed
    Types,      \* the fixed-point types
    Numbers,    \* inner values of arguments
    Exponents   \* inner values of the exponents of fixed_pow

ASSUME TypesAssumption ==
    \A T \in Types : T.div > 0 /\ T.min <= 0 /\ T.max > T.div /\ T.div < T.e /\ T.e < 3 * T.div

VARIABLE call

NoCall == [model |-> "none"]

Values(T) == {x \in Numbers : T.min <= x /\ x <= T.max}

\* The functions are called from elsewhere; a call returns before the next.
Return == call # NoCall /\ call' = NoCall

Sqrt ==
    /\ call = NoCall
    /\ \E T \in Types : \E x \in Values(T) :
          call' = [model |-> "sqrt", type |-> T, x |-> x, result |-> fixed_sqrt(T, x)]

ComplexSqrt ==
    /\ call = NoCall
    /\ \E T \in Types : \E x \in Values(T) :
          call' = [model |-> "complex", type |-> T, x |-> x, result |-> complex_sqrt(T, x)]

Ln ==
    /\ call = NoCall
    /\ \E T \in Types : \E x \in Values(T) :
          call' = [model |-> "ln", type |-> T, x |-> x, result |-> fixed_ln(T, x)]

Exp ==
    /\ call = NoCall
    /\ \E T \in Types : \E x \in Values(T) :
          call' = [model |-> "exp", type |-> T, x |-> x, result |-> fixed_exp(T, x)]

Pow ==
    /\ call = NoCall
    /\ \E T \in Types : \E x \in Values(T) : \E p \in Values(T) \cap Exponents :
          call' = [model |-> "pow", type |-> T, x |-> x, p |-> p, result |-> fixed_pow(T, x, p)]

FixedMathCall == Sqrt \/ ComplexSqrt \/ Ln \/ Exp \/ Pow

-----------------------------------------------------------------------------
(* Properties *)

Result == UnwrapOr(call.result, 0)

\* fixed_sqrt_newton: wherever the iteration stops (tolerance, no progress, the
\* limit), the root is less than one unit above the true one and at most two
\* below, from the smallest to the largest number.
SqrtClose ==
    call.model = "sqrt" /\ call.x >= 0 =>
        LET scaled == call.x * call.type.div
        IN  /\ call.result # None
            /\ Result >= 2 => (Result - 2) * (Result - 2) <= scaled
            /\ scaled < (Result + 1) * (Result + 1)

\* complex_sqrt: squaring the root gives the number back, sign included, up to
\* the error that SqrtClose allows.
ComplexSquares ==
    call.model = "complex" =>
        LET T    == call.type
            root == call.result.real + call.result.imgn
            back == Product(T, call.result.real, call.result.real)
                    - Product(T, call.result.imgn, call.result.imgn)
        IN  /\ call.result.real = 0 \/ call.result.imgn = 0
            /\ Abs(back - Clamp(T, call.x)) <= 1 + (4 * root + 4) \div T.div

\* The roots, plain and complex, square back to where they came from.
RootsSquareBack == SqrtClose /\ ComplexSquares

\* fixed_ln and fixed_exp are inverse, although the one takes roots and a series
\* of its own and the other splits at the whole part: raising e to the logarithm
\* comes back to the number.  The error is eight units of the logarithm for each
\* doubling that undoes a root.
LnExpInverse ==
    call.model = "ln" /\ call.result # None =>
        LET doublings == 2 ^ range_reduce_sqrt(call.type, call.x).k
        IN  \A back \in fixed_exp(call.type, Result) :
                Abs(back - call.x) <= 1 + (call.x * 8 * doublings) \div call.type.div

\* fixed_exp: where it is defined it never falls by more than one unit from a
\* number to the next, also where the split at the whole part changes.
ExpRises ==
    call.model = "exp" =>
        \A next \in fixed_exp(call.type, call.x + 1) :
            Result <= next + 1 + (Result \div call.type.div)

\* The logarithm and the exponential undo each other and keep the order.
LogsAgree == LnExpInverse /\ ExpRises

\* fixed_pow: the exact path of a whole exponent and the path through the
\* logarithm agree: between two neighbouring whole exponents a power lies
\* between theirs, up to the error of the logarithm.
PowBetween ==
    call.model = "pow" /\ call.x > call.type.div /\ call.p >= 0 =>
        LET T         == call.type
            whole     == call.p \div T.div
            doublings == 2 ^ range_reduce_sqrt(T, call.x).k
            slack     == 1 + (Result * 8 * doublings * (whole + 1)) \div T.div
        IN  \A v \in call.result :
                /\ fixed_powi_positive(T, call.x, whole) <= v + slack
                /\ v <= fixed_powi_positive(T, call.x, whole + 1) + slack
=============================================================================
