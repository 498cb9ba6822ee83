------------------------------- MODULE Curves -------------------------------
(***************************************************************************)
(* The payout models of frame/plugins/src/rewards.rs and the influence     *)
(* models of influence.rs: functions of an amount and a context, computed  *)
(* in fixed point.  A model is an operator of                              *)
(*    A   the asset: its largest value `max`, its width `bits` and its     *)
(*        fixed-point type `fixed`                                         *)
(*    c   the context, a record with the fields of the code                *)
(*    x   the input amount                                                 *)
(* `call` is the last call with its result.                                *)
(***************************************************************************)
EXTENDS FixedMath, Sequences

CONSTANTS
    Inputs,     \* input amounts
    Contexts    \* the contexts of each model

ASSUME AssetAssumption ==
    /\ Asset.max = 2 ^ Asset.bits - 1
    /\ \A x \in Inputs : 0 <= x /\ x < Asset.max

-----------------------------------------------------------------------------
(* Payouts *)

ZeroPayout(A, c, x) == 0

ConstantPayout(A, c, x) == c.payout

InflationPayout(A, c, x) ==
    from_fixed(A.fixed, A.max, saturating_mul(A.fixed, c.inflation_rate, to_fixed(A.fixed, x)))

LinearPayout(A, c, x) ==
    LET F == A.fixed
    IN  from_fixed(F, A.max,
            saturating_add(F, saturating_mul(F, to_fixed(F, x), c.slope), c.base_reward))

QuadraticPayout(A, c, x) ==
    LET F == A.fixed
        v == to_fixed(F, x)
    IN  from_fixed(F, A.max,
            saturating_add(F, saturating_add(F,
                saturating_mul(F, c.quadratic_coeff, saturating_mul(F, v, v)),
                saturating_mul(F, c.linear_coeff, v)), c.constant_term))

\* A shift by the width or more panics, or shifts by the remainder when
\* overflow checks are off, as in a release build.
HalvingPayout(A, c, x) == c.initial_reward \div 2 ^ (x % A.bits)

ExpDecayPayout(A, c, x) ==
    LET F   == A.fixed
        ax  == saturating_mul(FixedI128, saturated_into(F, c.decay_constant),
                              saturated_into(F, to_fixed(F, x)))
        exp == UnwrapOr(fixed_exp(FixedI128, saturating_sub(FixedI128, 0, ax)), 0)
    IN  from_fixed(F, A.max,
            saturating_mul(F, to_fixed(F, c.initial_reward), saturated_from(F, exp)))

\* ln(p / (1 - p)) in the signed workspace.
logit(F, p) ==
    UNION {fixed_ln(FixedI128, saturated_into(F, ratio)) :
               ratio \in checked_div(F, p, saturating_sub(F, F.div, p))}

\* l / (1 + e^(-k (x - x0))), all in the signed workspace.
logistic(l, k, delta) ==
    LET exp == UnwrapOr(fixed_exp(FixedI128, saturating_sub(FixedI128, 0,
                                      saturating_mul(FixedI128, k, delta))), FixedI128.max)
    IN  UnwrapOr(checked_div(FixedI128, l, saturating_add(FixedI128, FixedI128.div, exp)), 0)

IsFraction(F, p) == 0 < p /\ p < F.div

\* The set is empty where the code returns zero early.
SigmoidPayout(A, c, x) ==
    LET F  == A.fixed
        ks == {saturating_sub(FixedI128, b, a) :
                   a \in logit(F, c.growth_start), b \in logit(F, c.growth_end)} \ {0}
        x0s == UNION {checked_div(FixedI128, saturating_sub(FixedI128, 0, a), k) :
                          a \in logit(F, c.growth_start), k \in ks}
        outputs == {saturated_from(F, logistic(saturated_into(F, to_fixed(F, c.max_reward)), k,
                        saturating_sub(FixedI128, saturated_into(F, to_fixed(F, x)), x0))) :
                            k \in ks, x0 \in x0s}
    IN  IF IsFraction(F, c.growth_start) /\ IsFraction(F, c.growth_end)
        THEN from_fixed(F, A.max, UnwrapOr(outputs, 0))
        ELSE 0

\* Mutant: nothing keeps the denominator from zero.
InverseWithoutEpsilon(A, c, x) ==
    from_fixed(A.fixed, A.max, UnwrapOr(checked_div(A.fixed, c.k, to_fixed(A.fixed, x)), 0))

InverseProportionalPayout(A, c, x) ==
    LET F     == A.fixed
        denom == saturating_add(F, to_fixed(F, x), c.epsilon)
    IN  IF denom <= 0 THEN 0
        ELSE from_fixed(F, A.max, UnwrapOr(checked_div(F, c.k, denom), 0))

LogarithmicPayout(A, c, x) ==
    LET F     == A.fixed
        inner == saturating_add(F, saturating_mul(F, c.horizontal_scale, to_fixed(F, x)),
                                c.horizontal_shift)
    IN  from_fixed(F, A.max,
            saturating_add(F, saturating_mul(F, c.vertical_scale, UnwrapOr(fixed_ln(F, inner), 0)),
                           c.vertical_shift))

FixedRatePayout(A, c, x) ==
    from_fixed(A.fixed, A.max, saturating_mul(A.fixed, to_fixed(A.fixed, x), c.rate))

\* The rate of one period: the time_count-th root of 1 + apr, less one.
FixedAnnualPayout(A, c, x) ==
    LET F        == A.fixed
        n        == to_fixed(F, c.time_count)
        exponent == UnwrapOr(checked_div(F, F.div, n), 0)
        power    == UnwrapOr(fixed_pow(F, saturating_add(F, F.div, c.apr), exponent), F.max)
    IN  IF n = 0 THEN 0
        ELSE from_fixed(F, A.max,
                 saturating_mul(F, to_fixed(F, x), saturating_sub(F, power, F.div)))

\* CurveParams::evaluate
evaluate(F, params, v) ==
    saturated_from(F, logistic(saturated_into(F, params.l), saturated_into(F, params.k),
        saturating_sub(FixedI128, saturated_into(F, v), saturated_into(F, params.x0))))

\* Mutant: the rise is computed unsigned, and a falling segment is flat.
interpolate_unsigned(F, s, v) ==
    LET width == saturating_sub(F, s.end_x, s.start_x)
        t     == UnwrapOr(checked_div(F, saturating_sub(F, v, s.start_x), width), 0)
    IN  saturating_add(F, s.start_y, saturating_mul(F, t, saturating_sub(F, s.end_y, s.start_y)))

\* The value of a linear segment at v.
interpolate(F, s, v) ==
    LET width == saturating_sub(F, s.end_x, s.start_x)
        t     == UnwrapOr(checked_div(F, saturating_sub(F, v, s.start_x), width), 0)
        start == saturated_into(F, s.start_y)
        delta == saturating_sub(FixedI128, saturated_into(F, s.end_y), start)
    IN  IF width = 0 THEN s.start_y
        ELSE saturated_from(F, saturating_add(FixedI128, start,
                 saturating_mul(FixedI128, saturated_into(F, t), delta)))

Holds(s, v) == s.start_x <= v /\ v <= s.end_x

PiecewisePayout(A, c, x) ==
    LET F      == A.fixed
        v      == to_fixed(F, x)
        inside == SelectSeq(c.segments, LAMBDA s : Holds(s, v))
    IN  IF inside = <<>> THEN 0
        ELSE from_fixed(F, A.max, IF Head(inside).kind = "Linear"
                                  THEN interpolate(F, Head(inside), v)
                                  ELSE evaluate(F, Head(inside).params, v))

-----------------------------------------------------------------------------
(* Influence *)

LinearModel(A, c, x) == x

QuadraticModel(A, c, x) ==
    from_fixed(A.fixed, A.max, UnwrapOr(fixed_sqrt(A.fixed, to_fixed(A.fixed, x)), 0))

LogarithmicModel(A, c, x) ==
    from_fixed(A.fixed, A.max, UnwrapOr(fixed_ln(A.fixed, to_fixed(A.fixed, x)), 0))

ThresholdModel(A, c, x) == IF x >= c.threshold THEN x ELSE 0

\* As SigmoidPayout, with the width of the growth phase and its start given.
SigmoidModel(A, c, x) ==
    LET F     == A.fixed
        start == saturated_into(F, c.start_x)
        width == saturating_sub(FixedI128, saturated_into(F, c.end_x), start)
        ks    == UNION {checked_div(FixedI128, saturating_sub(FixedI128, b, a), width) :
                            a \in logit(F, c.start_frac), b \in logit(F, c.end_frac)} \ {0}
        x0s   == {saturating_sub(FixedI128, start, q) :
                      q \in UNION {checked_div(FixedI128, a, k) :
                                       a \in logit(F, c.start_frac), k \in ks}}
        outputs == {saturated_from(F, logistic(saturated_into(F, c.max_output), k,
                        saturating_sub(FixedI128, saturated_into(F, to_fixed(F, x)), x0))) :
                            k \in ks, x0 \in x0s}
    IN  IF IsFraction(F, c.start_frac) /\ IsFraction(F, c.end_frac) /\ width > 0
        THEN from_fixed(F, A.max, UnwrapOr(outputs, 0))
        ELSE 0

ExponentialModel(A, c, x) ==
    from_fixed(A.fixed, A.max,
        UnwrapOr(fixed_exp(A.fixed, saturating_mul(A.fixed, c.growth_rate, to_fixed(A.fixed, x))),
                 A.fixed.max))

BinaryModel(A, c, x) == IF x >= c.pass_threshold THEN c.pass_value ELSE c.fail_value

CappedLinearModel(A, c, x) == IF x > c.max_influence THEN c.max_influence ELSE x
-----------------------------------------------------------------------------
(* Calls *)

\* A call of a model; `next` is what the model returns for one unit more.
Evaluate(model, Model(_, _, _)) ==
    /\ call = NoCall
    /\ \E c \in Contexts[model], x \in Inputs :
          call' = [model |-> model, c |-> c, x |-> x,
                   result |-> Model(Asset, c, x), next |-> Model(Asset, c, x + 1)]

ComputePayout ==
    \/ Evaluate("ZeroPayout", ZeroPayout)
    \/ Evaluate("ConstantPayout", ConstantPayout)
    \/ Evaluate("InflationPayout", InflationPayout)
    \/ Evaluate("LinearPayout", LinearPayout)
    \/ Evaluate("QuadraticPayout", QuadraticPayout)
    \/ Evaluate("HalvingPayout", HalvingPayout)
    \/ Evaluate("ExpDecayPayout", ExpDecayPayout)
    \/ Evaluate("SigmoidPayout", SigmoidPayout)
    \/ Evaluate("InverseProportionalPayout", InverseProportionalPayout)
    \/ Evaluate("LogarithmicPayout", LogarithmicPayout)
    \/ Evaluate("FixedRatePayout", FixedRatePayout)
    \/ Evaluate("FixedAnnualPayout", FixedAnnualPayout)
    \/ Evaluate("PiecewisePayout", PiecewisePayout)

ComputeInfluence ==
    \/ Evaluate("LinearModel", LinearModel)
    \/ Evaluate("QuadraticModel", QuadraticModel)
    \/ Evaluate("LogarithmicModel", LogarithmicModel)
    \/ Evaluate("ThresholdModel", ThresholdModel)
    \/ Evaluate("SigmoidModel", SigmoidModel)
    \/ Evaluate("ExponentialModel", ExponentialModel)
    \/ Evaluate("BinaryModel", BinaryModel)
    \/ Evaluate("CappedLinearModel", CappedLinearModel)

-----------------------------------------------------------------------------
(* Properties *)

Growing ==
    {"ZeroPayout", "ConstantPayout", "InflationPayout", "LinearPayout", "QuadraticPayout",
     "SigmoidPayout", "LogarithmicPayout", "FixedRatePayout", "FixedAnnualPayout", "LinearModel",
     "QuadraticModel", "LogarithmicModel", "ThresholdModel", "SigmoidModel", "ExponentialModel",
     "BinaryModel", "CappedLinearModel"}

\* No model that is meant to grow pays less for one unit more: not where a
\* product or a sum saturates, not where the exponential no longer fits, not
\* where the logarithm becomes defined, not by the noise of the series.
GrowthNeverFalls == call.model \in Growing => call.result <= call.next

\* The models that are meant to fall never pay more for one unit more, nor more
\* than they start with: exponential decay, also past the point where the
\* exponential is cut off; halving as long as the reward has bits; the inverse
\* where its largest value fits.
DecayNeverRises ==
    /\ call.model = "ExpDecayPayout" =>
           call.next <= call.result /\ call.result <= call.c.initial_reward
    /\ call.model = "HalvingPayout" /\ call.x + 1 < Asset.bits =>
           call.next = call.result \div 2
    /\ call.model = "InverseProportionalPayout"
       /\ checked_div(Asset.fixed, call.c.k, call.c.epsilon) # None =>
           call.next <= call.result

\* Every model goes the way it is meant to go, at every input and limit.
Monotone == GrowthNeverFalls /\ DecayNeverRises

\* Where a sigmoid has to pass, as input and part of the maximum: nowhere for a
\* degenerate context, for which the models return zero.
Anchors ==
    LET points == IF call.model = "SigmoidPayout"
                  THEN <<0, call.c.growth_start, 1, call.c.growth_end>>
                  ELSE <<call.c.start_x \div Asset.fixed.div, call.c.start_frac,
                         call.c.end_x \div Asset.fixed.div, call.c.end_frac>>
    IN  IF points[1] < points[3] /\ points[2] < points[4] /\ points[4] < Asset.fixed.div
        THEN {<<points[1], points[2]>>, <<points[3], points[4]>>}
        ELSE {}

Ceiling ==
    IF call.model = "SigmoidPayout" THEN call.c.max_reward
    ELSE call.c.max_output \div Asset.fixed.div

\* The sigmoids keep what their context asks for although slope and midpoint are
\* derived from it through logarithms of fractions: never above the maximum,
\* and at both ends of the growth phase at most one unit below the part asked
\* for.
SigmoidAnchored ==
    call.model \in {"SigmoidPayout", "SigmoidModel"} =>
        /\ call.result <= Ceiling
        /\ \A anchor \in Anchors :
               call.x = anchor[1] =>
                   LET part == anchor[2] * Ceiling
                   IN  /\ call.result * Asset.fixed.div <= part
                       /\ part < (call.result + 2) * Asset.fixed.div

\* The first segment of a piecewise payout that holds an input decides; a linear
\* one stays between its end values, rising or falling, and meets both.
SegmentBetween ==
    call.model = "PiecewisePayout" =>
        LET F      == Asset.fixed
            v      == to_fixed(F, call.x)
            inside == SelectSeq(call.c.segments, LAMBDA s : Holds(s, v))
            s      == Head(inside)
            low    == IF s.start_y < s.end_y THEN s.start_y ELSE s.end_y
            high   == s.start_y + s.end_y - low
        IN  inside # <<>> /\ s.kind = "Linear" =>
                /\ from_fixed(F, Asset.max, low) <= call.result
                /\ call.result <= from_fixed(F, Asset.max, high)
                /\ v = s.start_x => call.result = from_fixed(F, Asset.max, s.start_y)
                /\ v = s.end_x /\ s.start_x < s.end_x =>
                       call.result = from_fixed(F, Asset.max, s.end_y)

\* What an amount grows to when the reward of every period is added to it.
Compounded(Payout(_, _, _)) ==
    LET amount[i \in 0 .. call.c.time_count] ==
            IF i = 0 THEN call.x
            ELSE LET before == amount[i - 1] IN before + Payout(Asset, call.c, before)
    IN  amount[call.c.time_count]

\* A year of periodic rewards never compounds to more than the annual rate, and
\* misses it by no more than the rounding of each period.
AnnualCompounds ==
    call.model = "FixedAnnualPayout" /\ call.c.time_count > 0 =>
        LET target == call.x + Product(Asset.fixed, to_fixed(Asset.fixed, call.x), call.c.apr)
                               \div Asset.fixed.div
            year   == Compounded(FixedAnnualPayout)
        IN  /\ year <= target
            /\ target < from_fixed(Asset.fixed, Asset.max, Asset.fixed.max) =>
                   target <= year + 2 * call.c.time_count * (1 + call.x \div 100)

\* What the contexts of the models ask for is met where their derivation is least
\* direct: sigmoids, segments and periods of a year.
CurvesAsAsked == SigmoidAnchored /\ SegmentBetween /\ AnnualCompounds
=============================================================================
