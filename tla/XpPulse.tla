------------------------------- MODULE XpPulse -------------------------------
(***************************************************************************)
(* The reputation arithmetic of pallet-xp: the discrete accumulator that a *)
(* pulse is, and the queries that look ahead along it.  A pulse collects   *)
(* `per_count` steps per action and turns every `threshold` of them into   *)
(* one unit of value.                                                      *)
(***************************************************************************)
EXTENDS Integers

CONSTANT MaxPulse      \* largest T::Pulse

ASSUME MaxPulseAssumption == MaxPulse \in Nat \ {0}

Pulses == [value : 0 .. MaxPulse, step : 0 .. MaxPulse]

Steppers == [threshold : 0 .. MaxPulse, per_count : 0 .. MaxPulse]

NoPulse == [value |-> 0, step |-> 0]

PulseCap(n) == IF n <= MaxPulse THEN n ELSE MaxPulse

\* Stepper::new refuses a stepper with more steps per action than a pulse takes.
Stepper_new(f) == f.per_count <= f.threshold

\* With a threshold of zero the loop of `increment` never ends.
Terminates(f) == f.threshold # 0

\* The loop subtracts the threshold as often as it fits.
increment(p, f) ==
    LET s == PulseCap(p.step + f.per_count)
    IN  [value |-> PulseCap(p.value + s \div f.threshold),
         step |-> s % f.threshold]

\* The pulse after n actions.
Increments(p, f, n) ==
    LET after[m \in 0 .. n] == IF m = 0 THEN p ELSE increment(after[m - 1], f)
    IN  after[n]

-----------------------------------------------------------------------------
(* xp_eligibility: 0 stands for Earning, n > 0 for Progressing(n). *)

\* Mutant: the quotient is rounded down.
floor_div_pulse(n, by) == n \div by

\* checked_sub(1).unwrap_or(0) / by + 1: a zero counts as one action.
ceil_div_pulse(n, by) == (IF n = 0 THEN 0 ELSE n - 1) \div by + 1

eligible_in(p, min, f) ==
    LET left == IF p.step <= f.threshold THEN f.threshold - p.step ELSE 0
    IN  ceil_div_pulse(left, f.per_count)
          + (min - p.value - 1) * ceil_div_pulse(f.threshold, f.per_count)

\* The query answers an error instead of the number.
eligibility_fails(p, min, f) ==
    p.value < min /\ (f.per_count = 0 \/ eligible_in(p, min, f) > MaxPulse)

xp_eligibility(p, min, f) == IF p.value >= min THEN 0 ELSE eligible_in(p, min, f)

=============================================================================
