-------------------------------- MODULE MCXp --------------------------------
(* An instance of Xp with a reserve, a lock and a changing pulse. *)
EXTENDS Xp, TLC

Stepper(t, c) == [threshold |-> t, per_count |-> c]

SomeFactors == {Stepper(3, 2), Stepper(2, 1), Stepper(1, 1), Stepper(1, 2)}

\* Keys and owners are interchangeable.
KeySymmetry == Permutations(Keys) \cup Permutations(Owners)

=============================================================================
