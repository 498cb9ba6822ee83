-------------------------- MODULE MCPluginModels --------------------------
(* Scaled down types and small sets of inputs for PluginModels. *)
EXTENDS PluginModels

\* DIV^2 fits below the largest value, as with 10^18 in 128 bits.
MCFixedI128 == [div |-> 1000, min |-> -1100001, max |-> 1100000, places |-> 3, e |-> 2718]
MCFixedU128 == [div |-> 1000, min |-> 0, max |-> 1400000, places |-> 3, e |-> 2718]

\* An asset whose largest value does not fit its fixed-point type, as with u128
\* and FixedU128.
MCAsset == [max |-> 65535, bits |-> 16, fixed |-> MCFixedU128]

MCTypes == {MCFixedI128, MCFixedU128}

\* Small numbers, both sides of every whole and half one, squares, the extremes.
MCNumbers ==
    (-40 .. 160) \cup {1000 * k + d : k \in -31 .. 31, d \in {-1, 0, 1, 250, 499, 500, 501}}
    \cup {144 * k * k + 1 : k \in 2 .. 98}
    \cup {-1100001, -1100000, 1099999, 1100000, 1399999, 1400000}

MCExponents == {-2000, -500, 0, 1, 250, 500, 999, 1000, 1001, 1500, 2000, 2500, 3000}

\* Growth phases of sigmoids, degenerate ones among them.
Phases == {<<50, 950>>, <<100, 900>>, <<100, 500>>, <<300, 600>>, <<500, 900>>, <<750, 800>>,
           <<500, 500>>, <<900, 1000>>}

MCInputs == (0 .. 40) \cup {99, 100, 1000, 1099, 1100, 1399, 1400, 65534}

Linear(a, b, v, w) == [kind |-> "Linear", start_x |-> a, end_x |-> b, start_y |-> v, end_y |-> w]
Curve(a, b, l, k, x0) ==
    [kind |-> "Curve", start_x |-> a, end_x |-> b, params |-> [l |-> l, k |-> k, x0 |-> x0]]

MCContexts ==
    [ZeroPayout |-> {[none |-> 0]},
     ConstantPayout |-> {[payout |-> 100]},
     InflationPayout |-> [inflation_rate : {0, 10, 333, 1500}],
     LinearPayout |-> [slope : {0, 1, 500, 2500}, base_reward : {0, 999, 1400000}],
     QuadraticPayout |-> [quadratic_coeff : {0, 1, 1000}, linear_coeff : {0, 500},
                          constant_term : {0, 7500}],
     HalvingPayout |-> [initial_reward : {1, 1000, 65535}],
     ExpDecayPayout |-> [initial_reward : {10, 100, 999}, decay_constant : {0, 2, 10, 100, 693, 3000}],
     SigmoidPayout |-> {[max_reward |-> l, growth_start |-> p[1], growth_end |-> p[2]] : l \in {10, 100}, p \in Phases},
     InverseProportionalPayout |-> [k : {1000, 100000}, epsilon : {0, 1, 100, 1000}],
     LogarithmicPayout |-> [vertical_scale : {1000, 10000}, horizontal_scale : {100, 1000},
                            horizontal_shift : {0, 1000}, vertical_shift : {0, 5000}],
     FixedRatePayout |-> [rate : {10, 1000}],
     FixedAnnualPayout |-> [apr : {0, 120, 1000}, time_count : {0, 1, 4, 12}],
     PiecewisePayout |-> [segments : {<<Linear(0, 10000, 0, 100000), Linear(10000, 20000, 100000, 7500),
                                        Curve(20000, 40000, 100000, 500, 30000)>>,
                                      <<Linear(5000, 5000, 3000, 9000), Linear(0, 9000, 8000, 1000)>>}],
     LinearModel |-> {[none |-> 0]},
     QuadraticModel |-> {[none |-> 0]},
     LogarithmicModel |-> {[none |-> 0]},
     ThresholdModel |-> [threshold : {0, 10}],
     SigmoidModel |-> {[max_output |-> l, start_frac |-> p[1], end_frac |-> p[2], start_x |-> 2000, end_x |-> e] :
                          l \in {10000, 100000}, p \in Phases, e \in {2000, 6000, 10000}},
     ExponentialModel |-> [growth_rate : {0, 1, 100, 1000, 1400}],
     BinaryModel |-> [pass_threshold : {10}, pass_value : {5}, fail_value : {1}],
     CappedLinearModel |-> [max_influence : {10, 1000}]]

Lists(S, n) == UNION {[1 .. k -> S] : k \in 0 .. n}
Backing(b, n) == [backer |-> b, backed |-> n]
Weights ==
    {<<>>, <<Backing("a", 4)>>, <<Backing("b", 3)>>, <<Backing("a", 2), Backing("b", 2)>>,
     <<Backing("b", 5), Backing("c", 1)>>, <<Backing("a", 1), Backing("b", 6), Backing("c", 2)>>,
     <<Backing("c", 40000)>>, <<Backing("a", 40000), Backing("c", 3)>>}
MCBallots == Lists(Weights, 3)
MCAmounts == Lists({0, 1, 2, 3, 7, 400}, 3)
MCThresholds == {1, 4, 9}
MCScales == [weighted : BOOLEAN, scale : {None, Some(0), Some(1), Some(3)}]
MCRanges == {[floor |-> 1, cap |-> 3], [floor |-> 2, cap |-> 7]}
MCPayouts == {0, 1, 2, 10, 100, 333, 1000}

=============================================================================
