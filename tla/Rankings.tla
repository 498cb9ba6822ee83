------------------------------ MODULE Rankings ------------------------------
(***************************************************************************)
(* The election models of frame/plugins/src/elections.rs, the payees of    *)
(* rewards.rs and the penalty models of penalty.rs: pure functions of a    *)
(* list.                                                                   *)
(*                                                                         *)
(* A list is a sequence, and who stands in it is named by the place: a     *)
(* flat list is a sequence of amounts, a ballot a sequence of fair weights,*)
(* a fair weight a sequence of [backer, backed].  A ranking is a sequence  *)
(* of places.  sort_by is stable, so equal scores keep the order of the    *)
(* list.  Plain additions and products of amounts wrap, as in a release    *)
(* build.                                                                  *)
(***************************************************************************)
EXTENDS FixedMath, Sequences, SequencesExt, FiniteSetsExt

CONSTANTS
    Ballots,     \* inputs of the models on fair weights
    Amounts,     \* lists of amounts: flat weights, shares, penalties
    Thresholds,  \* contexts of the models with a threshold
    Scales,      \* contexts of PhragmenModel: weighted, scale
    Ranges,      \* contexts of CappedPenalty: floor, cap
    Payouts      \* amounts to distribute

ASSUME RangesAssumption == \A r \in Ranges : 0 < r.floor /\ r.floor <= r.cap

Places(list) == [i \in DOMAIN list |-> i]

saturating_sum(list) == FoldLeft(LAMBDA sum, n : Min({sum + n, Asset.max}), 0, list)

wrapping(n) == n % (Asset.max + 1)

\* items.sort_by(|a, b| b.1.cmp(&a.1)) on the scores.
sort_descending(score) ==
    SetToSortSeq(DOMAIN score,
                 LAMBDA i, j : score[i] > score[j] \/ (score[i] = score[j] /\ i < j))

BackedOf(weight) == [i \in DOMAIN weight |-> weight[i].backed]

-----------------------------------------------------------------------------
(* Elections on flat weights *)

TopDownFlatModel(weights) == sort_descending(weights)

ThresholdFlatModel(weights, threshold) ==
    SelectSeq(Places(weights), LAMBDA i : weights[i] >= threshold)

(* Elections on fair weights *)

total_backing(weight) == saturating_sum(BackedOf(weight))

TopDownFairModel(ballot) == sort_descending([i \in DOMAIN ballot |-> total_backing(ballot[i])])

\* Total and average: a candidate without backers counts as having one.
balanced_score(weight) ==
    LET total == total_backing(weight)
    IN  Min({total + total \div Max({1, Len(weight)}), Asset.max})

BalancedModel(ballot) == sort_descending([i \in DOMAIN ballot |-> balanced_score(ballot[i])])

ThresholdFairModel(ballot, threshold) ==
    SelectSeq(Places(ballot), LAMBDA i :
        FoldLeft(LAMBDA sum, n : wrapping(sum + n), 0, BackedOf(ballot[i])) >= threshold)

\* The load the candidate's election puts on the backer that bears most of it.
max_load(load, weight) ==
    Max({0} \cup {wrapping(load[w.backer] + w.backed) : w \in ToSet(weight)})

loaded(load, weight) ==
    FoldLeft(LAMBDA l, w : [l EXCEPT ![w.backer] = wrapping(@ + w.backed)], load, weight)

no_load(ballot) ==
    [b \in {w.backer : w \in UNION {ToSet(weight) : weight \in ToSet(ballot)}} |-> 0]

\* The first of the candidates left whose election makes the smallest load.
best_candidate(ballot, s) ==
    LET cost(i) == max_load(s.load, ballot[i])
        least   == Min({cost(i) : i \in s.remaining})
    IN  Min({i \in s.remaining : cost(i) = least})

elect_best(ballot, s) ==
    LET best == best_candidate(ballot, s)
    IN  [remaining |-> s.remaining \ {best},
         load      |-> loaded(s.load, ballot[best]),
         ranking   |-> Append(s.ranking, best)]

MaxMinLoadModel(ballot) ==
    FoldLeft(LAMBDA s, i : elect_best(ballot, s),
             [remaining |-> DOMAIN ballot, load |-> no_load(ballot), ranking |-> <<>>],
             ballot).ranking

\* Mutant: only the first backer is scaled.
contributions_first(c, weight) ==
    [i \in DOMAIN weight |->
        IF c.weighted /\ c.scale # None /\ i = 1
        THEN [weight[i] EXCEPT !.backed = wrapping(@ * UnwrapOr(c.scale, 1))]
        ELSE weight[i]]

\* The contributions are scaled where they are read, in both passes.
contributions(c, weight) ==
    [i \in DOMAIN weight |->
        IF c.weighted /\ c.scale # None
        THEN [weight[i] EXCEPT !.backed = wrapping(@ * UnwrapOr(c.scale, 1))]
        ELSE weight[i]]

PhragmenModel(c, ballot) ==
    MaxMinLoadModel([i \in DOMAIN ballot |-> contributions(c, ballot[i])])

-----------------------------------------------------------------------------
(* Payees *)

\* Mutant: one unit is given out, whatever is left.
topped_up_once(rest, undistributed) == {sort_descending(rest)[1]}

\* Who gets one unit more: the largest remainders, as long as units are left.
topped_up(rest, undistributed) ==
    {sort_descending(rest)[k] : k \in 1 .. Min({undistributed, Len(rest)})}

SharesPay(payout, shares) ==
    LET F       == Asset.fixed
        total   == saturating_sum(shares)
        pay_fp  == [i \in DOMAIN shares |->
                       saturating_mul(F, to_fixed(F, payout),
                           UnwrapOr(checked_div(F, to_fixed(F, shares[i]), to_fixed(F, total)), 0))]
        pay_int == [i \in DOMAIN shares |-> from_fixed(F, Asset.max, pay_fp[i])]
        rest    == [i \in DOMAIN shares |-> saturating_sub(F, pay_fp[i], to_fixed(F, pay_int[i]))]
        undistributed == Max({0, payout - saturating_sum(pay_int)})
    IN  IF total = 0 THEN <<>>
        ELSE [i \in DOMAIN shares |-> IF i \in topped_up(rest, undistributed) THEN pay_int[i] + 1 ELSE pay_int[i]]

EqualPay(payout, shares) ==
    LET F     == Asset.fixed
        equal == UnwrapOr(checked_div(F, to_fixed(F, payout), to_fixed(F, Len(shares))), 0)
    IN  [i \in DOMAIN shares |-> from_fixed(F, Asset.max, equal)]

-----------------------------------------------------------------------------
(* Penalties: pairs of a place and what it is to pay; zero is left out. *)

punishable(penalties) == SelectSeq(Places(penalties), LAMBDA i : penalties[i] # 0)

ThresholdPenalty(penalties, threshold) ==
    [k \in DOMAIN punishable(penalties) |->
        LET i == punishable(penalties)[k] IN <<i, Min({penalties[i], threshold})>>]

CappedPenalty(penalties, range) ==
    [k \in DOMAIN punishable(penalties) |->
        LET i == punishable(penalties)[k]
        IN  <<i, IF penalties[i] > range.cap THEN range.cap ELSE Max({penalties[i], range.floor})>>]

-----------------------------------------------------------------------------
(* Calls *)

CallFlat(model, c, list, result) ==
    call' = [model |-> model, c |-> c, list |-> list, result |-> result]

CallFair(model, c, ballot, result) ==
    call' = [model |-> model, c |-> c, ballot |-> ballot, result |-> result]

ElectFlat ==
    /\ call = NoCall
    /\ \E weights \in Amounts :
           \/ CallFlat("TopDownFlat", [flat |-> TRUE], weights, TopDownFlatModel(weights))
           \/ \E t \in Thresholds :
                  CallFlat("ThresholdFlat", [threshold |-> t], weights, ThresholdFlatModel(weights, t))

ElectFair ==
    /\ call = NoCall
    /\ \E ballot \in Ballots :
           \/ CallFair("TopDownFair", [fair |-> TRUE], ballot, TopDownFairModel(ballot))
           \/ CallFair("Balanced", [fair |-> TRUE], ballot, BalancedModel(ballot))
           \/ CallFair("MaxMinLoad", [fair |-> TRUE], ballot, MaxMinLoadModel(ballot))
           \/ \E t \in Thresholds :
                  CallFair("ThresholdFair", [total |-> t], ballot, ThresholdFairModel(ballot, t))
           \/ \E c \in Scales : CallFair("Phragmen", c, ballot, PhragmenModel(c, ballot))

Distribute ==
    /\ call = NoCall
    /\ \E shares \in Amounts, payout \in Payouts :
           \/ CallFlat("SharesPay", [payout |-> payout], shares, SharesPay(payout, shares))
           \/ CallFlat("EqualPay", [payout |-> payout], shares, EqualPay(payout, shares))

Penalize ==
    /\ call = NoCall
    /\ \E penalties \in Amounts :
           \/ \E t \in Thresholds :
                  CallFlat("ThresholdPenalty", [limit |-> t], penalties, ThresholdPenalty(penalties, t))
           \/ \E r \in Ranges :
                  CallFlat("CappedPenalty", r, penalties, CappedPenalty(penalties, r))

-----------------------------------------------------------------------------
(* Properties *)

\* The sum of a list of amounts, without a bound.
Sum(list) == FoldLeft(LAMBDA sum, n : sum + n, 0, list)

\* The backing of everyone, so that no load can wrap.
Together(ballot) == Sum([i \in DOMAIN ballot |-> Sum(BackedOf(ballot[i]))])

\* The largest load, of the backers of the k-th candidate of a ranking, once the
\* first k are elected.
LoadAt(ballot, ranking, k) ==
    LET backers == {w.backer : w \in ToSet(ballot[ranking[k]])}
        parts(b) == {p \in UNION {{i} \X DOMAIN ballot[ranking[i]] : i \in 1 .. k} :
                        ballot[ranking[p[1]]][p[2]].backer = b}
        load(b) == FoldSet(LAMBDA p, sum : sum + ballot[ranking[p[1]]][p[2]].backed, 0, parts(b))
    IN  Max({0} \cup {load(b) : b \in backers})

\* MaxMinLoadModel: the load at which a candidate is elected never falls along
\* the ranking, whatever backers the candidates share.  Nobody who could have
\* been elected at a smaller load is elected later.
LoadsNeverFall ==
    call.model = "MaxMinLoad" /\ Together(call.ballot) <= Asset.max =>
        \A k \in 1 .. Len(call.result) - 1 :
            LoadAt(call.ballot, call.result, k) <= LoadAt(call.ballot, call.result, k + 1)

\* PhragmenModel: amplifying every backer alike changes no ranking, with ties
\* and shared backers, as long as the loads fit their type.
ScaleFree ==
    call.model = "Phragmen" /\ call.c.scale # {0}
    /\ Together(call.ballot) * UnwrapOr(call.c.scale, 1) <= Asset.max =>
        call.result = MaxMinLoadModel(call.ballot)

\* A filter keeps exactly the top of what the ranking on the same weights says,
\* although the one adds with and the other without saturation: nobody kept
\* ranks below somebody dropped.
ThresholdKeepsTop ==
    /\ call.model = "ThresholdFair" /\ Together(call.ballot) <= Asset.max =>
           ToSet(call.result) = ToSet(SubSeq(TopDownFairModel(call.ballot), 1, Len(call.result)))
    /\ call.model = "ThresholdFlat" =>
           ToSet(call.result) = ToSet(SubSeq(TopDownFlatModel(call.list), 1, Len(call.result)))

\* SharesPay pays the whole payout and nobody more than one unit off the exact
\* share, although every ratio is rounded down, as long as the error of the
\* ratios does not add up to a unit: a payout of at most DIV divided by the payees.
SharesFair ==
    call.model = "SharesPay" /\ Sum(call.list) > 0
    /\ call.c.payout * Len(call.list) <= Asset.fixed.div
    /\ Sum(call.list) * Asset.fixed.div <= Asset.fixed.max =>
        /\ Sum(call.result) = call.c.payout
        /\ \A i \in DOMAIN call.list :
               Abs(call.result[i] * Sum(call.list) - call.c.payout * call.list[i]) <= Sum(call.list)

\* EqualPay pays everyone the whole part of an equal share: never more than
\* there is, and less than one unit each is kept back.
EqualPayExact ==
    call.model = "EqualPay" /\ call.list # <<>> /\ call.c.payout * Asset.fixed.div <= Asset.fixed.max =>
        /\ Sum(call.result) <= call.c.payout
        /\ call.c.payout < Sum(call.result) + Len(call.list)

\* Both penalty models keep everyone who is to be punished, in the order of the
\* list and of severity: nobody pays more than somebody with a larger penalty.
SeverityKept ==
    call.model \in {"ThresholdPenalty", "CappedPenalty"} =>
        /\ {call.result[k][1] : k \in DOMAIN call.result} = {i \in DOMAIN call.list : call.list[i] > 0}
        /\ \A k, l \in DOMAIN call.result :
               /\ k < l => call.result[k][1] < call.result[l][1]
               /\ call.list[call.result[k][1]] <= call.list[call.result[l][1]] =>
                      call.result[k][2] <= call.result[l][2]

\* Elections: greedy load balancing is ordered and does not depend on the scale,
\* and a filter agrees with the ranking of the same weights.
ElectionsConsistent == LoadsNeverFall /\ ScaleFree /\ ThresholdKeepsTop

\* What is paid or taken is everyone's part to the unit, and keeps the order of
\* what it is measured by.
PartsFair == SharesFair /\ EqualPayExact /\ SeverityKept
=============================================================================
