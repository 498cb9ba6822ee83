------------------------------ MODULE MCAuthors ------------------------------
EXTENDS Authors, TLC

ConfigOf(probation, rewards, penalties, min) ==
    [ProbationPeriod |-> probation, ReduceProbationBy |-> 1, IncreaseProbationBy |-> 2,
     RewardsBuffer |-> rewards, PenaltiesBuffer |-> penalties,
     MinCollateral |-> min, MinFund |-> 1, MaxExposure |-> 2]

TwoConfigs == {ConfigOf(0, 1, 2, 1), ConfigOf(2, 2, 1, 1)}

BackerSymmetry == Permutations(Backers)
==============================================================================
