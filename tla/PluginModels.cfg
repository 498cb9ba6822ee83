SPECIFICATION Spec
CONSTANTS
    FixedI128 <- MCFixedI128
    Asset <- MCAsset
    Types <- MCTypes
    Numbers <- MCNumbers
    Exponents <- MCExponents
    Inputs <- MCInputs
    Contexts <- MCContexts
    Ballots <- MCBallots
    Amounts <- MCAmounts
    Thresholds <- MCThresholds
    Scales <- MCScales
    Ranges <- MCRanges
    Payouts <- MCPayouts
INVARIANTS
    RootsSquareBack
    LogsAgree
    PowBetween
    Monotone
    CurvesAsAsked
    ElectionsConsistent
    PartsFair
