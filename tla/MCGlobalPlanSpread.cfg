\* Three ranks of one expert, one choice a token, three tokens a rank: all the
\* ways of overloading one or two home groups, with more padding than the own
\* expert of a rank accounts for.
CONSTANTS
    NumRanks = 3
    ExpertsPerRank = 1
    NumTokens = 3
    TopK = 1
    Cap = 3
    PrefetchSlots = 1
    TokenPadding = 3
    Topks <- AllRoutings
SPECIFICATION GlobalSpec
INVARIANTS
    WeightsAtHand
    NeverRaises
\* Each behaviour plans once.
CHECK_DEADLOCK FALSE
