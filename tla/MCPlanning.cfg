\* Three ranks, two rounds: a rank can be ahead of one peer and behind another,
\* and at most a round ahead.
CONSTANTS
    NumRanks = 3
    ExpertsPerRank = 1
    NumTokens = 1
    TopK = 2
    Cap = 2
    PrefetchSlots = 1
    TokenPadding = 2
    Inputs <- SkewedRoutings
    Rounds = 2
SPECIFICATION FairSpec
INVARIANTS
    CountsCurrent
    SourcesExact
PROPERTIES
    SourcesStable
    AllPlanned
\* The last round ends.
CHECK_DEADLOCK FALSE
