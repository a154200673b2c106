\* Three ranks: one can be ahead of a peer and behind another.  Two tiles: a copy
\* or a sum can be half done.  Two steps: what one leaves shows in the next.
CONSTANTS
    NumRanks = 3
    ExpertsPerRank = 1
    NumTokens = 2
    TopK = 2
    Cap = 4
    PrefetchSlots = 2
    TokenPadding = 1
    Plans <- SomePlans
    Memory <- Mixed
    NumTiles = 2
    Iterations = 2
SPECIFICATION FairSpec
INVARIANTS
    WeightsCurrent
    GradsExact
PROPERTIES
    ReadersUndisturbed
    AllStepsEnd
\* The last step ends.
CHECK_DEADLOCK FALSE
