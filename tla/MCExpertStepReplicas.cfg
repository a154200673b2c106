\* Two ranks are enough for a copy that is older than the owner's.
CONSTANTS
    NumRanks = 2
    ExpertsPerRank = 1
    NumTokens = 2
    TopK = 2
    Cap = 4
    PrefetchSlots = 1
    TokenPadding = 1
    Plans <- PlannersPlan
    Memory <- Replicas
    NumTiles = 1
    Iterations = 2
SPECIFICATION Spec
INVARIANT RemoteWeights
CHECK_DEADLOCK FALSE
