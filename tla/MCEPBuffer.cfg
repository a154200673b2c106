CONSTANTS
    NumRanks = 2
    ExpertsPerRank = 2
    NumTokens = 1
    TopK = 2
    Cap = 2
    PrefetchSlots = 2
    TokenPadding = 2
    Inputs <- SomeRoutings
    Rounds = 2
    Programs <- SomePrograms
SPECIFICATION BufferFairSpec
INVARIANTS
    Delivered
    Combined
    WeightsReturned
PROPERTIES
    CallerUndisturbed
    ProgramsEnd
\* The program ends.
CHECK_DEADLOCK FALSE
