\* Two ranks of three experts, two tokens of three choices on each: a rank is sent
\* up to three rows of one token and has several groups.  The packed word is as
\* narrow as its bounds allow.
CONSTANTS
    NumRanks = 2
    ExpertsPerRank = 3
    NumTokens = 2
    TopK = 3
    Cap = 6
    PrefetchSlots = 2
    TokenPadding = 2
    NumSMs = 3
    NvsBits = 4
    KidxBits = 2
    Infos <- SomeInfos
    Builds = 2
SPECIFICATION FairSpec
INVARIANTS
    RangesDisjoint
    SumOrder
PROPERTIES
    ImplementsDupMap
\* The last map is built.
CHECK_DEADLOCK FALSE
