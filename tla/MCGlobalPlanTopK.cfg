\* Two ranks of three experts, two choices a token: entries of one token that meet
\* on a rank, and, as no expert has all that home group 0 gives away, two remote
\* experts on a rank with one prefetch slot.
CONSTANTS
    NumRanks = 2
    ExpertsPerRank = 3
    NumTokens = 2
    TopK = 2
    Cap = 4
    PrefetchSlots = 1
    TokenPadding = 2
    Topks <- FrontRoutings
SPECIFICATION GlobalSpec
INVARIANTS
    RowsTiled
    RightExpert
    OnePrimary
\* Each behaviour plans once.
CHECK_DEADLOCK FALSE
