\* Three home groups of two experts: a donor can serve two receivers, and with
\* four tokens a rank, two donors of equal load leave a quota that takes tokens
\* from both experts of its donor; a donor that fills its last receiver beyond its
\* excess becomes a receiver itself.
CONSTANTS
    NumRanks = 3
    ExpertsPerRank = 2
    Cap = 4
    Inputs <- AllCounts
SPECIFICATION FairSpec
INVARIANTS
    SingleDonor
    DonorWithinMeans
    RoundsSuffice
    HomeShare
    SingleHome
    Deterministic
PROPERTIES
    FilledStays
    Completes
    ImplementsAllocation
\* Planning of this phase ends.
CHECK_DEADLOCK FALSE
