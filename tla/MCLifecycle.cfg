\* Three ranks, so that one can be ahead of a peer and behind another; one call
\* that raises, on any of them: a creation or a release.
CONSTANTS
    NumRanks = 3
    Buffers = {1, 2, 3}
    Programs <- SomePrograms
    MaxFailures = 1
SPECIFICATION FairSpec
INVARIANTS
    PeersMapped
    ReleasedOnce
PROPERTIES
    ProgramsEnd
\* Programs end; and after a call that raised, ranks may wait for ever.
CHECK_DEADLOCK FALSE
