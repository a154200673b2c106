\* Four CTAs over two launches; Tag = NumCTAs is the tightest word the assumption
\* on the constants allows.
CONSTANTS
    NumCTAs = 4
    Tag = 4
    MaxLaunches = 2
SPECIFICATION FairSpec
INVARIANTS
    SafeExit
    SelfReset
    TagMeansAll
PROPERTIES
    ResetStrandsSpinners
    SomeCTALeaves
\* A launch may hang, and the last one ends.
CHECK_DEADLOCK FALSE
