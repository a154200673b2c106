\* Three calls: a plan is made by one and used by two, or two plans are alive.
CONSTANTS
    Programs <- SomePrograms
SPECIFICATION Spec
INVARIANTS
    ResultsRight
    HeldWhileUsed
\* The last call ends.
CHECK_DEADLOCK FALSE
