CONSTANTS
    NumCTAs = 2
    Tag = 4
    MaxLaunches = 2
SPECIFICATION FairSpec
PROPERTIES
    LaunchCompletes
CHECK_DEADLOCK FALSE
