SPECIFICATION FairSpec
CONSTANTS
    j1 = j1
    j2 = j2
    Jobs = {j1, j2}
    NoJob = NoJob
    MaxDetails = 2
    MaxFaults <- EveryKind
PROPERTIES
    BoardNeverGoesBack
    ViewsConverge
