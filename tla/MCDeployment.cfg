SPECIFICATION FairSpec
CONSTANTS
    Roles = 2
    MaxRetries = 3
    MaxRuns = 2
    MaxSent = 9
INVARIANT TypeOK
INVARIANT ReportedDeploymentIsWhole
INVARIANT NamedAppsAreFunded
INVARIANT DuplicatesAreBounded
PROPERTY NamesAreFinal
PROPERTY RunEnds
CHECK_DEADLOCK FALSE
