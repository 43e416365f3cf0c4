SPECIFICATION StorageSpec
CONSTANTS
    Instances = {1, 2}
    Processes = {1, 2}
    Pids = {1, 2}
    Root = "/"
    PathLists <- SomeLists
    Removable = {"/data"}
    Volumes <- SomeVolumes
    WarnUsage = 85
    ErrorUsage = 95
    MaxCrashes = 1
INVARIANTS
    EveryFileHasOneOwner
    SummaryIsWorstPath
PROPERTY DeniedWithReason
