SPECIFICATION FairSpec
CONSTANTS
    MaxTasks = 4
    MaxThreads = 3
    Period = 1
    MaxElapsed = 3
    SpawnMayFail = TRUE
INVARIANTS
    TypeOK
    OneUpdatePerTask
    EveryTaskReported
    TimingIsTruthful
    NoWorkerOutlivesCycle
PROPERTIES
    ImplementsDiagnosticsCycle
    CycleEnds
