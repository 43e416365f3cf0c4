SPECIFICATION LiveSpec
CONSTANTS
    Samplers = {s1}
    MaxRuns = 3
    SpawnMayFail = TRUE
INVARIANTS
    TypeOK
    SpawnFindsNoWorker
    UpdateNeverWaitsForDocker
    ReleasedByCleanup
PROPERTIES
    ImplementsLatestSample
    SamplerStaysInUse
    SampleCompletes
