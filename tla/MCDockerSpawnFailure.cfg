SPECIFICATION Spec
CONSTANTS
    Samplers = {s1}
    MaxRuns = 2
    SpawnMayFail = TRUE
INVARIANT
    InProgressMeansSampling
