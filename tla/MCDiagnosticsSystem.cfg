SPECIFICATION SystemSpec
CONSTANTS
    Namespaces <- TwoNamespaces
    TaskLists <- BothTasks
    PluginKinds = {"good"}
    EnabledKinds = {"none", "wrong_type"}
    Rates = {"normal"}
    ThreadValues <- OneOrTwoThreads
    IntHalf = 3
    Docker = 1
    MaxRuns = 2
    SpawnMayFail = TRUE
INVARIANTS
    OneCallerAtATime
    NothingRunsAfterExit
PROPERTIES
    CyclesKeepTheirPromise
    CyclesReturn
    CallbacksReturn
