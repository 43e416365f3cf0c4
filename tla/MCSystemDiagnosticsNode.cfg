SPECIFICATION FairSpec
CONSTANTS
    Namespaces <- TwoNamespaces
    TaskLists <- SomeLists
    PluginKinds = {"none", "good", "bad", "wrong_type"}
    EnabledKinds = {"none", "false", "wrong_type"}
    Rates = {"nonpositive", "tiny"}
    ThreadValues <- EdgeThreads
    IntHalf = 4
INVARIANTS
    TypeOK
    IdleNodeHoldsNothing
    EveryInstanceIsLoaded
    SafeSettings
PROPERTIES
    ImplementsManagedNode
    TransitionsEnd
