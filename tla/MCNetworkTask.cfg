SPECIFICATION Spec
CONSTANTS
    Interfaces = {"eth0", "wlan0"}
    InterfaceLists <- SomeLists
    CounterNames <- OneCounter
    DeltaParameters <- SomeThresholds
    TwoToThe64 = 16
    MaxErrors = 2
    MaxCounter = 2
    MaxSamples = 2
INVARIANT SummaryIsWorstValue
PROPERTY DeltasCountRealErrors
