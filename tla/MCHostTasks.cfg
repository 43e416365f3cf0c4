SPECIFICATION HostSpec
CONSTANTS
    Parameters <- SomeParameters
    Readings <- SomeReadings
    TwoToThe32 = 16
    TwoToThe64 = 1024
    MaxTicks = 4
    MaxSince = 3
    LoadsPerCore = {1, 2}
    WarnUsage = 50
    ErrorUsage = 75
    WarnLoad = 1
    ErrorLoad = 2
INVARIANTS
    NothingIsMasked
    AlarmsAreReal
    LevelIsWorstOfBoth
PROPERTIES
    UsageAlarmsAreReal
    HighUsageIsReported
