SPECIFICATION FairSpec
CONSTANTS
    Apis = {api}
    Workers = {worker}
    MaxCrashes = 1
    MaxFaults = 1
INVARIANTS LoadedServes WholeWhenQuiet
PROPERTY SomeoneReady
