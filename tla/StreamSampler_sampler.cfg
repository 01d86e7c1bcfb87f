SPECIFICATION FairSpec
CONSTANTS
    Workers = {w1}
    Samplers = {w1}
    Lag = 1
    MaxNow = 3
    MaxEdits = 1
    MaxCrashes = 1
INVARIANTS NeverFuture
PROPERTIES CutUnlessLost EpochHasOneTracker CatalogueReturns
