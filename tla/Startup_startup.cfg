SPECIFICATION Spec
CONSTANTS
    Backends = {"backend"}
    Workers = {"worker"}
    Keys = {"k1"}
    Slugs = {"officer"}
    Tables = {"users"}
    Tags = {"rakesh", "anjali"}
    FaceTags = {"rakesh"}
    Minor = "anjali"
    Leftovers <- MCLeftovers
    Earlier <- MCEarlier
    Modes = {"compose", "local", "rolling"}
    MaxRows = 3
    MaxHits = 3
    MaxKills = 1
CHECK_DEADLOCK FALSE
INVARIANTS HitsKept TargetsOnce MinorHasNoFace
PROPERTIES PhotosKept Starts
