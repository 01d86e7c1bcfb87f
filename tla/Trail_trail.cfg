SPECIFICATION TrailSpec
CONSTANTS
    Cams = {a, b, c}
    Streams = {c}
    Mine = {a}
    Epochs <- MCOneEpoch
    Times <- MCTimes
    Kinds = {"plate", "person", "face"}
    Slots <- MCSlots
    Dwell = 2
    Window = 2
    MaxSightings = 3
CHECK_DEADLOCK FALSE
INVARIANTS SightingCovered RouteComplete
