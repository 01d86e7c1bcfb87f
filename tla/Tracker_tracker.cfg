SPECIFICATION TrackerSpec
CONSTANTS
    Places <- MCPlaces
    Footpath <- MCFootpath
    Width = 3
    MaxBoxes = 2
    MaxMisses = 1
    StopHits = 3
    Moving = 1
    Against = 2
    Flow = 2
    Crowd <- MCCrowd
    MaxId = 4
    MaxEpoch = 1
INVARIANTS OneTrackPerBox ScenesOfOneEpoch
PROPERTIES NewOnlyIfAlone NoBetterPair
