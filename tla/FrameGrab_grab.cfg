SPECIFICATION FairGrabSpec
CONSTANTS
    Cams = {olda, oldb, cctv}
    HasRtsp = {olda, cctv}
    HasHls = {olda, oldb, cctv}
    Cctv = {cctv}
    LocalRtsp = TRUE
    Attempts = 5
    FloatLimit = 3
    MaxRtspFails = 3
    MaxStreak = 4
    MaxOutages = 2
INVARIANTS NoOrphanPublisher
PROPERTIES HlsFallback Recovers SampleEnds
