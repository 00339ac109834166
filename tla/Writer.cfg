\* Tracks of every kind, and every answer of the drive to a write.
SPECIFICATION WFairSpec
CONSTANTS
    Tracks <- SmallTracks
    MinSecs = 5
INVARIANTS
    WTypeOK
    OnceEach
    EndsComplete
    LengthPlanned
    LastWrite
    AtTheEnd
PROPERTIES
    InOrder
    TrackEnds
