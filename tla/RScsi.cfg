\* Every split of what is sent, refusals on both sides, and a connection that may be lost.
SPECIFICATION FairSpec
CONSTANTS
    Scripts <- SmallScripts
    BufSize = 3
    Room = 4
    MaxCmd = 1
    MaxSense = 1
    Senses = {0, 2}
    Faults = {"loss"}
INVARIANTS
    RmTypeOK
    BufferForData
PROPERTIES
    LikeLocalCalls
    BothEnd
