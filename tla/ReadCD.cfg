\* Small media, every way a read, a mode page or the file may fail, and a signal.
SPECIFICATION RFairSpec
CONSTANTS
    Jobs <- SmallJobs
    SeekFrom = 1
INVARIANTS
    RTypeOK
    BadIsBad
    ZeroMeansAll
    Restored
    Prompt
PROPERTIES
    InOrder
    Ends
