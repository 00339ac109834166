\* Interrupts, drive errors, a quick and a slow drive: the session ends, the drive is restored.
SPECIFICATION BFairSpec
CONSTANTS
    NBuf = 3
    Jobs <- Sessions
    Faults = {"interrupt", "driveerr", "rtimeout", "ptimeout"}
    MaxWait = 4
    InputMax = 2
    MaxIntr = 2
    Drives <- BothDrives
INVARIANTS
    BTypeOK
    Restored
    QuickDriveKeepsReader
PROPERTIES
    SessionEnds
