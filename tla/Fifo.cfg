\* Every fault may happen at every step, and none has to.
SPECIFICATION FairSpec
CONSTANTS
    NBuf = 3
    Jobs <- SmallJobs
    Faults = {"interrupt", "killed", "driveerr", "rtimeout", "ptimeout"}
INVARIANTS
    TypeOK
    SlotExclusion
    AwaitMeansReady
    ScanUndisturbed
    Lockstep
    CleanEnd
PROPERTIES
    InOrder
    EndsAfterAwait
    Completes
