\* A blank that takes longer than WRITER_MAXWAIT while the FIFO is full.
SPECIFICATION BSpec
CONSTANTS
    NBuf = 3
    Jobs <- OneTrack
    Faults = {"rtimeout", "ptimeout"}
    MaxWait = 4
    InputMax = 2
    MaxIntr = 2
    Drives <- SlowOnly
INVARIANTS
    NoReaderTimeout
