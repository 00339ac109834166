\* Directories of up to three names, in every combination of the options.
SPECIFICATION Spec
CONSTANTS
    Jobs <- MCJobs
    Ahead = 3
    Large = 3
    MinVol = 5
    BigVol = 8
    Hdr = 2
    Extra = 1
    EndPad = 2
    Top = 60
INVARIANTS
    Placed
    EndsAsPlanned
    SameInode
    HeavierFirst
