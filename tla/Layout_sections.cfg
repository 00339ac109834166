\* A sorted directory whose last file is in sections.
SPECIFICATION Spec
CONSTANTS
    Jobs <- SectionJobs
    Ahead = 3
    Large = 3
    MinVol = 5
    BigVol = 8
    Hdr = 2
    Extra = 1
    EndPad = 2
    Top = 60
INVARIANTS
    Placed
