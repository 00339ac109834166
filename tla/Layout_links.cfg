\* A hard link to a file that a large Macintosh volume shows as well.
SPECIFICATION Spec
CONSTANTS
    Jobs <- LinkJobs
    Ahead = 3
    Large = 3
    MinVol = 5
    BigVol = 8
    Hdr = 2
    Extra = 1
    EndPad = 2
    Top = 60
INVARIANTS
    Placed
