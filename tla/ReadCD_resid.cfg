\* A read that moves less than asked for ends the copy, and readcd exits with 0.
SPECIFICATION RSpec
CONSTANTS
    Jobs <- Residuals
    SeekFrom = 1
INVARIANT
    ResidualIsError
