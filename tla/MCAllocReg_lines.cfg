\* Values read across a line marker: the TVAL clearing at OC_LINESTART and
\* OC_LINEFETCH frees the slot of a value that is still to be read.
CONSTANTS
    N = 4
    MaxTempCount = 2
    MvMax = 1
    InlineLiterals = TRUE
    LineEntry = TRUE
    PtrSize = 8
    CrossLines = TRUE
    Ops = {"OC_ADD", "OC_WRITE", "OC_LINESTART"}
    OcTab <- MCOcTab
    ClassSize <- MCClassSize
SPECIFICATION Spec
INVARIANTS
    ValueIntact
