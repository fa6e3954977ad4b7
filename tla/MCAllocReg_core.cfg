\* The allocator proper: values of every class read by later triples,
\* line markers in between, two slots per class so that ERR_TMPSTOREMAX
\* is reached.
CONSTANTS
    N = 4
    MaxTempCount = 2
    MvMax = 1
    InlineLiterals = TRUE
    LineEntry = TRUE
    PtrSize = 8
    CrossLines = FALSE
    Ops = {"OC_ADD", "OC_EQU", "OC_WRITE", "OC_LINESTART", "OC_CDADDR"}
    OcTab <- MCOcTab
    ClassSize <- MCClassSize
SPECIFICATION Spec
INVARIANTS
    TypeOK
    ValueIntact
    NoSpuriousOverflow
    RefCountSound
    TempFrameSound
