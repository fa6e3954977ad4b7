\* The rewrites alloc_reg() makes besides allocating: comment and blank-line
\* markers (NOLINE_ENTRY), the TVAL clearing at line boundaries, the mvmax
\* fetch count, OC_PASSTHRU release, OC_GVSAVTARG without OC_GVRECTARG,
\* parameter chains (the operand walk follows a chain of OC_PARAMETER triples
\* and releases every value passed through it) and store forwarding (a value
\* whose only consumer is an OC_STO into an OC_VAR is computed straight into
\* the variable; the address class and literal values are not forwarded).
CONSTANTS
    N = 4
    MaxTempCount = 2
    MvMax = 1
    InlineLiterals = TRUE
    LineEntry = FALSE
    PtrSize = 8
    CrossLines = FALSE
    Ops = {"OC_PARAMETER", "OC_FNPIECE", "OC_SRCHINDX", "OC_LIT", "OC_WRITE",
           "OC_VAR", "OC_STO", "OC_ADD", "OC_LINESTART", "OC_LINEFETCH", "OC_FETCH",
           "OC_ILIT", "OC_PASSTHRU", "OC_GVSAVTARG", "OC_GVRECTARG"}
    OcTab <- MCOcTab
    ClassSize <- MCClassSize
SPECIFICATION Spec
INVARIANTS
    ValueIntact
    RefCountSound
    NoWildTempWrite
