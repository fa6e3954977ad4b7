\* Four heap blocks (two live buffers and two new ones while they grow),
\* as interchangeable model values; two directory key sizes, so that a
\* switch can both grow and shrink the key size; two gvinit() calls and two
\* ydb_delete_s() calls, with sets, interrupts and directory switches in
\* between.
CONSTANTS
    Blocks = {b1, b2, b3, b4}
    KeySizes = {8, 16}
    MaxInits = 2
    MaxCalls = 2
SYMMETRY BlockSymmetry
SPECIFICATION Spec
INVARIANTS
    KeyBuffersExact
PROPERTIES
    DeleteContract
