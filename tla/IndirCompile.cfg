\* Three addresses, so that a moved argument leaves a hole a later argument
\* can take; three calls, so that a compile, a reuse and a lookup can follow.
CONSTANTS
    Addrs = {1, 2, 3}
    Texts = {"A", "B", ""}
    ArgCodes = {"indir_do", "indir_xecute", "indir_linetail"}
    MaxCalls = 3
    MaxArgs = 1
SPECIFICATION Spec
INVARIANTS PoolRestored RunsItsOwnArgument
PROPERTY ImplementsIndirCache
