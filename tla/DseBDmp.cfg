\* A database of 130 blocks with the real 64 blocks per local bitmap, so
\* that blocks 0, 64 and 128 are bitmaps of two rows each; dumps of up to
\* three blocks that cross a bitmap and wrap past the last block; -COUNT
\* absent, unparsable, 0, 3 and FFFFFFFF (read back as the int4 -1); at most one
\* record per data block.
CONSTANTS
    TotalBlks = 130
    BplMap = 64
    MaxRecs = 1
    StartBlks = {63, 127, 129}
    CountArgs = {0, 3}
SPECIFICATION Spec
INVARIANTS
    CritRestored
    VisitsConsecutive
    StopsOnCtrlC
