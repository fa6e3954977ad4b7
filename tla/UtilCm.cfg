\* A four-byte outbuff and messages of none, one or two bytes: an empty
\* message with RESET is the only call that may come first, and two
\* NOFLUSH_OUT messages after the code byte fill the buffer.
CONSTANTS
    BuffSize = 4
    MsgLens = {0, 1, 2}
    MaxCalls = 3
SPECIFICATION Spec
INVARIANT WritesInsideOutbuff
