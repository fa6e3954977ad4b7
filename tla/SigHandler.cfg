\* A process taking and releasing crit, exiting on its own, and up to four
\* signals: polite (SIGTERM, SIGQUIT), a fault (SIGSEGV) and another
\* signal, each kernel-generated or user-sent.
CONSTANTS
    Signals = {"SIGTERM", "SIGQUIT", "SIGSEGV", "SIGUSR1"}
    InfoTypes = {"NONE", "USER"}
    MaxSignals = 4
SPECIFICATION Spec
INVARIANTS TypeOK
PROPERTIES DeferredExitCompletes
