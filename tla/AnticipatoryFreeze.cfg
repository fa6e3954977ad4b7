\* Two processes, each with every combination of journal-pool attachment,
\* replication, custom-error environment and freeze_on_fail, two operations
\* each; stops, errors, the operator and the disk act at any time.
CONSTANTS
    Procs = {p1, p2}
    MaxOps = 2
SPECIFICATION Spec
INVARIANTS TypeOK
PROPERTIES StopEndsFreezeWait
