\* Every header version the switch can enter at, in both lineages, with every
\* combination of the flags the function reads, opened twice.
CONSTANTS
    MaxOpens = 2
SPECIFICATION Spec
INVARIANTS TypeOK UpgradeComplete UpgradeStateCoherent
