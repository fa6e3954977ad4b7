CONSTANTS
    Defs <- MCDefs
    MaxSubstitutions = 2
    MaxLine = 5
    MaxInitLen = 4
SPECIFICATION Spec
INVARIANTS
    TypeOK
    NoSubstitutionInString
    SentinelsReplaced
PROPERTIES
    Terminates
