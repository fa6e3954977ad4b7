\* Every relational case and every truth-test case of bx_tail() under
\* negation and under one connective; and nested connectives two levels
\* deep, with negation at every level, over an equality, an ordering
\* compare and a $TEST truth test, for the intermediate senses and "next"
\* labels of bx_boolop().  Both senses and both gtm_fullbool modes.
CONSTANTS
    Trees <- MCTrees
    FlatLeafOps = {"OC_EQU", "OC_NEQU", "OC_PATTERN", "OC_NPATTERN", "OC_FOLLOW", "OC_NFOLLOW",
                   "OC_SORTS_AFTER", "OC_NSORTS_AFTER", "OC_CONTAIN", "OC_NCONTAIN",
                   "OC_GT", "OC_NGT", "OC_LT", "OC_NLT", "OC_COBOOL", "OC_SCOBOOL"}
    FlatConnOps = {"OC_AND", "OC_OR"}
    NestLeafOps = {"OC_EQU", "OC_LT", "OC_COBOOL"}
    NestConnOps = {"OC_AND", "OC_NAND", "OC_OR", "OC_NOR"}
SPECIFICATION Spec
INVARIANTS TypeOK LoweringCorrect ShortCircuitExact
