SPECIFICATION Spec
CONSTANTS
    Programs <- MCPrograms
    InstDepth = 4
    StackCap = 24
    Groups = {"drops", "calls", "functions", "faults"}
INVARIANTS DropExact CallsResolved LexicalTypes Verdict
