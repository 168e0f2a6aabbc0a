\* Three families of programs: see MCOwnership.
SPECIFICATION Spec
CONSTANTS
    x = x
    y = y
    NoVar = NoVar
    Vars <- MCVars
    Grammars <- MCGrammars
    MaxBack = 2
SYMMETRY Symmetry
INVARIANTS
    NoDoubleFree
    NoUseAfterMove
    NoLeak
    LiveOwns
\* A program the checker rejects is abandoned; a finished run stops.
CHECK_DEADLOCK FALSE
