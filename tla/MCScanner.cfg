SPECIFICATION Spec
CONSTANTS
    MaxCond = 3
    Lexemes <- MCLexemes
    Fragments <- MCFragments
    FragmentWeight = 5
    DirectiveWeight = 3
    MaxWeight = 15
INVARIANTS RoundTrip Diagnosed
PROPERTY ScanMoves
CHECK_DEADLOCK FALSE
