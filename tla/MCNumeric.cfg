SPECIFICATION Spec
CHECK_DEADLOCK FALSE
CONSTANTS
    Bits8 = 2
    Bits16 = 3
    Bits32 = 5
    Bits64 = 7
    Mant32 = 4
    Mant64 = 6
    Fuel = 12
    Budget = 30
    Groups = {"binary", "shift", "unary_cast", "store", "compound", "control", "math", "constants"}
    Programs <- Programs_
PROPERTIES EmittedMeaning FoldAgrees CAgrees
