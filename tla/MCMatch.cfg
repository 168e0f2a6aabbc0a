SPECIFICATION Spec
CONSTANTS
    Functions_ <- MCFunctions
    MaxIter = 2
    Matches <- MCMatches
    Enum <- MCEnum
    OrCap = 64
    Bits8 = 3
    Bits16 = 4
    Bits32 = 6
    Bits64 = 8
    Mant32 = 5
    Mant64 = 7
    Groups = {"pairs", "wild", "statements", "loops", "unwraps", "enum_arms", "int_arms", "chain_arms", "bit_arms"}
CHECK_DEADLOCK FALSE
INVARIANTS DropsOnce NoTempLeak ArmAgrees
