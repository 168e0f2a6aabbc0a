CONSTANTS
  Chars <- MCChars
  MaxInstrs = 2048
  MaxGroups = 4
  MaxDepth = 256
  MaxThreads = 512
  MaxDfaProg = 160
  Patterns <- MCPatterns
  Malformed <- MCMalformed
  Texts <- MCTexts
  CachePatterns <- MCCache
  CacheSlots = 3
  MaxClock = 6
SPECIFICATION Spec
CHECK_DEADLOCK FALSE
INVARIANTS LeftmostFirst GenuineMatch DfaAgrees CapturesOfLastExec CacheIsLRU
