SPECIFICATION Spec
CONSTANTS
  MaxParseDepth = 64
  UpperNames <- MCUpper
  AutoCallNames = {}
  PathBuf = 9
  ParenthesiseCasts = TRUE
  Leaves <- MCLeaves
  Decls <- MCDecls
  Plain <- MCPlain
  Files <- MCFiles
  MaxSteps = 2
  EditLen = 10
  EditKinds <- MCEditKinds
PROPERTIES RoundTrip Terminates NothingDropped
CHECK_DEADLOCK FALSE
