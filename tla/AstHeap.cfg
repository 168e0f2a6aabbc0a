SPECIFICATION Spec
CONSTANTS
  InnerKinds = {"AST_BINARY", "AST_CLOSURE", "AST_AT_TIME", "AST_NEW_EXPR"}
  OuterKinds <- AllKinds
  CheckedAgain = FALSE
  MaxSteps = 2
INVARIANTS FreedOnce CloneComplete
CHECK_DEADLOCK FALSE
