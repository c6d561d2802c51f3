SPECIFICATION FairSpec
CONSTANTS
  Commands <- AllCommands
  AllowedCommands = {"build", "check", "test", "clippy", "fmt", "add", "doc"}
  PipeCapacity = 2
INVARIANTS IInv OutputComplete AnsweredChildGone FittingNotKilled
PROPERTY EventuallyAnswered
CHECK_DEADLOCK FALSE
