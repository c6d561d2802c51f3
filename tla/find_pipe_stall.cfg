SPECIFICATION Spec
CONSTANTS
  Commands <- AllCommands
  AllowedCommands = {"build", "check", "test", "clippy", "fmt", "add", "doc"}
  PipeCapacity = 2
INVARIANT TimeoutOnlyRunaway
CHECK_DEADLOCK FALSE
