CONSTANTS
  Locals = {"w", "x", "y", "z"}
  NoBlock = NoBlock
  Programs <- MCPrograms
SPECIFICATION Spec
INVARIANTS
  Verifies FlatRunsTheSame EndedOnceInOrder NothingLeftBehind
