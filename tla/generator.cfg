\* cores/gen.go and cores/util.go over every length and batch size in the bounds.
CONSTANTS
  Base = 3
  MaxLength = 3
  MaxBatchSize = 9
SPECIFICATION Spec
\* A length that is exhausted stops the generator.
CHECK_DEADLOCK FALSE
INVARIANTS CodesRoundTrip BatchesFit BatchesDisjoint NoHoles
