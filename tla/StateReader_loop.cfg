SPECIFICATION Spec
CONSTANTS
  DelimLength = 2
  MaxOpenings = 3
  MaxBytes = 4
CHECK_DEADLOCK FALSE
INVARIANTS FirstLoopIsSafe OldLoopsEnd
PROPERTIES EndedForGood
