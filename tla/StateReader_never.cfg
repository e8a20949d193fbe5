SPECIFICATION Spec
CONSTANTS
  DelimLength = 2
  MaxOpenings = 2
  MaxBytes = 2
CHECK_DEADLOCK FALSE
INVARIANT NeverGoThere
