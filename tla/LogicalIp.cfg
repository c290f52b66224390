\* Four names, ranges of at most four addresses, and a clock that may step back.
CONSTANTS
  Name = {n1, n2, n3, n4}
  Conf <- Ranges
  MaxClock = 4
SPECIFICATION Spec
INVARIANTS TypeOK IndicesAgree NamesInRange RefusedOnlyWhenFull
PROPERTIES NoEarlyReassignment
CHECK_DEADLOCK FALSE
