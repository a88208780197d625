SPECIFICATION Spec
CONSTANTS
  one = one
  two = two
  said = said
  Sessions = {one, two}
  Contents = {said}
  MaxWrites = 6
INVARIANTS
  RejectedLeavesNothing
CHECK_DEADLOCK FALSE
