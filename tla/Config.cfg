SPECIFICATION Spec
CONSTANTS
  unset = unset
  malformed = malformed
  Unset = unset
  Malformed = malformed
  Environments <- Edges
  Available = {4, 50, 120}
  IntBits = 20
  Int32Bits = 8
  Second = 100
  MaxParams = 65535
CHECK_DEADLOCK FALSE
INVARIANTS
  PercentagesAddUp
  ContextOutlivesTimer
