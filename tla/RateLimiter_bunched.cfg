CONSTANTS
  Callers = {c1, c2}
  Lengths = {1, 2}
  MaxTime = 3
  MaxSlots = 3
SPECIFICATION UnresetSpec
INVARIANT PermitsApart
