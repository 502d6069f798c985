SPECIFICATION Spec
CONSTANTS
  Updates = {u1, u2, u3}
  MaxCrashes = 2
INVARIANTS NeverTorn MemoryIsDisk SavedIsKept
PROPERTY ImplementsRegister
CHECK_DEADLOCK FALSE
