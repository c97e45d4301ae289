\* A password change finishes after its window was locked.
SPECIFICATION Spec
CONSTANTS
  Windows = {w1}
  Keys = {k1, k2}
  None = None
  Delays = {1, 2}
  PinHardTimeout = 3
  MaxPinAttempts = 3
  Changers = {c1}
  Updaters = {}
  MaxScreens = 1
INVARIANT LockedHoldsNoKey
