\* The user chooses never, then a delay again.
SPECIFICATION FairSpec
CONSTANTS
  Windows = {w1}
  Keys = {k1}
  None = None
  Delays = {0, 1}
  PinHardTimeout = 3
  MaxPinAttempts = 3
  Changers = {}
  Updaters = {u1}
  MaxScreens = 1
PROPERTY IdleLocks
