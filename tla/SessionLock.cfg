\* One window: the auto-lock timer, the PIN, a password change and a new
\* auto-lock delay in flight, the user leaving and coming back.
SPECIFICATION FairSpec
CONSTANTS
  Windows = {w1}
  Keys = {k1, k2}
  None = None
  Delays = {1, 2}
  PinHardTimeout = 3
  MaxPinAttempts = 3
  Changers = {c1}
  Updaters = {u1}
  MaxScreens = 2
INVARIANTS NoStrayTimer WayBackIn
PROPERTY IdleLocks
