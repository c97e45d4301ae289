\* Two attempts in flight on one screen, codes in and out of time, the second
\* factor turned on and off; the first account created; stops anywhere.
SPECIFICATION Spec
CONSTANTS
  Dialogs = {d1}
  Attempts = {a1, a2}
  None = None
  MaxFailed = 2
  LockWindow = 2
  BackoffMax = 1
  ReplayTtl = 3
  Skew = 1
SYMMETRY Symmetry
INVARIANTS LockHolds SignInEarned ScreenHeld
PROPERTY CodeOpensOnce
