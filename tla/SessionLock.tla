----------------------------- MODULE SessionLock ----------------------------
(***************************************************************************)
(* The session of a signed-in user: the main window holds the account's    *)
(* key, the auto-lock timer takes it away, a PIN cache gives it back.      *)
(*                                                                         *)
(* Every action is one callback of the GTK main loop, which runs them one  *)
(* at a time, or one step of a background thread.  Results of threads come *)
(* back to the loop later, whatever happened to the window in between.     *)
(* Time passes in ticks; a timer or a cache age counts them.               *)
(***************************************************************************)
EXTENDS Naturals, FiniteSets

CONSTANTS
  Windows,        \* main windows, one per successful sign-in
  Keys,           \* keys of the account
  None,           \* no key, no timer, no cache, no window
  Delays,         \* auto-lock delays in ticks, 0 is "never"
  PinHardTimeout, \* PIN_HARD_TIMEOUT, in ticks
  MaxPinAttempts, \* PIN_MAX_FAILED_ATTEMPTS
  Changers,       \* threads that change the master password
  Updaters,       \* threads that save an auto-lock delay
  MaxScreens      \* bound: windows and login dialogs on screen

ASSUME DelaysAreNaturals == Delays \subseteq Nat /\ Delays # {}
ASSUME LimitsArePositive ==
  PinHardTimeout \in Nat \ {0} /\ MaxPinAttempts \in Nat \ {0} /\ MaxScreens \in Nat
ASSUME NoneIsNothing == None \notin Keys \union Windows \union Nat

VARIABLES
  window,     \* [Windows -> the cells of a main window]
  active,     \* the window present_login hides, None without one
  logins,     \* login dialogs on screen
  account,    \* the key the stored credentials yield
  savedDelay, \* auth_policy.auto_lock_delay_mins
  change,     \* [Changers -> password change in flight]
  update,     \* [Updaters -> auto-lock delay on its way to the database and back]
  away        \* has the user left the computer?

threads == <<change, update>>
vars == <<window, active, logins, account, savedDelay, threads, away>>

-----------------------------------------------------------------------------
(* DEFAULT_AUTO_LOCK_TIMEOUT_SECS: twelve hours, like PIN_HARD_TIMEOUT.      *)
DefaultTimeout == PinHardTimeout
Timeouts == Delays \union {DefaultTimeout}
KeyOrNone == Keys \union {None}

PinCache == [key: Keys, failed: 0 .. MaxPinAttempts, age: 0 .. PinHardTimeout]

(* A main window: is it visible, its session key, the auto-lock delay in     *)
(* seconds, is the auto-lock armed, ticks left on its timer source, the PIN  *)
(* cache, is the PIN dialog over it, the key the open PIN setup dialog was   *)
(* given, the delay its dropdown shows, and the delay read at sign-in: being *)
(* read, then read and not yet applied.                                      *)
WindowState ==
  [shown: BOOLEAN, key: KeyOrNone, timeout: Timeouts, armed: BOOLEAN,
   timer: Nat \union {None}, cache: PinCache \union {None}, pin: BOOLEAN,
   setup: KeyOrNone, choice: Delays \union {None},
   reading: BOOLEAN, loaded: Delays \union {None}]

NoChange == [stage |-> "idle", window |-> None, key |-> None]
ChangeState ==
  {NoChange}
    \union [stage: {"run"}, window: Windows, key: {None}]
    \union [stage: {"deliver"}, window: Windows, key: Keys]

NoUpdate == [stage |-> "idle", window |-> None, mins |-> None]
UpdateState ==
  {NoUpdate} \union [stage: {"write", "deliver"}, window: Windows, mins: Delays]

TypeOK ==
  /\ window \in [Windows -> WindowState]
  /\ active \in Windows \union {None}
  /\ logins \in Nat
  /\ account \in Keys
  /\ savedDelay \in Delays
  /\ change \in [Changers -> ChangeState]
  /\ update \in [Updaters -> UpdateState]
  /\ away \in BOOLEAN

Closed == [shown |-> FALSE, key |-> None, timeout |-> DefaultTimeout, armed |-> FALSE,
           timer |-> None, cache |-> None, pin |-> FALSE, setup |-> None,
           choice |-> None, reading |-> FALSE, loaded |-> None]

(* The state of a process that has just started, save for the database.      *)
Started(win, act, log, chg, upd) ==
  /\ win = [w \in Windows |-> Closed]
  /\ act = None
  /\ log = 1
  /\ chg = [c \in Changers |-> NoChange]
  /\ upd = [u \in Updaters |-> NoUpdate]

Init ==
  /\ Started(window, active, logins, change, update)
  /\ account \in Keys
  /\ savedDelay \in Delays
  /\ away = FALSE

-----------------------------------------------------------------------------
(* Mutation: the timer restarts although the window is locked.               *)
Reset_Unarmed(win) ==
  IF win.shown /\ win.timeout # 0 THEN [win EXCEPT !.timer = win.timeout] ELSE win

(* reset_auto_lock_timer.                                                    *)
Reset(win) ==
  IF win.armed /\ win.shown /\ win.timeout # 0
  THEN [win EXCEPT !.timer = win.timeout]
  ELSE win

Deactivate(win) == [win EXCEPT !.armed = FALSE, !.timer = None]

(* Mutation: the timer is started again only where it was armed.             *)
Activate_KeepsArmed(win) == Reset(win)

(* activate_auto_lock.                                                       *)
Activate(win) ==
  IF win.timeout = 0 THEN [win EXCEPT !.armed = FALSE] ELSE Reset([win EXCEPT !.armed = TRUE])

(* set_auto_lock_timeout, and what the profile view does with a saved delay. *)
SetTimeout(win, mins) ==
  LET set == [win EXCEPT !.timeout = mins]
  IN IF mins = 0 THEN Deactivate(set) ELSE Reset(set)

(* lock_session_keep_pin *)
LockKeepPin(win) == [Deactivate(win) EXCEPT !.key = None]

(* clear_sensitive_session *)
ClearSession(win) == [Deactivate(win) EXCEPT !.key = None, !.cache = None]

(* has_pin_cache *)
HasPinCache(win) ==
  /\ win.cache # None
  /\ win.cache.failed < MaxPinAttempts
  /\ win.cache.age < PinHardTimeout

(* Modal dialogs take the input of every window of the application.          *)
PinDialogs == {w \in Windows : window[w].pin}
SetupDialogs == {w \in Windows : window[w].setup # None}
Screens == logins + Cardinality({w \in Windows : window[w].shown})

UsableBy(w) ==
  ~away /\ window[w].shown /\ PinDialogs = {} /\ SetupDialogs = {}

(* on_logout without a PIN cache: nothing is kept, the sign-in screen shows. *)
SignOut(w, win, dialogs) ==
  /\ window' = [window EXCEPT ![w] =
                  [ClearSession(win) EXCEPT !.shown = FALSE, !.pin = FALSE]]
  /\ active' = None
  /\ logins' = logins + dialogs

ShowPinDialog(w, win) ==
  /\ window' = [window EXCEPT ![w] = [win EXCEPT !.pin = TRUE]]
  /\ UNCHANGED <<active, logins>>

ReplaceWindow(w, win) ==
  /\ window' = [window EXCEPT ![w] = win]
  /\ UNCHANGED <<active, logins>>

-----------------------------------------------------------------------------
(* No closure of a thread or of a dialog holds the window any more.          *)
Unused(w) ==
  /\ ~window[w].shown
  /\ window[w].key = None /\ window[w].cache = None /\ window[w].setup = None
  /\ ~window[w].reading /\ window[w].loaded = None
  /\ \A c \in Changers : change[c].window # w
  /\ \A u \in Updaters : update[u].window # w

(* A login dialog succeeds: a new main window is built, shown and armed.     *)
SignIn(w) ==
  /\ ~away
  /\ logins > 0
  /\ PinDialogs = {}
  /\ Unused(w)
  /\ window' = [window EXCEPT ![w] =
       Activate([Closed EXCEPT !.shown = TRUE, !.key = account,
                               !.choice = savedDelay, !.reading = TRUE])]
  /\ active' = w
  /\ logins' = logins - 1
  /\ UNCHANGED <<account, savedDelay, threads, away>>

(* The application quits and is started again.                               *)
Quit ==
  /\ Started(window', active', logins', change', update')
  /\ UNCHANGED <<account, savedDelay, away>>

(* A login dialog closed before it authenticated quits the application.      *)
CloseLogin ==
  /\ ~away
  /\ logins > 0
  /\ Quit

(* The logout button or the close request of a main window.                  *)
Logout(w) ==
  /\ UsableBy(w)
  /\ \/ /\ HasPinCache(window[w])
        /\ ShowPinDialog(w, LockKeepPin(window[w]))
     \/ /\ ~HasPinCache(window[w])
        /\ SignOut(w, window[w], 1)
  /\ UNCHANGED <<account, savedDelay, threads, away>>

(* Keys and motion reach the controllers of the window.                      *)
Activity(w) ==
  /\ UsableBy(w)
  /\ ReplaceWindow(w, Reset(window[w]))
  /\ UNCHANGED <<account, savedDelay, threads, away>>

(* Mutation: the PIN dialog is not shown.                                    *)
AutoLockFires_NoDialog(w) ==
  /\ window[w].timer = 0
  /\ window[w].armed
  /\ LET locked == LockKeepPin(window[w])
     IN \/ HasPinCache(locked) /\ ReplaceWindow(w, locked)
        \/ ~HasPinCache(locked) /\ SignOut(w, locked, 1)
  /\ UNCHANGED <<account, savedDelay, threads, away>>

(* The timer source of reset_auto_lock_timer, then on_auto_lock.             *)
AutoLockFires(w) ==
  /\ window[w].timer = 0
  /\ window[w].armed
  /\ LET locked == LockKeepPin(window[w])
     IN \/ HasPinCache(locked) /\ ShowPinDialog(w, locked)
        \/ ~HasPinCache(locked) /\ SignOut(w, locked, 1)
  /\ UNCHANGED <<account, savedDelay, threads, away>>

-----------------------------------------------------------------------------
(* try_pin_unlock with the right PIN: no look at the age of the cache.       *)
PinUnlock(w) ==
  /\ ~away
  /\ window[w].pin
  /\ window[w].cache # None
  /\ window[w].cache.failed < MaxPinAttempts
  /\ ReplaceWindow(w, Activate([window[w] EXCEPT !.pin = FALSE,
                                                 !.key = window[w].cache.key]))
  /\ UNCHANGED <<account, savedDelay, threads, away>>

(* A wrong PIN with attempts left.                                           *)
WrongPin(w) ==
  /\ ~away
  /\ window[w].pin
  /\ window[w].cache # None
  /\ window[w].cache.failed + 1 < MaxPinAttempts
  /\ ReplaceWindow(w, [window[w] EXCEPT !.cache.failed = @ + 1])
  /\ UNCHANGED <<account, savedDelay, threads, away>>

(* Any PIN without a cache, or the last wrong one: back to full sign-in.     *)
PinExhausted(w) ==
  /\ ~away
  /\ window[w].pin
  /\ window[w].cache # None => window[w].cache.failed + 1 >= MaxPinAttempts
  /\ SignOut(w, window[w], 1)
  /\ UNCHANGED <<account, savedDelay, threads, away>>

(* "Use master password": trigger_logout presents the sign-in screen, then   *)
(* the callback presents it again.                                           *)
PinFallback(w) ==
  /\ ~away
  /\ window[w].pin
  /\ Screens < MaxScreens
  /\ SignOut(w, window[w], 2)
  /\ UNCHANGED <<account, savedDelay, threads, away>>

PinQuit(w) == ~away /\ window[w].pin /\ Quit

(* The PIN setup dialog is given a copy of the session key when it opens.    *)
OpenPinSetup(w) ==
  /\ UsableBy(w)
  /\ window[w].key # None
  /\ ReplaceWindow(w, [window[w] EXCEPT !.setup = window[w].key])
  /\ UNCHANGED <<account, savedDelay, threads, away>>

(* It closes with a new cache, without one, or as it was opened. A modal     *)
(* dialog shown later is in front of it.                                     *)
ClosePinSetup(w) ==
  /\ ~away
  /\ window[w].setup # None
  /\ PinDialogs = {} /\ logins = 0
  /\ LET created == [key |-> window[w].setup, failed |-> 0, age |-> 0]
     IN \E cache \in {created, None, window[w].cache} :
          ReplaceWindow(w, [window[w] EXCEPT !.cache = cache, !.setup = None])
  /\ UNCHANGED <<account, savedDelay, threads, away>>

-----------------------------------------------------------------------------
(* get_auto_lock_delay of the sign-in, on a thread of its own.               *)
ReadDelay(w) ==
  /\ window[w].reading
  /\ ReplaceWindow(w, [window[w] EXCEPT !.reading = FALSE, !.loaded = savedDelay])
  /\ UNCHANGED <<account, savedDelay, threads, away>>

ApplyDelay(w) ==
  /\ window[w].loaded # None
  /\ ReplaceWindow(w, [SetTimeout(window[w], window[w].loaded) EXCEPT !.loaded = None])
  /\ UNCHANGED <<account, savedDelay, threads, away>>

(* The auto-lock dropdown of the profile view.                               *)
ChooseDelay(u, w, mins) ==
  /\ UsableBy(w)
  /\ update[u].stage = "idle"
  /\ window[w].choice # mins
  /\ update' = [update EXCEPT ![u] = [stage |-> "write", window |-> w, mins |-> mins]]
  /\ ReplaceWindow(w, [window[w] EXCEPT !.choice = mins])
  /\ UNCHANGED <<account, savedDelay, change, away>>

SaveDelay(u) ==
  /\ update[u].stage = "write"
  /\ savedDelay' = update[u].mins
  /\ update' = [update EXCEPT ![u].stage = "deliver"]
  /\ UNCHANGED <<window, active, logins, account, change, away>>

(* The delay is saved: the window applies it.                                *)
DelaySaved(u) ==
  /\ update[u].stage = "deliver"
  /\ LET w == update[u].window
     IN ReplaceWindow(w, SetTimeout(window[w], update[u].mins))
  /\ update' = [update EXCEPT ![u] = NoUpdate]
  /\ UNCHANGED <<account, savedDelay, change, away>>

(* A storage error: the dropdown may be set again.                           *)
DelayNotSaved(u) ==
  /\ update[u].stage = "write"
  /\ LET w == update[u].window
     IN ReplaceWindow(w, [window[w] EXCEPT !.choice = None])
  /\ update' = [update EXCEPT ![u] = NoUpdate]
  /\ UNCHANGED <<account, savedDelay, change, away>>

(* rotate_button                                                             *)
StartChange(c, w) ==
  /\ UsableBy(w)
  /\ change[c].stage = "idle"
  /\ change' = [change EXCEPT ![c] = [stage |-> "run", window |-> w, key |-> None]]
  /\ UNCHANGED <<window, active, logins, account, savedDelay, update, away>>

(* change_master_password: the key stays (account format) or is a new one.   *)
ChangePassword(c) ==
  /\ change[c].stage = "run"
  /\ \E k \in Keys :
       /\ account' = k
       /\ change' = [change EXCEPT ![c].stage = "deliver", ![c].key = k]
  /\ UNCHANGED <<window, active, logins, savedDelay, update, away>>

(* The result reaches the cells of the window, whatever its state: a key     *)
(* that differs replaces the session key and drops the PIN cache.            *)
ChangeDone(c) ==
  /\ change[c].stage = "deliver"
  /\ LET w == change[c].window
         k == change[c].key
     IN ReplaceWindow(w, IF window[w].key = k THEN window[w]
                         ELSE [window[w] EXCEPT !.key = k, !.cache = None])
  /\ change' = [change EXCEPT ![c] = NoChange]
  /\ UNCHANGED <<account, savedDelay, update, away>>

ChangeRefused(c) ==
  /\ change[c].stage = "run"
  /\ change' = [change EXCEPT ![c] = NoChange]
  /\ UNCHANGED <<window, active, logins, account, savedDelay, update, away>>

-----------------------------------------------------------------------------
Older(cache) ==
  IF cache = None THEN None
  ELSE [cache EXCEPT !.age = IF @ < PinHardTimeout THEN @ + 1 ELSE @]

Tick ==
  /\ window' = [w \in Windows |->
       [window[w] EXCEPT !.timer = IF @ \in {None, 0} THEN @ ELSE @ - 1,
                         !.cache = Older(@)]]
  /\ UNCHANGED <<active, logins, account, savedDelay, threads, away>>

(* The user leaves the computer, or comes back.                              *)
Leave ==
  /\ away' = ~away
  /\ UNCHANGED <<window, active, logins, account, savedDelay, threads>>

Next ==
  \/ \E w \in Windows :
       \/ SignIn(w) \/ Logout(w) \/ Activity(w) \/ AutoLockFires(w)
       \/ PinUnlock(w) \/ WrongPin(w) \/ PinExhausted(w) \/ PinFallback(w) \/ PinQuit(w)
       \/ OpenPinSetup(w) \/ ClosePinSetup(w) \/ ReadDelay(w) \/ ApplyDelay(w)
  \/ \E u \in Updaters :
       \/ \E w \in Windows, mins \in Delays : ChooseDelay(u, w, mins)
       \/ SaveDelay(u) \/ DelaySaved(u) \/ DelayNotSaved(u)
  \/ \E c \in Changers :
       \/ \E w \in Windows : StartChange(c, w)
       \/ ChangePassword(c) \/ ChangeDone(c) \/ ChangeRefused(c)
  \/ CloseLogin \/ Tick \/ Leave

Spec == Init /\ [][Next]_vars

(* Time passes, a due timer source is dispatched, and threads end.           *)
FairSpec ==
  /\ Spec
  /\ WF_vars(Tick)
  /\ \A w \in Windows :
       WF_vars(AutoLockFires(w)) /\ WF_vars(ReadDelay(w)) /\ WF_vars(ApplyDelay(w))

-----------------------------------------------------------------------------
Unlocked(w) == window[w].shown /\ ~window[w].pin

(* Locking and signing out take the key away, and nothing brings it back but *)
(* a PIN or a password (lock_session_keep_pin, clear_sensitive_session).     *)
LockedHoldsNoKey == \A w \in Windows : window[w].key # None => Unlocked(w)

(* A running timer belongs to a window that is in use: none survives a lock, *)
(* and no late result starts one on a locked window.                         *)
NoStrayTimer ==
  \A w \in Windows : window[w].timer # None => window[w].armed /\ Unlocked(w)

(* There is always a way in: a window that lost its key is under the PIN     *)
(* dialog or hidden, and with every window hidden the sign-in screen shows.  *)
WayBackIn ==
  /\ \A w \in Windows : Unlocked(w) => window[w].key # None
  /\ (\A w \in Windows : ~window[w].shown) => logins > 0

(* "Choose automatic locking after 1, 5 or 30 minutes of inactivity": with a *)
(* delay set, a window its user has left locks.                              *)
IdleLocks ==
  \A w \in Windows :
    away /\ Unlocked(w) /\ window[w].timeout # 0 ~> ~away \/ ~Unlocked(w)
=============================================================================
