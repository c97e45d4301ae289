---------------------------- MODULE SecurityProofs ---------------------------
(***************************************************************************)
(* Proofs about what guards an open session and what judges its entries.   *)
(* First SessionLock, for any number of windows, threads and keys, any     *)
(* delays and any limits; then SecurityAudit, for any entries, vaults and  *)
(* passwords, any estimator and any number of loads at once.               *)
(***************************************************************************)
EXTENDS SessionLock, SecurityAudit, FiniteSetTheorems, SequenceTheorems,
        WellFoundedInduction, TLAPS

(* What holds of the cells of one window: an armed auto-lock belongs to a    *)
(* window in use, a timer source to an armed one, the PIN dialog is over a   *)
(* visible window, and a window in use has its key.                          *)
Sound(win) ==
  /\ win.armed => win.shown /\ ~win.pin
  /\ win.timer # None => win.armed
  /\ win.pin => win.shown
  /\ win.shown /\ ~win.pin => win.key # None

LockInv ==
  /\ TypeOK
  /\ \A w \in Windows : Sound(window[w])
  /\ (\A w \in Windows : ~window[w].shown) => logins > 0

-----------------------------------------------------------------------------
(* The operations on the cells of a window.                                  *)

(* Restarting a timer keeps the cells typed and sound.                       *)
LEMMA ResetSound ==
  ASSUME NEW win \in WindowState, Sound(win)
  PROVE  /\ Reset(win) \in WindowState
         /\ Sound(Reset(win))
         /\ Reset(win).shown = win.shown
<1> USE DelaysAreNaturals, LimitsArePositive, NoneIsNothing
<1>1. win.timeout \in Nat
  BY DEF WindowState, Timeouts, DefaultTimeout
<1>2. CASE win.armed /\ win.shown /\ win.timeout # 0
  BY <1>1, <1>2 DEF Reset, Sound, WindowState
<1>3. CASE ~(win.armed /\ win.shown /\ win.timeout # 0)
  BY <1>3 DEF Reset
<1>4. QED
  BY <1>2, <1>3

(* So does arming a window in use.                                           *)
LEMMA ActivateSound ==
  ASSUME NEW win \in WindowState, win.shown, ~win.pin, win.key # None, win.timer = None
  PROVE  /\ Activate(win) \in WindowState
         /\ Sound(Activate(win))
         /\ Activate(win).shown
<1>1. [win EXCEPT !.armed = FALSE] \in WindowState /\ Sound([win EXCEPT !.armed = FALSE])
  BY DEF WindowState, Sound
<1>2. [win EXCEPT !.armed = TRUE] \in WindowState /\ Sound([win EXCEPT !.armed = TRUE])
  BY DEF WindowState, Sound
<1>3. [win EXCEPT !.armed = TRUE].shown /\ [win EXCEPT !.armed = FALSE].shown
  BY DEF WindowState
<1>4. CASE win.timeout = 0
  BY <1>1, <1>3, <1>4 DEF Activate
<1>5. CASE win.timeout # 0
  BY <1>2, <1>3, <1>5, ResetSound DEF Activate
<1>6. QED
  BY <1>4, <1>5

(* Stopping the timer.                                                       *)
LEMMA DeactivateSound ==
  ASSUME NEW win \in WindowState, Sound(win)
  PROVE  /\ Deactivate(win) \in WindowState
         /\ Sound(Deactivate(win))
         /\ Deactivate(win).shown = win.shown
BY DEF Deactivate, Sound, WindowState

(* A delay applied, whenever its result arrives.                             *)
LEMMA SetTimeoutSound ==
  ASSUME NEW win \in WindowState, Sound(win), NEW mins \in Delays
  PROVE  /\ SetTimeout(win, mins) \in WindowState
         /\ Sound(SetTimeout(win, mins))
         /\ SetTimeout(win, mins).shown = win.shown
<1> DEFINE set == [win EXCEPT !.timeout = mins]
<1>1. set \in WindowState /\ Sound(set) /\ set.shown = win.shown
  BY DEF WindowState, Sound, Timeouts
<1> HIDE DEF set
<1>2. SetTimeout(win, mins) = IF mins = 0 THEN Deactivate(set) ELSE Reset(set)
  BY DEF SetTimeout, set
<1>3. QED
  BY <1>1, <1>2, ResetSound, DeactivateSound

(* A lock under the PIN dialog.                                              *)
LEMMA PinLockSound ==
  ASSUME NEW win \in WindowState, win.shown
  PROVE  LET locked == [LockKeepPin(win) EXCEPT !.pin = TRUE]
         IN /\ locked \in WindowState
            /\ Sound(locked)
            /\ locked.shown
BY DEF LockKeepPin, Deactivate, Sound, WindowState, KeyOrNone

(* A sign-out, of a window whose key may be gone already.                    *)
LEMMA SignedOutSound ==
  ASSUME NEW win \in WindowState
  PROVE  LET out == [ClearSession(win) EXCEPT !.shown = FALSE, !.pin = FALSE]
         IN /\ out \in WindowState
            /\ Sound(out)
            /\ ~out.shown
BY DEF ClearSession, Deactivate, Sound, WindowState, KeyOrNone

(* The cells of a window of a process that has just started.                 *)
LEMMA ClosedSound == Closed \in WindowState /\ Sound(Closed) /\ ~Closed.shown
BY DEF Closed, Sound, WindowState, KeyOrNone, Timeouts

(* A lock without a dialog.                                                  *)
LEMMA LockType ==
  ASSUME NEW win \in WindowState PROVE LockKeepPin(win) \in WindowState
BY DEF LockKeepPin, Deactivate, WindowState, KeyOrNone

-----------------------------------------------------------------------------
(* A step that gives one window new cells keeps the invariant, as long as    *)
(* the cells are sound and a screen is left.                                 *)
LEMMA OneWindow ==
  ASSUME LockInv, NEW w \in Windows, NEW win \in WindowState, Sound(win),
         window' = [window EXCEPT ![w] = win],
         logins' \in Nat,
         \/ win.shown
         \/ logins' > 0
         \/ win.shown = window[w].shown /\ logins' = logins,
         active' \in Windows \union {None}, account' \in Keys, savedDelay' \in Delays,
         change' \in [Changers -> ChangeState], update' \in [Updaters -> UpdateState],
         away' \in BOOLEAN
  PROVE  LockInv'
<1>1. window \in [Windows -> WindowState] /\ \A x \in Windows : Sound(window[x])
  BY DEF LockInv, TypeOK
<1>2. window' \in [Windows -> WindowState]
  BY <1>1
<1>3. \A x \in Windows : window'[x] = IF x = w THEN win ELSE window[x]
  BY <1>1
<1>4. \A x \in Windows : Sound(window'[x])
  BY <1>1, <1>3
<1>5. (\A x \in Windows : ~window'[x].shown) => logins' > 0
  <2>1. SUFFICES ASSUME \A x \in Windows : ~window'[x].shown
                 PROVE  logins' > 0
    OBVIOUS
  <2>2. ~win.shown
    BY <2>1, <1>3
  <2>3. CASE win.shown = window[w].shown /\ logins' = logins
    <3>1. \A x \in Windows : ~window[x].shown
      BY <2>1, <2>2, <2>3, <1>3
    <3>2. QED
      BY <3>1, <2>3 DEF LockInv
  <2>4. QED
    BY <2>2, <2>3
<1>6. TypeOK'
  BY <1>2 DEF TypeOK
<1>7. (\A x \in Windows : Sound(window[x]))'
  BY <1>4 DEF Sound
<1>8. ((\A x \in Windows : ~window[x].shown) => logins > 0)'
  BY <1>5
<1>9. QED
  BY <1>6, <1>7, <1>8 DEF LockInv

(* The same when the window keeps its place on screen.                       *)
LEMMA SameWindow ==
  ASSUME LockInv, NEW w \in Windows, NEW win \in WindowState, Sound(win),
         win.shown = window[w].shown, ReplaceWindow(w, win),
         account' \in Keys, savedDelay' \in Delays,
         change' \in [Changers -> ChangeState], update' \in [Updaters -> UpdateState],
         away' \in BOOLEAN
  PROVE  LockInv'
BY OneWindow DEF ReplaceWindow, LockInv, TypeOK

(* And when it is signed out.                                                *)
LEMMA SignOutKeeps ==
  ASSUME LockInv, NEW w \in Windows, NEW win \in WindowState, NEW n \in {1, 2},
         SignOut(w, win, n), UNCHANGED <<account, savedDelay, threads, away>>
  PROVE  LockInv'
<1> DEFINE out == [ClearSession(win) EXCEPT !.shown = FALSE, !.pin = FALSE]
<1>1. out \in WindowState /\ Sound(out)
  BY SignedOutSound
<1> HIDE DEF out
<1>2. window' = [window EXCEPT ![w] = out] /\ active' = None /\ logins' = logins + n
  BY DEF SignOut, out
<1>3. logins \in Nat
  BY DEF LockInv, TypeOK
<1>4. logins' \in Nat /\ logins' > 0
  BY <1>2, <1>3
<1>5. QED
  BY <1>1, <1>2, <1>4, OneWindow DEF LockInv, TypeOK, threads

(* And when the PIN dialog is shown over it.                                 *)
LEMMA PinDialogKeeps ==
  ASSUME LockInv, NEW w \in Windows, window[w].shown,
         ShowPinDialog(w, LockKeepPin(window[w])),
         UNCHANGED <<account, savedDelay, threads, away>>
  PROVE  LockInv'
<1> DEFINE win == [LockKeepPin(window[w]) EXCEPT !.pin = TRUE]
<1>1. window[w] \in WindowState
  BY DEF LockInv, TypeOK
<1>2. win \in WindowState /\ Sound(win) /\ win.shown
  BY <1>1, PinLockSound
<1> HIDE DEF win
<1>3. window' = [window EXCEPT ![w] = win] /\ UNCHANGED <<active, logins>>
  BY DEF ShowPinDialog, win
<1>4. QED
  BY <1>2, <1>3, OneWindow DEF LockInv, TypeOK, threads

(* A new process.                                                            *)
LEMMA StartedKeeps ==
  ASSUME Started(window', active', logins', change', update'),
         account' \in Keys, savedDelay' \in Delays, away' \in BOOLEAN
  PROVE  LockInv'
<1>1. /\ window' = [w \in Windows |-> Closed]
      /\ active' = None /\ logins' = 1
      /\ change' = [c \in Changers |-> NoChange]
      /\ update' = [u \in Updaters |-> NoUpdate]
  BY DEF Started
<1>2. TypeOK'
  BY <1>1, ClosedSound DEF TypeOK, ChangeState, UpdateState
<1>3. (\A w \in Windows : Sound(window[w]))'
  <2>1. \A w \in Windows : window'[w] = Closed
    BY <1>1
  <2>2. \A w \in Windows : Sound(window'[w])
    BY <2>1, ClosedSound
  <2>3. QED
    BY <2>2 DEF Sound
<1>4. QED
  BY <1>1, <1>2, <1>3 DEF LockInv

(* The initial state is that of a process that has just started.             *)
LEMMA InitLock == Init => LockInv
<1> SUFFICES ASSUME Init PROVE LockInv
  OBVIOUS
<1>1. /\ window = [w \in Windows |-> Closed]
      /\ active = None /\ logins = 1
      /\ change = [c \in Changers |-> NoChange]
      /\ update = [u \in Updaters |-> NoUpdate]
      /\ account \in Keys /\ savedDelay \in Delays /\ away = FALSE
  BY DEF Init, Started
<1>2. TypeOK
  BY <1>1, ClosedSound DEF TypeOK, ChangeState, UpdateState
<1>3. QED
  BY <1>1, <1>2, ClosedSound DEF LockInv

-----------------------------------------------------------------------------
(* The steps. First the ways into a window, and out of it.                   *)
LEMMA SignInKeeps ==
  ASSUME LockInv, NEW w \in Windows, SignIn(w)
  PROVE  LockInv'
<1> DEFINE opened == [Closed EXCEPT !.shown = TRUE, !.key = account,
                                    !.choice = savedDelay, !.reading = TRUE]
<1>1. account \in Keys /\ savedDelay \in Delays /\ logins \in Nat
  BY DEF LockInv, TypeOK
<1>2. opened \in WindowState /\ opened.shown /\ ~opened.pin /\ opened.timer = None
      /\ opened.key = account
  BY <1>1, ClosedSound DEF Closed, WindowState, KeyOrNone
<1>3. opened.key # None
  BY <1>1, <1>2, NoneIsNothing
<1> HIDE DEF opened
<1>4. Activate(opened) \in WindowState /\ Sound(Activate(opened)) /\ Activate(opened).shown
  BY <1>2, <1>3, ActivateSound
<1>5. /\ window' = [window EXCEPT ![w] = Activate(opened)]
      /\ active' = w /\ logins > 0 /\ logins' = logins - 1
      /\ UNCHANGED <<account, savedDelay, threads, away>>
  BY DEF SignIn, opened
<1>6. logins' \in Nat
  BY <1>1, <1>5
<1>7. QED
  BY <1>4, <1>5, <1>6, OneWindow DEF LockInv, TypeOK, threads

(* The logout button and the timer source: with a PIN cache, or without.     *)
LEMMA LockKeeps ==
  ASSUME LockInv, NEW w \in Windows, Logout(w) \/ AutoLockFires(w)
  PROVE  LockInv'
<1>1. window[w] \in WindowState /\ Sound(window[w])
  BY DEF LockInv, TypeOK
<1>2. window[w].shown
  BY <1>1 DEF Logout, AutoLockFires, UsableBy, Sound
<1>3. LockKeepPin(window[w]) \in WindowState
  BY <1>1, LockType
<1>4. UNCHANGED <<account, savedDelay, threads, away>>
  BY DEF Logout, AutoLockFires
<1>5. \/ ShowPinDialog(w, LockKeepPin(window[w]))
      \/ SignOut(w, window[w], 1)
      \/ SignOut(w, LockKeepPin(window[w]), 1)
  BY DEF Logout, AutoLockFires
<1>6. CASE ShowPinDialog(w, LockKeepPin(window[w]))
  BY <1>2, <1>4, <1>6, PinDialogKeeps
<1>7. CASE SignOut(w, window[w], 1)
  BY <1>1, <1>4, <1>7, SignOutKeeps
<1>8. CASE SignOut(w, LockKeepPin(window[w]), 1)
  BY <1>3, <1>4, <1>8, SignOutKeeps
<1>9. QED
  BY <1>5, <1>6, <1>7, <1>8

(* The right PIN.                                                            *)
LEMMA PinUnlockKeeps ==
  ASSUME LockInv, NEW w \in Windows, PinUnlock(w)
  PROVE  LockInv'
<1> DEFINE opened == [window[w] EXCEPT !.pin = FALSE, !.key = window[w].cache.key]
<1>1. window[w] \in WindowState /\ Sound(window[w])
  BY DEF LockInv, TypeOK
<1>2. window[w].cache \in PinCache
  BY <1>1 DEF PinUnlock, WindowState
<1>3. window[w].cache.key \in Keys
  BY <1>2 DEF PinCache
<1>4. window[w].shown /\ window[w].timer = None
  BY <1>1 DEF PinUnlock, Sound
<1>5. /\ opened \in WindowState /\ opened.shown /\ ~opened.pin
      /\ opened.key = window[w].cache.key /\ opened.timer = None
  BY <1>1, <1>3, <1>4 DEF WindowState, KeyOrNone
<1>6. opened.key # None
  BY <1>3, <1>5, NoneIsNothing
<1> HIDE DEF opened
<1>7. Activate(opened) \in WindowState /\ Sound(Activate(opened)) /\ Activate(opened).shown
  BY <1>5, <1>6, ActivateSound
<1>8. ReplaceWindow(w, Activate(opened)) /\ UNCHANGED <<account, savedDelay, threads, away>>
  BY DEF PinUnlock, opened
<1>9. QED
  BY <1>4, <1>7, <1>8, SameWindow DEF LockInv, TypeOK, threads

(* A wrong PIN.                                                              *)
LEMMA WrongPinKeeps ==
  ASSUME LockInv, NEW w \in Windows, WrongPin(w)
  PROVE  LockInv'
<1> DEFINE cache == window[w].cache
           counted == [cache EXCEPT !.failed = @ + 1]
           win == [window[w] EXCEPT !.cache = counted]
<1>1. window[w] \in WindowState /\ Sound(window[w])
  BY DEF LockInv, TypeOK
<1>2. cache \in PinCache
  BY <1>1 DEF WrongPin, WindowState
<1>3. cache.failed + 1 < MaxPinAttempts
  BY DEF WrongPin
<1>4. counted \in PinCache
  BY <1>2, <1>3, LimitsArePositive DEF PinCache
<1>5. win \in WindowState /\ Sound(win) /\ win.shown = window[w].shown
  BY <1>1, <1>4 DEF WindowState, Sound
<1>6. ReplaceWindow(w, win) /\ UNCHANGED <<account, savedDelay, threads, away>>
  BY DEF WrongPin
<1>7. QED
  BY <1>5, <1>6, SameWindow DEF LockInv, TypeOK, threads

(* No attempt left, or the master password preferred.                        *)
LEMMA PinLeftKeeps ==
  ASSUME LockInv, NEW w \in Windows, PinExhausted(w) \/ PinFallback(w)
  PROVE  LockInv'
<1>1. window[w] \in WindowState
  BY DEF LockInv, TypeOK
<1>2. \E n \in {1, 2} : SignOut(w, window[w], n)
  BY DEF PinExhausted, PinFallback
<1>3. UNCHANGED <<account, savedDelay, threads, away>>
  BY DEF PinExhausted, PinFallback
<1>4. QED
  BY <1>1, <1>2, <1>3, SignOutKeeps

(* The application quits and starts again.                                   *)
LEMMA QuitKeeps ==
  ASSUME LockInv, Quit
  PROVE  LockInv'
BY StartedKeeps DEF Quit, LockInv, TypeOK

(* Time.                                                                     *)
LEMMA TickKeeps ==
  ASSUME LockInv, Tick
  PROVE  LockInv'
<1> DEFINE aged(win) == [win EXCEPT !.timer = IF @ \in {None, 0} THEN @ ELSE @ - 1,
                                    !.cache = Older(@)]
<1>1. window' = [w \in Windows |-> aged(window[w])]
      /\ UNCHANGED <<active, logins, account, savedDelay, threads, away>>
  BY DEF Tick
<1>2. \A cache \in PinCache \union {None} : Older(cache) \in PinCache \union {None}
  BY LimitsArePositive DEF Older, PinCache
<1>3. ASSUME NEW win \in WindowState, Sound(win)
      PROVE  aged(win) \in WindowState /\ Sound(aged(win)) /\ aged(win).shown = win.shown
  <2>1. win.cache \in PinCache \union {None} /\ win.timer \in Nat \union {None}
    BY <1>3 DEF WindowState
  <2> DEFINE t == IF win.timer \in {None, 0} THEN win.timer ELSE win.timer - 1
             c == Older(win.cache)
  <2>2. c \in PinCache \union {None}
    BY <2>1, <1>2
  <2>3. t \in Nat \union {None} /\ (t # None => win.timer # None)
    BY <2>1
  <2>4. aged(win) = [win EXCEPT !.timer = t, !.cache = c]
    OBVIOUS
  <2> HIDE DEF t, c, aged
  <2>5. QED
    BY <1>3, <2>2, <2>3, <2>4 DEF WindowState, Sound
<1>4. window \in [Windows -> WindowState] /\ \A w \in Windows : Sound(window[w])
  BY DEF LockInv, TypeOK
<1> HIDE DEF aged
<1>5. \A w \in Windows : window'[w] = aged(window[w])
  BY <1>1
<1>6. window' \in [Windows -> WindowState]
  BY <1>1, <1>3, <1>4
<1>7. \A w \in Windows : Sound(window'[w]) /\ window'[w].shown = window[w].shown
  BY <1>3, <1>4, <1>5
<1>8. TypeOK'
  BY <1>1, <1>6 DEF LockInv, TypeOK, threads
<1>9. (\A w \in Windows : Sound(window[w]))'
  BY <1>7 DEF Sound
<1>10. ((\A w \in Windows : ~window[w].shown) => logins > 0)'
  BY <1>1, <1>7 DEF LockInv
<1>11. QED
  BY <1>8, <1>9, <1>10 DEF LockInv

(* Dialogs, delays and late results that reach the cells of one window.      *)
LEMMA CellKeeps ==
  ASSUME LockInv, NEW w \in Windows,
         \/ Activity(w) \/ OpenPinSetup(w) \/ ClosePinSetup(w)
         \/ ReadDelay(w) \/ ApplyDelay(w)
  PROVE  LockInv'
<1>1. /\ window[w] \in WindowState /\ Sound(window[w])
      /\ account \in Keys /\ savedDelay \in Delays /\ away \in BOOLEAN
      /\ change \in [Changers -> ChangeState] /\ update \in [Updaters -> UpdateState]
  BY DEF LockInv, TypeOK
<1>2. UNCHANGED <<account, savedDelay, threads, away>>
  BY DEF Activity, OpenPinSetup, ClosePinSetup, ReadDelay, ApplyDelay
<1>3. ASSUME NEW win \in WindowState, Sound(win), win.shown = window[w].shown,
             ReplaceWindow(w, win)
      PROVE  LockInv'
  BY <1>1, <1>2, <1>3, SameWindow DEF threads
<1>4. CASE Activity(w)
  BY <1>1, <1>3, <1>4, ResetSound DEF Activity
<1>5. CASE OpenPinSetup(w)
  <2> DEFINE win == [window[w] EXCEPT !.setup = window[w].key]
  <2>1. win \in WindowState /\ Sound(win) /\ win.shown = window[w].shown
    BY <1>1 DEF WindowState, Sound
  <2>2. QED
    BY <1>3, <1>5, <2>1 DEF OpenPinSetup
<1>6. CASE ClosePinSetup(w)
  <2>1. PICK cache \in {[key |-> window[w].setup, failed |-> 0, age |-> 0], None,
                        window[w].cache} :
          ReplaceWindow(w, [window[w] EXCEPT !.cache = cache, !.setup = None])
    BY <1>6 DEF ClosePinSetup
  <2>2. window[w].setup \in Keys
    BY <1>1, <1>6 DEF ClosePinSetup, WindowState, KeyOrNone
  <2>3. [key |-> window[w].setup, failed |-> 0, age |-> 0] \in PinCache
    BY <2>2, LimitsArePositive DEF PinCache
  <2>4. cache \in PinCache \union {None}
    BY <1>1, <2>1, <2>3 DEF WindowState
  <2> DEFINE win == [window[w] EXCEPT !.cache = cache, !.setup = None]
  <2>5. win \in WindowState /\ Sound(win) /\ win.shown = window[w].shown
    BY <1>1, <2>4 DEF WindowState, Sound, KeyOrNone
  <2>6. QED
    BY <1>3, <2>1, <2>5
<1>7. CASE ReadDelay(w)
  <2> DEFINE win == [window[w] EXCEPT !.reading = FALSE, !.loaded = savedDelay]
  <2>1. win \in WindowState /\ Sound(win) /\ win.shown = window[w].shown
    BY <1>1 DEF WindowState, Sound
  <2>2. QED
    BY <1>3, <1>7, <2>1 DEF ReadDelay
<1>8. CASE ApplyDelay(w)
  <2> DEFINE set == SetTimeout(window[w], window[w].loaded)
             win == [set EXCEPT !.loaded = None]
  <2>1. window[w].loaded \in Delays
    BY <1>1, <1>8 DEF ApplyDelay, WindowState
  <2>2. set \in WindowState /\ Sound(set) /\ set.shown = window[w].shown
    BY <1>1, <2>1, SetTimeoutSound
  <2>3. ReplaceWindow(w, win)
    BY <1>8 DEF ApplyDelay
  <2> HIDE DEF set
  <2>4. win \in WindowState /\ Sound(win) /\ win.shown = window[w].shown
    BY <2>2 DEF WindowState, Sound
  <2>5. QED
    BY <1>3, <2>3, <2>4
<1>9. QED
  BY <1>4, <1>5, <1>6, <1>7, <1>8

(* The auto-lock delay on its way to the database and back.                  *)
LEMMA UpdateKeeps ==
  ASSUME LockInv, NEW u \in Updaters,
         \/ \E w \in Windows, mins \in Delays : ChooseDelay(u, w, mins)
         \/ SaveDelay(u) \/ DelaySaved(u) \/ DelayNotSaved(u)
  PROVE  LockInv'
<1>1. /\ \A w \in Windows : window[w] \in WindowState /\ Sound(window[w])
      /\ account \in Keys /\ savedDelay \in Delays /\ away \in BOOLEAN
      /\ change \in [Changers -> ChangeState] /\ update \in [Updaters -> UpdateState]
  BY DEF LockInv, TypeOK
<1>2. ASSUME NEW w \in Windows, NEW mins \in Delays, ChooseDelay(u, w, mins)
      PROVE  LockInv'
  <2> DEFINE win == [window[w] EXCEPT !.choice = mins]
  <2>1. win \in WindowState /\ Sound(win) /\ win.shown = window[w].shown
    BY <1>1 DEF WindowState, Sound
  <2>2. [stage |-> "write", window |-> w, mins |-> mins] \in UpdateState
    BY DEF UpdateState
  <2>3. update' \in [Updaters -> UpdateState]
    BY <1>1, <1>2, <2>2 DEF ChooseDelay
  <2>4. ReplaceWindow(w, win) /\ UNCHANGED <<account, savedDelay, change, away>>
    BY <1>2 DEF ChooseDelay
  <2>5. QED
    BY <1>1, <2>1, <2>3, <2>4, SameWindow
<1>3. update[u].stage # "idle"
      => update[u] \in [stage: {"write", "deliver"}, window: Windows, mins: Delays]
  BY <1>1 DEF UpdateState, NoUpdate
<1>4. CASE SaveDelay(u)
  <2>1. update[u] \in [stage: {"write", "deliver"}, window: Windows, mins: Delays]
    BY <1>3, <1>4 DEF SaveDelay
  <2>2. [update[u] EXCEPT !.stage = "deliver"] \in UpdateState
    BY <2>1 DEF UpdateState
  <2>3. update' \in [Updaters -> UpdateState] /\ savedDelay' \in Delays
    BY <1>1, <1>4, <2>1, <2>2 DEF SaveDelay
  <2>4. UNCHANGED <<window, active, logins, account, change, away>>
    BY <1>4 DEF SaveDelay
  <2>5. QED
    BY <2>3, <2>4 DEF LockInv, TypeOK
<1>5. NoUpdate \in UpdateState
  BY DEF UpdateState
<1>6. CASE DelaySaved(u)
  <2>1. update[u].window \in Windows /\ update[u].mins \in Delays
    BY <1>3, <1>6 DEF DelaySaved
  <2> DEFINE w == update[u].window
             win == SetTimeout(window[w], update[u].mins)
  <2>2. win \in WindowState /\ Sound(win) /\ win.shown = window[w].shown
    BY <1>1, <2>1, SetTimeoutSound
  <2>3. update' \in [Updaters -> UpdateState]
    BY <1>1, <1>5, <1>6 DEF DelaySaved
  <2>4. ReplaceWindow(w, win) /\ UNCHANGED <<account, savedDelay, change, away>>
    BY <1>6 DEF DelaySaved
  <2> HIDE DEF win
  <2>5. QED
    BY <1>1, <2>1, <2>2, <2>3, <2>4, SameWindow
<1>7. CASE DelayNotSaved(u)
  <2>1. update[u].window \in Windows
    BY <1>3, <1>7 DEF DelayNotSaved
  <2> DEFINE w == update[u].window
             win == [window[w] EXCEPT !.choice = None]
  <2>2. win \in WindowState /\ Sound(win) /\ win.shown = window[w].shown
    BY <1>1, <2>1 DEF WindowState, Sound
  <2>3. update' \in [Updaters -> UpdateState]
    BY <1>1, <1>5, <1>7 DEF DelayNotSaved
  <2>4. ReplaceWindow(w, win) /\ UNCHANGED <<account, savedDelay, change, away>>
    BY <1>7 DEF DelayNotSaved
  <2> HIDE DEF win
  <2>5. QED
    BY <1>1, <2>1, <2>2, <2>3, <2>4, SameWindow
<1>8. QED
  BY <1>2, <1>4, <1>6, <1>7

(* A password change: what it may do to a window is give it a key, locked or *)
(* not.                                                                      *)
LEMMA ChangeKeeps ==
  ASSUME LockInv, NEW c \in Changers,
         \/ \E w \in Windows : StartChange(c, w)
         \/ ChangePassword(c) \/ ChangeDone(c) \/ ChangeRefused(c)
  PROVE  LockInv'
<1>1. /\ \A w \in Windows : window[w] \in WindowState /\ Sound(window[w])
      /\ account \in Keys /\ savedDelay \in Delays /\ away \in BOOLEAN
      /\ change \in [Changers -> ChangeState] /\ update \in [Updaters -> UpdateState]
  BY DEF LockInv, TypeOK
<1>2. ASSUME UNCHANGED <<window, active, logins, savedDelay, update, away>>,
             account' \in Keys, NEW to \in ChangeState, change' = [change EXCEPT ![c] = to]
      PROVE  LockInv'
  <2>1. change' \in [Changers -> ChangeState]
    BY <1>1, <1>2
  <2>2. QED
    BY <1>2, <2>1 DEF LockInv, TypeOK
<1>3. CASE \E w \in Windows : StartChange(c, w)
  <2>1. PICK w \in Windows : StartChange(c, w)
    BY <1>3
  <2>2. [stage |-> "run", window |-> w, key |-> None] \in ChangeState
    BY DEF ChangeState
  <2>3. QED
    BY <1>1, <1>2, <2>1, <2>2 DEF StartChange
<1>4. CASE ChangePassword(c)
  <2>1. PICK k \in Keys :
          account' = k /\ change' = [change EXCEPT ![c].stage = "deliver", ![c].key = k]
    BY <1>4 DEF ChangePassword
  <2>2. change[c] \in [stage: {"run"}, window: Windows, key: {None}]
    <3>1. change[c] \in ChangeState /\ change[c].stage = "run"
      BY <1>1, <1>4 DEF ChangePassword
    <3>2. NoChange.stage = "idle"
      BY DEF NoChange
    <3>3. change[c] # NoChange
      BY <3>1, <3>2
    <3>4. QED
      BY <3>1, <3>3 DEF ChangeState
  <2> DEFINE to == [change[c] EXCEPT !.stage = "deliver", !.key = k]
  <2>3. to \in ChangeState
    BY <2>2 DEF ChangeState
  <2>4. change' = [change EXCEPT ![c] = to]
    BY <1>1, <2>1
  <2>5. UNCHANGED <<window, active, logins, savedDelay, update, away>>
    BY <1>4 DEF ChangePassword
  <2> HIDE DEF to
  <2>6. QED
    BY <1>2, <2>1, <2>3, <2>4, <2>5
<1>5. NoChange \in ChangeState
  BY DEF ChangeState
<1>6. CASE ChangeDone(c)
  <2>1. change[c] \in [stage: {"deliver"}, window: Windows, key: Keys]
    BY <1>1, <1>6 DEF ChangeDone, ChangeState, NoChange
  <2> DEFINE w == change[c].window
             k == change[c].key
             rekeyed == [window[w] EXCEPT !.key = k, !.cache = None]
             win == IF window[w].key = k THEN window[w] ELSE rekeyed
  <2>2. w \in Windows /\ k \in Keys /\ k # None
    BY <2>1, NoneIsNothing
  <2>3. /\ window[w] \in WindowState /\ Sound(window[w])
    BY <1>1, <2>2
  <2>4. ReplaceWindow(w, win) /\ UNCHANGED <<account, savedDelay, update, away>>
    BY <1>6 DEF ChangeDone
  <2>5. change' \in [Changers -> ChangeState]
    BY <1>1, <1>5, <1>6 DEF ChangeDone
  <2> HIDE DEF w, k
  <2>6. rekeyed \in WindowState /\ Sound(rekeyed) /\ rekeyed.shown = window[w].shown
    BY <2>2, <2>3 DEF WindowState, Sound, KeyOrNone
  <2>7. win \in WindowState /\ Sound(win) /\ win.shown = window[w].shown
    BY <2>3, <2>6
  <2> HIDE DEF win
  <2>8. QED
    BY <1>1, <2>2, <2>4, <2>5, <2>7, SameWindow
<1>7. CASE ChangeRefused(c)
  BY <1>1, <1>2, <1>5, <1>7 DEF ChangeRefused
<1>8. QED
  BY <1>3, <1>4, <1>6, <1>7

-----------------------------------------------------------------------------
(* Every step keeps the invariant.                                           *)
LEMMA NextLock == LockInv /\ [Next]_vars => LockInv'
<1> SUFFICES ASSUME LockInv, [Next]_vars PROVE LockInv'
  OBVIOUS
<1>1. ASSUME NEW w \in Windows,
             \/ SignIn(w) \/ Logout(w) \/ Activity(w) \/ AutoLockFires(w)
             \/ PinUnlock(w) \/ WrongPin(w) \/ PinExhausted(w) \/ PinFallback(w)
             \/ PinQuit(w) \/ OpenPinSetup(w) \/ ClosePinSetup(w)
             \/ ReadDelay(w) \/ ApplyDelay(w)
      PROVE  LockInv'
  <2>1. CASE SignIn(w)
    BY <2>1, SignInKeeps
  <2>2. CASE Logout(w) \/ AutoLockFires(w)
    BY <2>2, LockKeeps
  <2>3. CASE PinUnlock(w)
    BY <2>3, PinUnlockKeeps
  <2>4. CASE WrongPin(w)
    BY <2>4, WrongPinKeeps
  <2>5. CASE PinExhausted(w) \/ PinFallback(w)
    BY <2>5, PinLeftKeeps
  <2>6. CASE PinQuit(w)
    BY <2>6, QuitKeeps DEF PinQuit
  <2>7. CASE \/ Activity(w) \/ OpenPinSetup(w) \/ ClosePinSetup(w)
             \/ ReadDelay(w) \/ ApplyDelay(w)
    BY <2>7, CellKeeps
  <2>8. QED
    BY <1>1, <2>1, <2>2, <2>3, <2>4, <2>5, <2>6, <2>7
<1>2. ASSUME NEW u \in Updaters,
             \/ \E w \in Windows, mins \in Delays : ChooseDelay(u, w, mins)
             \/ SaveDelay(u) \/ DelaySaved(u) \/ DelayNotSaved(u)
      PROVE  LockInv'
  BY <1>2, UpdateKeeps
<1>3. ASSUME NEW c \in Changers,
             \/ \E w \in Windows : StartChange(c, w)
             \/ ChangePassword(c) \/ ChangeDone(c) \/ ChangeRefused(c)
      PROVE  LockInv'
  BY <1>3, ChangeKeeps
<1>4. CASE CloseLogin
  BY <1>4, QuitKeeps DEF CloseLogin
<1>5. CASE Tick
  BY <1>5, TickKeeps
<1>6. CASE Leave
  BY <1>6 DEF Leave, threads, LockInv, TypeOK
<1>7. CASE UNCHANGED vars
  BY <1>7 DEF vars, threads, LockInv, TypeOK
<1>8. QED
  BY <1>1, <1>2, <1>3, <1>4, <1>5, <1>6, <1>7 DEF Next

(* In every behaviour.                                                       *)
LEMMA LockInvariant == Spec => []LockInv
BY InitLock, NextLock, PTL DEF Spec

(* The cells keep their types: counters, ages and delays stay in range.      *)
THEOREM SessionTypeCorrect == Spec => []TypeOK
<1>1. LockInv => TypeOK
  BY DEF LockInv
<1>2. QED
  BY <1>1, LockInvariant, PTL

(* No timer outlives the session it was started for, however late the result *)
(* of a thread sets a delay or a key (reset_auto_lock_timer,                 *)
(* set_auto_lock_timeout).                                                   *)
THEOREM NoTimerSurvives == Spec => []NoStrayTimer
<1>1. LockInv => NoStrayTimer
  BY DEF LockInv, Sound, NoStrayTimer, Unlocked
<1>2. QED
  BY <1>1, LockInvariant, PTL

(* A window in use has its key, and with no window left the sign-in screen   *)
(* is there, whichever way the last one was locked (on_auto_lock, on_logout).*)
THEOREM AlwaysAWayIn == Spec => []WayBackIn
<1>1. LockInv => WayBackIn
  BY DEF LockInv, Sound, WayBackIn, Unlocked
<1>2. QED
  BY <1>1, LockInvariant, PTL

-----------------------------------------------------------------------------
(* Without password changes in flight, a locked window holds no key.         *)
Emptied(win) == win.key # None => win.shown /\ ~win.pin

(* The timer operations touch neither the key nor what is on screen.         *)
LEMMA TimerEmptied ==
  ASSUME NEW win \in WindowState, Emptied(win)
  PROVE  /\ Emptied(Reset(win)) /\ Emptied(Activate(win))
         /\ \A mins \in Delays : Emptied([SetTimeout(win, mins) EXCEPT !.loaded = None])
         /\ \A mins \in Delays : Emptied(SetTimeout(win, mins))
BY DEF Reset, Activate, SetTimeout, Deactivate, Emptied, WindowState

(* Locking and signing out do what their names say.                          *)
LEMMA LockEmptied ==
  ASSUME NEW win \in WindowState
  PROVE  /\ Emptied([LockKeepPin(win) EXCEPT !.pin = TRUE])
         /\ Emptied([ClearSession(win) EXCEPT !.shown = FALSE, !.pin = FALSE])
BY DEF LockKeepPin, ClearSession, Deactivate, Emptied, WindowState

(* Neither does a process that has just started hold a key.                  *)
LEMMA QuitEmptied ==
  ASSUME NEW win, win = [w \in Windows |-> Closed]
  PROVE  \A w \in Windows : Emptied(win[w])
BY DEF Emptied, Closed

(* One window gets new cells.                                                *)
LEMMA OneEmptied ==
  ASSUME TypeOK, \A x \in Windows : Emptied(window[x]),
         NEW w \in Windows, NEW win, Emptied(win), window' = [window EXCEPT ![w] = win]
  PROVE  \A x \in Windows : Emptied(window'[x])
BY DEF TypeOK

(* The steps of one window.                                                  *)
LEMMA WindowEmptied ==
  ASSUME LockInv, \A x \in Windows : Emptied(window[x]), NEW w \in Windows,
         \/ SignIn(w) \/ Logout(w) \/ Activity(w) \/ AutoLockFires(w)
         \/ PinUnlock(w) \/ WrongPin(w) \/ PinExhausted(w) \/ PinFallback(w)
         \/ PinQuit(w) \/ OpenPinSetup(w) \/ ClosePinSetup(w)
         \/ ReadDelay(w) \/ ApplyDelay(w)
  PROVE  \A x \in Windows : Emptied(window'[x])
<1>1. window[w] \in WindowState /\ Sound(window[w]) /\ TypeOK /\ Emptied(window[w])
  BY DEF LockInv, TypeOK
<1>2. LockKeepPin(window[w]) \in WindowState
  BY <1>1, LockType
<1>3. ASSUME NEW win, Emptied(win), window' = [window EXCEPT ![w] = win]
      PROVE  \A x \in Windows : Emptied(window'[x])
  BY <1>1, <1>3, OneEmptied
<1>4. CASE SignIn(w)
  <2> DEFINE opened == [Closed EXCEPT !.shown = TRUE, !.key = account,
                                      !.choice = savedDelay, !.reading = TRUE]
  <2>1. account \in Keys /\ savedDelay \in Delays
    BY <1>1 DEF TypeOK
  <2>2. opened \in WindowState /\ Emptied(opened)
    BY <2>1, ClosedSound DEF Closed, WindowState, KeyOrNone, Emptied
  <2>3. window' = [window EXCEPT ![w] = Activate(opened)]
    BY <1>4 DEF SignIn
  <2> HIDE DEF opened
  <2>4. QED
    BY <1>3, <2>2, <2>3, TimerEmptied
<1>5. CASE Activity(w)
  BY <1>1, <1>3, <1>5, TimerEmptied DEF Activity, ReplaceWindow
<1>6. CASE Logout(w) \/ AutoLockFires(w) \/ PinExhausted(w) \/ PinFallback(w)
  <2>1. \/ ShowPinDialog(w, LockKeepPin(window[w]))
        \/ \E n \in {1, 2} : SignOut(w, window[w], n) \/ SignOut(w, LockKeepPin(window[w]), n)
    BY <1>6 DEF Logout, AutoLockFires, PinExhausted, PinFallback
  <2>2. QED
    BY <1>1, <1>2, <1>3, <2>1, LockEmptied DEF ShowPinDialog, SignOut
<1>7. CASE PinUnlock(w)
  <2> DEFINE opened == [window[w] EXCEPT !.pin = FALSE, !.key = window[w].cache.key]
  <2>1. window[w].cache \in PinCache
    BY <1>1, <1>7 DEF PinUnlock, WindowState
  <2>2. window[w].cache.key \in Keys /\ window[w].shown
    BY <1>1, <1>7, <2>1 DEF PinCache, PinUnlock, Sound
  <2>3. opened \in WindowState /\ Emptied(opened)
    BY <1>1, <2>2 DEF WindowState, KeyOrNone, Emptied
  <2>4. window' = [window EXCEPT ![w] = Activate(opened)]
    BY <1>7 DEF PinUnlock, ReplaceWindow
  <2> HIDE DEF opened
  <2>5. QED
    BY <1>3, <2>3, <2>4, TimerEmptied
<1>8. CASE WrongPin(w)
  <2>1. PICK c : window' = [window EXCEPT ![w] = [window[w] EXCEPT !.cache = c]]
    BY <1>8 DEF WrongPin, ReplaceWindow
  <2>2. Emptied([window[w] EXCEPT !.cache = c])
    BY <1>1 DEF Emptied, WindowState
  <2>3. QED
    BY <1>3, <2>1, <2>2
<1>9. CASE PinQuit(w)
  BY <1>9, QuitEmptied DEF PinQuit, Quit, Started
<1>10. CASE OpenPinSetup(w)
  <2>1. window' = [window EXCEPT ![w] = [window[w] EXCEPT !.setup = window[w].key]]
    BY <1>10 DEF OpenPinSetup, ReplaceWindow
  <2>2. Emptied([window[w] EXCEPT !.setup = window[w].key])
    BY <1>1 DEF Emptied, WindowState
  <2>3. QED
    BY <1>3, <2>1, <2>2
<1>11. CASE ClosePinSetup(w)
  <2>1. PICK c : window' = [window EXCEPT ![w] = [window[w] EXCEPT !.cache = c, !.setup = None]]
    BY <1>11 DEF ClosePinSetup, ReplaceWindow
  <2>2. Emptied([window[w] EXCEPT !.cache = c, !.setup = None])
    BY <1>1 DEF Emptied, WindowState
  <2>3. QED
    BY <1>3, <2>1, <2>2
<1>12. CASE ReadDelay(w)
  <2>1. window' = [window EXCEPT ![w] =
                     [window[w] EXCEPT !.reading = FALSE, !.loaded = savedDelay]]
    BY <1>12 DEF ReadDelay, ReplaceWindow
  <2>2. Emptied([window[w] EXCEPT !.reading = FALSE, !.loaded = savedDelay])
    BY <1>1 DEF Emptied, WindowState
  <2>3. QED
    BY <1>3, <2>1, <2>2
<1>13. CASE ApplyDelay(w)
  <2>1. window[w].loaded \in Delays
    BY <1>1, <1>13 DEF ApplyDelay, WindowState
  <2>2. QED
    BY <1>1, <1>3, <1>13, <2>1, TimerEmptied DEF ApplyDelay, ReplaceWindow
<1>14. QED
  BY <1>4, <1>5, <1>6, <1>7, <1>8, <1>9, <1>10, <1>11, <1>12, <1>13

(* Every step, when no password change can end.                              *)
LEMMA NextEmptied ==
  ASSUME Changers = {}
  PROVE  LockInv /\ (\A x \in Windows : Emptied(window[x])) /\ [Next]_vars
           => (\A x \in Windows : Emptied(window[x]))'
<1> SUFFICES ASSUME LockInv, \A x \in Windows : Emptied(window[x]), [Next]_vars
             PROVE  \A x \in Windows : Emptied(window'[x])
  BY DEF Emptied
<1>1. TypeOK /\ window \in [Windows -> WindowState]
  BY DEF LockInv, TypeOK
<1>2. ASSUME NEW w \in Windows,
             \/ SignIn(w) \/ Logout(w) \/ Activity(w) \/ AutoLockFires(w)
             \/ PinUnlock(w) \/ WrongPin(w) \/ PinExhausted(w) \/ PinFallback(w)
             \/ PinQuit(w) \/ OpenPinSetup(w) \/ ClosePinSetup(w)
             \/ ReadDelay(w) \/ ApplyDelay(w)
      PROVE  \A x \in Windows : Emptied(window'[x])
  BY <1>2, WindowEmptied
<1>3. ASSUME NEW u \in Updaters, NEW w \in Windows, NEW mins \in Delays,
             ChooseDelay(u, w, mins)
      PROVE  \A x \in Windows : Emptied(window'[x])
  <2>1. window' = [window EXCEPT ![w] = [window[w] EXCEPT !.choice = mins]]
    BY <1>3 DEF ChooseDelay, ReplaceWindow
  <2>2. Emptied([window[w] EXCEPT !.choice = mins])
    BY <1>1 DEF Emptied, WindowState
  <2>3. QED
    BY <1>1, <2>1, <2>2, OneEmptied
<1>4. ASSUME NEW u \in Updaters, DelaySaved(u) \/ DelayNotSaved(u)
      PROVE  \A x \in Windows : Emptied(window'[x])
  <2>1. update[u] \in UpdateState /\ update[u].stage # "idle"
    BY <1>1, <1>4 DEF TypeOK, DelaySaved, DelayNotSaved
  <2>2. NoUpdate.stage = "idle"
    BY DEF NoUpdate
  <2>3. update[u] \in [stage: {"write", "deliver"}, window: Windows, mins: Delays]
    BY <2>1, <2>2 DEF UpdateState
  <2> DEFINE w == update[u].window
  <2>4. w \in Windows /\ update[u].mins \in Delays
    BY <2>3
  <2>5. CASE DelaySaved(u)
    <3>1. window' = [window EXCEPT ![w] = SetTimeout(window[w], update[u].mins)]
      BY <2>5 DEF DelaySaved, ReplaceWindow
    <3>2. Emptied(SetTimeout(window[w], update[u].mins))
      BY <1>1, <2>4, TimerEmptied
    <3>3. QED
      BY <1>1, <2>4, <3>1, <3>2, OneEmptied
  <2>6. CASE DelayNotSaved(u)
    <3>1. window' = [window EXCEPT ![w] = [window[w] EXCEPT !.choice = None]]
      BY <2>6 DEF DelayNotSaved, ReplaceWindow
    <3>2. Emptied([window[w] EXCEPT !.choice = None])
      BY <1>1, <2>4 DEF Emptied, WindowState
    <3>3. QED
      BY <1>1, <2>4, <3>1, <3>2, OneEmptied
  <2>7. QED
    BY <1>4, <2>5, <2>6
<1>5. CASE CloseLogin
  BY <1>5, QuitEmptied DEF CloseLogin, Quit, Started
<1>6. CASE Tick
  <2>1. \A x \in Windows : /\ window'[x].key = window[x].key
                           /\ window'[x].shown = window[x].shown
                           /\ window'[x].pin = window[x].pin
    BY <1>1, <1>6 DEF Tick, WindowState
  <2>2. QED
    BY <2>1 DEF Emptied
<1>7. CASE \/ Leave \/ UNCHANGED vars \/ \E u \in Updaters : SaveDelay(u)
  BY <1>7 DEF Leave, vars, SaveDelay
<1>8. QED
  BY <1>2, <1>3, <1>4, <1>5, <1>6, <1>7 DEF Next

(* A locked or signed-out window holds no key, and no late delay, timer or   *)
(* dialog gives it one: only the result of a password change does.           *)
THEOREM LockTakesTheKey ==
  ASSUME Changers = {}
  PROVE  Spec => []LockedHoldsNoKey
<1>1. Init => \A x \in Windows : Emptied(window[x])
  BY QuitEmptied DEF Init, Started
<1>2. (\A x \in Windows : Emptied(window[x])) => LockedHoldsNoKey
  BY DEF Emptied, LockedHoldsNoKey, Unlocked
<1>3. QED
  BY <1>1, <1>2, NextEmptied, LockInvariant, PTL DEF Spec

-----------------------------------------------------------------------------
(* Lists of identifiers.                                                      *)

\* Each member of a set once.
Lists(ids, S) == ids \in Seq(S) /\ IsInjective(ids) /\ ToSet(ids) = S

LEMMA SetToSeqLists ==
  ASSUME NEW S, IsFiniteSet(S)
  PROVE  Lists(SetToSeq(S), S) /\ Len(SetToSeq(S)) = Cardinality(S)
<1> DEFINE n == Cardinality(S)
           Fits(f) == f \in [1..n -> S] /\ IsInjective(f)
<1>1. n \in Nat /\ ExistsBijection(1..n, S)
  BY FS_CardinalityType
<1>2. PICK f \in Bijection(1..n, S) : TRUE
  BY <1>1 DEF ExistsBijection
<1>3. f \in [1..n -> S] /\ IsInjective(f)
  BY <1>2 DEF Bijection, Injection, IsInjective
<1> DEFINE g == SetToSeq(S)
<1>4. g \in [1..n -> S] /\ IsInjective(g)
  BY <1>3 DEF SetToSeq
<1> HIDE DEF g, n
<1>5. g \in Injection(1..n, S)
  BY <1>4 DEF Injection
<1>6. Cardinality(1..n) = Cardinality(S)
  BY <1>1, FS_Interval DEF n
<1>7. g \in Surjection(1..n, S)
  BY <1>5, <1>6, FS_Injection
<1>8. g \in Seq(S) /\ Len(g) = n /\ DOMAIN g = 1..n
  BY <1>1, <1>4
<1>9. ToSet(g) = S
  BY <1>4, <1>7, <1>8 DEF ToSet, Surjection
<1> QED
  BY <1>4, <1>8, <1>9 DEF Lists, n, g

LEMMA ListsFacts ==
  ASSUME NEW S, NEW ids, Lists(ids, S)
  PROVE  /\ Len(ids) \in Nat /\ DOMAIN ids = 1..Len(ids)
         /\ \A n \in 1..Len(ids) : ids[n] \in S
         /\ \A n, m \in 1..Len(ids) : ids[n] = ids[m] => n = m
         /\ \A s \in S : \E n \in 1..Len(ids) : ids[n] = s
<1>1. ids \in Seq(S) /\ Len(ids) \in Nat /\ DOMAIN ids = 1..Len(ids)
  BY DEF Lists
<1> QED
  BY <1>1 DEF Lists, IsInjective, ToSet

\* Two lists of sets without a common member, one after the other.
LEMMA ListsJoin ==
  ASSUME NEW S, NEW T, S \cap T = {}, NEW a, NEW b, Lists(a, S), Lists(b, T)
  PROVE  /\ Lists(a \o b, S \cup T)
         /\ Len(a \o b) = Len(a) + Len(b)
         /\ \A n \in 1..Len(a) : (a \o b)[n] = a[n]
         /\ \A n \in 1..Len(b) : (a \o b)[Len(a) + n] = b[n]
<1> DEFINE c == a \o b
<1>1. a \in Seq(S \cup T) /\ b \in Seq(S \cup T)
  BY DEF Lists
<1>2. c \in Seq(S \cup T) /\ Len(c) = Len(a) + Len(b)
  BY <1>1
<1>3. /\ \A n \in 1..Len(a) : c[n] = a[n]
      /\ \A n \in 1..Len(b) : c[Len(a) + n] = b[n]
  BY <1>1
<1> HIDE DEF c
<1>4. Len(a) \in Nat /\ Len(b) \in Nat /\ DOMAIN c = 1..Len(a) + Len(b)
  BY <1>1, <1>2
<1>5. ASSUME NEW n \in 1..Len(a) + Len(b)
      PROVE  n \in 1..Len(a) \/ \E m \in 1..Len(b) : n = Len(a) + m
  <2>1. CASE n > Len(a)
    <3>1. n - Len(a) \in 1..Len(b) /\ n = Len(a) + (n - Len(a))
      BY <1>4, <2>1
    <3> QED
      BY <3>1
  <2> QED
    BY <1>4, <2>1
<1>6. IsInjective(c)
  <2> SUFFICES ASSUME NEW n \in 1..Len(a) + Len(b), NEW m \in 1..Len(a) + Len(b), c[n] = c[m]
               PROVE  n = m
    BY <1>4 DEF IsInjective
  <2>1. CASE n \in 1..Len(a) /\ m \in 1..Len(a)
    BY <1>3, <2>1, ListsFacts
  <2>2. CASE n \notin 1..Len(a) /\ m \notin 1..Len(a)
    <3>1. PICK x \in 1..Len(b), y \in 1..Len(b) : n = Len(a) + x /\ m = Len(a) + y
      BY <1>5, <2>2
    <3>2. b[x] = b[y]
      BY <1>3, <3>1
    <3> QED
      BY <3>1, <3>2, ListsFacts
  <2>3. ASSUME NEW x \in 1..Len(a), NEW y \in 1..Len(b) PROVE c[x] # c[Len(a) + y]
    BY SMTT(30), <1>3, <2>3, ListsFacts
  <2> QED
    BY <1>5, <2>1, <2>2, <2>3
<1>7. ToSet(c) = S \cup T
  <2>1. \A n \in DOMAIN c : c[n] \in S \cup T
    BY <1>2, <1>4
  <2>2. ASSUME NEW s \in S PROVE \E n \in DOMAIN c : c[n] = s
    <3>1. PICK n \in 1..Len(a) : a[n] = s
      BY ListsFacts
    <3> QED
      BY <1>3, <1>4, <3>1
  <2>3. ASSUME NEW s \in T PROVE \E n \in DOMAIN c : c[n] = s
    <3>1. PICK n \in 1..Len(b) : b[n] = s
      BY ListsFacts
    <3>2. Len(a) + n \in DOMAIN c
      BY <1>4
    <3> QED
      BY <1>3, <3>1, <3>2
  <2> QED
    BY <2>1, <2>2, <2>3 DEF ToSet
<1> QED
  BY <1>2, <1>3, <1>6, <1>7 DEF Lists, c

\* What is left of a list after its first member.
LEMMA RestIs ==
  ASSUME NEW S, NEW todo \in Seq(S), IsInjective(todo), todo # <<>>
  PROVE  /\ Head(todo) \in S /\ Tail(todo) \in Seq(S)
         /\ Len(Tail(todo)) + 1 = Len(todo)
         /\ IsInjective(Tail(todo))
         /\ Head(todo) \notin ToSet(Tail(todo))
         /\ ToSet(todo) = ToSet(Tail(todo)) \cup {Head(todo)}
<1> DEFINE rest == Tail(todo)
<1>1. /\ Len(todo) \in Nat \ {0} /\ DOMAIN todo = 1..Len(todo)
      /\ Head(todo) = todo[1] /\ Head(todo) \in S
  BY EmptySeq
<1>2. /\ rest \in Seq(S) /\ Len(rest) = Len(todo) - 1 /\ DOMAIN rest = 1..Len(todo) - 1
      /\ \A n \in 1..Len(todo) - 1 : rest[n] = todo[n + 1]
  BY <1>1, HeadTailProperties
<1> HIDE DEF rest
<1>3. IsInjective(rest)
  <2> SUFFICES ASSUME NEW n \in 1..Len(todo) - 1, NEW m \in 1..Len(todo) - 1, rest[n] = rest[m]
               PROVE  n = m
    BY <1>2 DEF IsInjective
  <2>1. n + 1 \in DOMAIN todo /\ m + 1 \in DOMAIN todo /\ todo[n + 1] = todo[m + 1]
    BY <1>1, <1>2
  <2> QED
    BY <1>1, <2>1 DEF IsInjective
<1>4. Head(todo) \notin ToSet(rest)
  <2> SUFFICES ASSUME NEW n \in 1..Len(todo) - 1, rest[n] = todo[1] PROVE FALSE
    BY <1>1, <1>2 DEF ToSet
  <2>1. n + 1 \in DOMAIN todo /\ 1 \in DOMAIN todo /\ todo[n + 1] = todo[1]
    BY <1>1, <1>2
  <2> QED
    BY <1>1, <2>1 DEF IsInjective
<1>5. ToSet(todo) = ToSet(rest) \cup {Head(todo)}
  <2>1. ASSUME NEW n \in DOMAIN todo PROVE todo[n] = todo[1] \/ \E m \in DOMAIN rest : rest[m] = todo[n]
    <3>1. CASE n # 1
      <4>1. n - 1 \in DOMAIN rest /\ n - 1 + 1 = n
        BY <1>1, <1>2, <3>1
      <4> QED
        BY <1>2, <4>1
    <3> QED
      BY <3>1
  <2>2. ASSUME NEW m \in DOMAIN rest PROVE \E n \in DOMAIN todo : todo[n] = rest[m]
    <3>1. m + 1 \in DOMAIN todo
      BY <1>1, <1>2
    <3> QED
      BY <1>2, <3>1
  <2>3. 1 \in DOMAIN todo
    BY <1>1
  <2> QED
    BY <1>1, <2>1, <2>2, <2>3 DEF ToSet
<1> QED
  BY <1>1, <1>2, <1>3, <1>4, <1>5 DEF rest

LEMMA LeastIs ==
  ASSUME NEW S \in SUBSET Nat, S # {}
  PROVE  Min(S) \in S
<1>1. \E x \in S : \A y \in S : ~(<<y, x>> \in OpToRel(<, Nat))
  BY WFMin, NatLessThanWellFounded, Zenon
<1>2. PICK x \in S : \A y \in S : ~(y < x)
  BY <1>1 DEF OpToRel
<1>3. \A y \in S : x <= y
  BY <1>2
<1> QED
  BY <1>3 DEF Min

\* As many places as members.
LEMMA CountIs ==
  ASSUME NEW S, NEW ids, Lists(ids, S), IsFiniteSet(S),
         NEW D \in SUBSET (1..Len(ids)), NEW T \in SUBSET S,
         \A n \in 1..Len(ids) : n \in D <=> ids[n] \in T
  PROVE  Cardinality(D) = Cardinality(T)
<1> DEFINE f == [n \in D |-> ids[n]]
<1>1. /\ Len(ids) \in Nat
      /\ \A n, m \in 1..Len(ids) : ids[n] = ids[m] => n = m
      /\ \A s \in S : \E n \in 1..Len(ids) : ids[n] = s
  BY ListsFacts
<1>2. IsFiniteSet(1..Len(ids)) /\ IsFiniteSet(D)
  <2>1. 1 \in Int /\ Len(ids) \in Int
    BY <1>1
  <2>2. IsFiniteSet(1..Len(ids))
    BY <2>1, FS_Interval, Zenon
  <2> QED
    BY <2>2, FS_Subset, Zenon
<1>3. f \in Bijection(D, T)
  <2>1. f \in [D -> T]
    OBVIOUS
  <2>2. \A n, m \in D : f[n] = f[m] => n = m
    BY <1>1
  <2>3. \A s \in T : \E n \in D : f[n] = s
    BY <1>1
  <2> HIDE DEF f
  <2>4. f \in Injection(D, T)
    BY <2>1, <2>2 DEF Injection, IsInjective
  <2>5. f \in Surjection(D, T)
    BY <2>1, <2>3 DEF Surjection
  <2> QED
    BY <2>4, <2>5 DEF Bijection
<1>4. ExistsBijection(D, T)
  BY <1>3 DEF ExistsBijection
<1> QED
  BY <1>2, <1>4, FS_Bijection

-----------------------------------------------------------------------------
(* What is found in one item.                                                 *)

LEMMA VerdictIs ==
  ASSUME NEW text \in DOMAIN Length
  PROVE  is_weak_password(text) <=> ~Strong(text)
<1>1. /\ Length[text] \in Nat /\ Estimate[text] \in Nat
      /\ Cardinality(Classes[text]) \in Nat
  BY PasswordsAreJudged, FS_CardinalityType
<1> DEFINE kinds == Cardinality(Classes[text])
<1>2. policy_cap(text) = IF Length[text] < 12 THEN 1
                         ELSE IF Length[text] \in 12..13 THEN IF kinds = 4 THEN 3 ELSE 2
                         ELSE IF Length[text] = 14 THEN IF kinds >= 3 THEN 3 ELSE 2
                         ELSE IF kinds >= 3 THEN 4 ELSE 2
  BY <1>1 DEF policy_cap
<1> QED
  BY <1>1, <1>2 DEF is_weak_password, assess_password, Lower, Strong

Found(content) ==
  metadata_findings(content)
  \cup (IF Unreadable(content) THEN {"Unreadable"} ELSE {})
  \cup (IF Readable(content) /\ is_weak_password(content.value.text)
        THEN {"WeakPassword"} ELSE {})

LEMMA DetailsAre ==
  ASSUME NEW content \in Content
  PROVE  /\ metadata_findings(content) \cap {"WeakPassword", "ReusedPassword", "Unreadable"} = {}
         /\ "Expired" \in metadata_findings(content) <=> content.expires = "past"
         /\ metadata_findings(content) = {} =>
              /\ content.expires \in {"none", "later"}
              /\ content.details.form \in {"none", "plain", "url"}
              /\ content.details.form = "url" =>
                   content.details.url.blank \/ content.details.url.scheme = "https"
<1>1. /\ content.expires \in {"none", "bad", "past", "month", "later"}
      /\ content.details \in Metadata
  BY DEF Content
<1> DEFINE dates == expiry_finding(content.expires)
           details == content.details
<1>2. /\ dates \subseteq {"InvalidExpiry", "Expired", "ExpiringSoon"}
      /\ "Expired" \in dates <=> content.expires = "past"
      /\ dates = {} => content.expires \in {"none", "later"}
  BY <1>1 DEF expiry_finding
<1>3. metadata_findings(content) = dates \cup
        CASE details.form \in {"none", "plain"} -> {}
          [] details.form = "broken" -> {"InvalidMetadata"}
          [] details.form = "number" -> {"InvalidMetadata"}
          [] details.form = "url" -> IF assess_url(details.url) \in Attention THEN {"Url"} ELSE {}
  BY DEF metadata_findings
<1> HIDE DEF dates
<1>4. CASE details.form \in {"none", "plain"}
  BY <1>2, <1>3, <1>4
<1>5. CASE details.form \in {"broken", "number"}
  <2>1. metadata_findings(content) = dates \cup {"InvalidMetadata"}
    BY <1>3, <1>5
  <2> QED
    BY <1>2, <1>5, <2>1
<1>6. CASE details.form = "url"
  <2>1. details.url \in Addresses
    BY <1>1, <1>6 DEF Metadata
  <2>2. \/ metadata_findings(content) = dates \cup {"Url"}
        \/ metadata_findings(content) = dates /\ assess_url(details.url) \notin Attention
    BY <1>3, <1>6
  <2>3. assess_url(details.url) \notin Attention =>
          details.url.blank \/ details.url.scheme = "https"
    BY <2>1 DEF assess_url, Attention, Addresses
  <2> QED
    BY <1>2, <1>6, <2>2, <2>3
<1> QED
  BY <1>1, <1>4, <1>5, <1>6 DEF Metadata

LEMMA FoundIs ==
  ASSUME NEW content \in Content
  PROVE  /\ "WeakPassword" \in Found(content) <=>
              Readable(content) /\ ~Strong(content.value.text)
         /\ "Unreadable" \in Found(content) <=> Unreadable(content)
         /\ "Expired" \in Found(content) <=> content.expires = "past"
         /\ "ReusedPassword" \notin Found(content)
         /\ Found(content) = {} =>
              /\ content.kind = "Password" => Readable(content)
              /\ content.expires \in {"none", "later"}
              /\ content.details.form \in {"none", "plain", "url"}
              /\ content.details.form = "url" =>
                   content.details.url.blank \/ content.details.url.scheme = "https"
<1> DEFINE own == metadata_findings(content)
           one == IF Unreadable(content) THEN {"Unreadable"} ELSE {}
           two == IF Readable(content) /\ is_weak_password(content.value.text)
                  THEN {"WeakPassword"} ELSE {}
<1>1. Found(content) = own \cup one \cup two
  BY DEF Found
<1>2. Readable(content) => content.value.text \in DOMAIN Length
  BY DEF Readable, Content, Values
<1>3. Readable(content) => (is_weak_password(content.value.text) <=> ~Strong(content.value.text))
  BY <1>2, VerdictIs
<1>4. /\ one = {} => ~Unreadable(content)
      /\ "Unreadable" \in one <=> Unreadable(content)
      /\ one \subseteq {"Unreadable"}
      /\ "WeakPassword" \in two <=> Readable(content) /\ ~Strong(content.value.text)
      /\ two \subseteq {"WeakPassword"}
  BY <1>3
<1> HIDE DEF own, one, two
<1>5. /\ own \cap {"WeakPassword", "ReusedPassword", "Unreadable"} = {}
      /\ "Expired" \in own <=> content.expires = "past"
      /\ own = {} =>
           /\ content.expires \in {"none", "later"}
           /\ content.details.form \in {"none", "plain", "url"}
           /\ content.details.form = "url" =>
                content.details.url.blank \/ content.details.url.scheme = "https"
  BY DetailsAre DEF own
<1>6. content.kind = "Password" => Readable(content) \/ Unreadable(content)
  BY DEF Readable, Unreadable
<1>7. Found(content) = {} => own = {} /\ one = {}
  BY <1>1
<1> QED
  BY <1>1, <1>4, <1>5, <1>6, <1>7

-----------------------------------------------------------------------------
(* The worker, on a store that stays as it is.                                *)

\* h gives what an entry holds, p where it is.
Stored(h, p) ==
  /\ h \in [Secrets -> Content \cup {Nil}]
  /\ p \in [Secrets -> Vaults \cup {Nil}]
  /\ \A s \in Secrets : h[s] = Nil <=> p[s] = Nil

Kept(h, p, vaults) == {s \in Secrets : h[s] # Nil /\ p[s] \in vaults}

RowOf(h, p, s) == [id |-> s, vault |-> p[s], findings |-> Found(h[s]), group |-> Nil]

PrintsOf(h, ids) ==
  {[text |-> h[ids[n]].value.text, at |-> n] : n \in {k \in DOMAIN ids : Readable(h[ids[k]])}}

WorkFields == {"form", "todo", "rows", "prints", "opened", "unavailable", "unreadable"}

\* The vaults still to open, those opened and those counted.
VaultsOf(w) ==
  /\ w.todo \in Seq(Vaults) /\ IsInjective(w.todo)
  /\ w.opened \subseteq Vaults /\ w.opened \cap ToSet(w.todo) = {}

\* A worker has a row for each entry of the vaults it opened, and their prints.
WorkOf(w, h, p) ==
  /\ DOMAIN w = WorkFields
  /\ VaultsOf(w)
  /\ w.unavailable \in Nat
  /\ Cardinality(w.opened) + w.unavailable + Len(w.todo) = Cardinality(Vaults)
  /\ \E ids : /\ Lists(ids, Kept(h, p, w.opened))
              /\ w.rows = [n \in DOMAIN ids |-> RowOf(h, p, ids[n])]
              /\ w.prints = PrintsOf(h, ids)

Begun == [form |-> "run", todo |-> Order, rows |-> <<>>, prints |-> {}, opened |-> {},
          unavailable |-> 0, unreadable |-> 0]

LEMMA OrderIs ==
  Order \in Seq(Vaults) /\ IsInjective(Order) /\ Len(Order) = Cardinality(Vaults)
  /\ Cardinality(Vaults) \in Nat
BY FinitelyMany, SetToSeqLists, FS_CardinalityType DEF Order, Lists

LEMMA NothingListed ==
  Lists(<<>>, {})
BY DEF Lists, IsInjective, ToSet

LEMMA WorkBegins ==
  ASSUME NEW h, NEW p
  PROVE  WorkOf(Begun, h, p)
<1>1. DOMAIN Begun = WorkFields
  BY DEF Begun, WorkFields
<1>2. VaultsOf(Begun)
  BY OrderIs DEF VaultsOf, Begun
<1>3. Begun.unavailable \in Nat
      /\ Cardinality(Begun.opened) + Begun.unavailable + Len(Begun.todo) = Cardinality(Vaults)
  BY OrderIs, FS_EmptySet DEF Begun
<1>4. Kept(h, p, Begun.opened) = {}
  BY DEF Kept, Begun
<1>5. Begun.rows = [n \in DOMAIN <<>> |-> RowOf(h, p, <<>>[n])] /\ Begun.prints = PrintsOf(h, <<>>)
  BY DEF Begun, PrintsOf
<1> QED
  BY <1>1, <1>2, <1>3, <1>4, <1>5, NothingListed DEF WorkOf

LEMMA VaultsGoOn ==
  ASSUME NEW todo, NEW opened,
         todo \in Seq(Vaults), IsInjective(todo), todo # <<>>,
         opened \subseteq Vaults, opened \cap ToSet(todo) = {}
  PROVE  /\ Head(todo) \in Vaults /\ Head(todo) \notin opened
         /\ Tail(todo) \in Seq(Vaults) /\ IsInjective(Tail(todo))
         /\ opened \cap ToSet(Tail(todo)) = {}
         /\ (opened \cup {Head(todo)}) \cap ToSet(Tail(todo)) = {}
         /\ Cardinality(opened \cup {Head(todo)}) = Cardinality(opened) + 1
         /\ Cardinality(opened) \in Nat /\ Len(Tail(todo)) \in Nat
         /\ Len(todo) = Len(Tail(todo)) + 1
<1>1. /\ Head(todo) \in Vaults /\ Tail(todo) \in Seq(Vaults) /\ IsInjective(Tail(todo))
      /\ Head(todo) \notin ToSet(Tail(todo)) /\ Len(Tail(todo)) + 1 = Len(todo)
      /\ ToSet(todo) = ToSet(Tail(todo)) \cup {Head(todo)}
  BY RestIs
<1>2. IsFiniteSet(opened)
  BY FinitelyMany, FS_Subset
<1>3. Len(Tail(todo)) \in Nat
  BY <1>1
<1> QED
  BY <1>1, <1>2, <1>3, FS_AddElement, FS_CardinalityType

\* The list of a vault, after those of others.
LEMMA VaultListed ==
  ASSUME Stored(held, place), NEW v \in Vaults, NEW opened \in SUBSET Vaults, v \notin opened,
         NEW ids, Lists(ids, Kept(held, place, opened))
  PROVE  /\ Lists(list_by_vault(v), Kept(held, place, {v}))
         /\ Lists(ids \o list_by_vault(v), Kept(held, place, opened \cup {v}))
<1> DEFINE new == {s \in Secrets : held[s] # Nil /\ place[s] = v}
<1>1. IsFiniteSet(new)
  BY FinitelyMany, FS_Subset
<1>2. Lists(list_by_vault(v), new)
  BY <1>1, SetToSeqLists DEF list_by_vault
<1>3. /\ new = Kept(held, place, {v})
      /\ Kept(held, place, opened \cup {v}) = Kept(held, place, opened) \cup new
      /\ Kept(held, place, opened) \cap new = {}
  BY DEF Kept
<1> HIDE DEF new
<1>4. Lists(ids \o list_by_vault(v), Kept(held, place, opened) \cup new)
  BY <1>2, <1>3, ListsJoin, Zenon
<1> QED
  BY <1>2, <1>3, <1>4

LEMMA WorkOpens ==
  ASSUME Stored(held, place), NEW w, WorkOf(w, held, place), w.todo # <<>>
  PROVE  WorkOf(analyze_vault(w, Head(w.todo)), held, place)
<1> DEFINE v == Head(w.todo)
           items == list_by_vault(v)
           new == analyze_vault(w, v)
<1>1. /\ DOMAIN w = WorkFields /\ VaultsOf(w) /\ w.unavailable \in Nat
      /\ Cardinality(w.opened) + w.unavailable + Len(w.todo) = Cardinality(Vaults)
  BY DEF WorkOf
<1>2. PICK ids : /\ Lists(ids, Kept(held, place, w.opened))
                 /\ w.rows = [n \in DOMAIN ids |-> RowOf(held, place, ids[n])]
                 /\ w.prints = PrintsOf(held, ids)
  BY DEF WorkOf
<1>3. /\ new.todo = Tail(w.todo) /\ new.opened = w.opened \cup {v}
      /\ new.unavailable = w.unavailable
      /\ new.rows = w.rows \o rows_of(items)
      /\ new.prints = w.prints \cup prints_of(items, Len(w.rows))
      /\ DOMAIN new = WorkFields
  BY <1>1 DEF analyze_vault, WorkFields
<1> HIDE DEF new
<1>4. /\ v \in Vaults /\ v \notin w.opened /\ w.opened \in SUBSET Vaults
      /\ Cardinality(w.opened \cup {v}) = Cardinality(w.opened) + 1
      /\ Cardinality(w.opened) \in Nat /\ Len(Tail(w.todo)) \in Nat
      /\ Len(w.todo) = Len(Tail(w.todo)) + 1
  BY <1>1, VaultsGoOn DEF VaultsOf
<1>5. VaultsOf(new)
  BY <1>1, <1>3, <1>4, VaultsGoOn DEF VaultsOf
<1>6. Cardinality(new.opened) + new.unavailable + Len(new.todo) = Cardinality(Vaults)
  <2>1. Cardinality(new.opened) = Cardinality(w.opened) + 1 /\ Len(w.todo) = Len(new.todo) + 1
        /\ Len(new.todo) \in Nat
    BY <1>3, <1>4
  <2>2. Cardinality(w.opened) + w.unavailable + Len(w.todo) = Cardinality(Vaults)
        /\ w.unavailable \in Nat /\ Cardinality(w.opened) \in Nat /\ new.unavailable = w.unavailable
    BY <1>1, <1>3, <1>4
  <2> HIDE DEF v
  <2> QED
    BY SMTT(60), <2>1, <2>2
<1> DEFINE all == ids \o items
<1>7. Lists(items, Kept(held, place, {v})) /\ Lists(all, Kept(held, place, new.opened))
  BY <1>2, <1>3, <1>4, VaultListed
<1>8. /\ Len(ids) \in Nat /\ DOMAIN ids = 1..Len(ids)
      /\ Len(items) \in Nat /\ DOMAIN items = 1..Len(items)
      /\ Len(all) = Len(ids) + Len(items) /\ DOMAIN all = 1..Len(ids) + Len(items)
      /\ \A n \in 1..Len(ids) : all[n] = ids[n]
      /\ \A n \in 1..Len(items) : all[Len(ids) + n] = items[n]
  <2>1. ids \in Seq(Secrets) /\ items \in Seq(Secrets)
    BY <1>2, <1>7 DEF Lists, Kept
  <2> QED
    BY <2>1
<1> HIDE DEF all, items
<1>9. new.rows = [n \in DOMAIN all |-> RowOf(held, place, all[n])]
  <2> DEFINE a == [n \in DOMAIN ids |-> RowOf(held, place, ids[n])]
             b == rows_of(items)
             c == [n \in DOMAIN all |-> RowOf(held, place, all[n])]
  <2>1. b = [n \in DOMAIN items |-> RowOf(held, place, items[n])]
    BY DEF rows_of, analyze_item, RowOf, Found
  <2>2. DEFINE R == {RowOf(held, place, s) : s \in Secrets}
  <2>3. a \in Seq(R) /\ b \in Seq(R) /\ c \in Seq(R)
    <3>1. /\ \A n \in DOMAIN ids : ids[n] \in Secrets
          /\ \A n \in DOMAIN items : items[n] \in Secrets
          /\ \A n \in DOMAIN all : all[n] \in Secrets
      BY <1>2, <1>7 DEF Lists, Kept
    <3> QED
      BY <1>8, <2>1, <3>1
  <2>4. /\ Len(a) = Len(ids) /\ Len(b) = Len(items) /\ Len(c) = Len(ids) + Len(items)
    BY <1>8, <2>1
  <2>5. /\ \A n \in 1..Len(ids) : a[n] = RowOf(held, place, ids[n]) 
        /\ \A n \in 1..Len(items) : b[n] = RowOf(held, place, items[n])
        /\ \A n \in 1..Len(ids) + Len(items) : c[n] = RowOf(held, place, all[n])
    BY <1>8, <2>1
  <2> HIDE DEF a, b, c, R
  <2>6. a \o b \in Seq(R) /\ Len(a \o b) = Len(ids) + Len(items)
        /\ \A n \in 1..Len(ids) + Len(items) :
             (a \o b)[n] = IF n <= Len(ids) THEN a[n] ELSE b[n - Len(ids)]
    <3>1. /\ a \o b \in Seq(R) /\ Len(a \o b) = Len(a) + Len(b)
          /\ \A n \in 1..Len(a) + Len(b) :
               (a \o b)[n] = IF n <= Len(a) THEN a[n] ELSE b[n - Len(a)]
      BY <2>3, ConcatProperties
    <3> QED
      BY <2>4, <3>1, Zenon
  <2>7. ASSUME NEW n \in 1..Len(ids) + Len(items) PROVE (a \o b)[n] = c[n]
    <3>1. CASE n <= Len(ids)
      BY <1>8, <2>5, <2>6, <3>1
    <3>2. CASE n > Len(ids)
      <4>1. n - Len(ids) \in 1..Len(items) /\ Len(ids) + (n - Len(ids)) = n
        BY <1>8, <3>2
      <4>2. all[n] = items[n - Len(ids)]
        BY <1>8, <4>1
      <4>3. (a \o b)[n] = b[n - Len(ids)]
        BY <1>8, <2>6, <3>2
      <4>4. b[n - Len(ids)] = RowOf(held, place, items[n - Len(ids)])
        BY <2>5, <4>1
      <4> QED
        BY <2>5, <4>2, <4>3, <4>4
    <3>3. n <= Len(ids) \/ n > Len(ids)
      BY <1>8
    <3> QED
      BY <3>1, <3>2, <3>3
  <2>8. a \o b = c
    BY <1>8, <2>3, <2>4, <2>6, <2>7, SeqEqual
  <2> QED
    BY <1>2, <1>3, <2>8 DEF a, b, c
<1>10. new.prints = PrintsOf(held, all)
  <2> DEFINE P(n) == [text |-> held[all[n]].value.text, at |-> n]
  <2>1. Len(w.rows) = Len(ids)
    BY <1>2, <1>8
  <2>2. PrintsOf(held, all) = {P(n) : n \in {k \in 1..Len(ids) + Len(items) : Readable(held[all[k]])}}
    BY <1>8 DEF PrintsOf
  <2>3. w.prints = {P(n) : n \in {k \in 1..Len(ids) : Readable(held[all[k]])}}
    BY SMTT(30), <1>2, <1>8 DEF PrintsOf
  <2>4. prints_of(items, Len(ids)) =
          {P(Len(ids) + n) : n \in {k \in 1..Len(items) : Readable(held[all[Len(ids) + k]])}}
    <3>1. \A n \in 1..Len(items) : all[Len(ids) + n] = items[n]
      BY <1>8
    <3>2. prints_of(items, Len(ids)) =
            {[text |-> held[items[n]].value.text, at |-> Len(ids) + n] :
               n \in {k \in 1..Len(items) : Readable(held[items[k]])}}
      BY <1>8, Zenon DEF prints_of
    <3>3. {k \in 1..Len(items) : Readable(held[items[k]])}
            = {k \in 1..Len(items) : Readable(held[all[Len(ids) + k]])}
      BY <3>1
    <3> QED
      BY <3>1, <3>2, <3>3
  <2> HIDE DEF P
  <2>5. \A n \in 1..Len(ids) + Len(items) :
          n \in 1..Len(ids) \/ \E m \in 1..Len(items) : n = Len(ids) + m
    <3> SUFFICES ASSUME NEW n \in 1..Len(ids) + Len(items), n \notin 1..Len(ids)
                 PROVE  \E m \in 1..Len(items) : n = Len(ids) + m
      OBVIOUS
    <3>1. n - Len(ids) \in 1..Len(items) /\ n = Len(ids) + (n - Len(ids))
      BY <1>8
    <3> QED
      BY <3>1
  <2>6. /\ \A n \in 1..Len(ids) : n \in 1..Len(ids) + Len(items)
        /\ \A n \in 1..Len(items) : Len(ids) + n \in 1..Len(ids) + Len(items)
    BY <1>8
  <2>7. ASSUME NEW x \in PrintsOf(held, all) PROVE x \in w.prints \cup prints_of(items, Len(ids))
    <3>1. PICK n \in 1..Len(ids) + Len(items) : Readable(held[all[n]]) /\ x = P(n)
      BY <2>2
    <3> QED
      BY <2>3, <2>4, <2>5, <3>1
  <2>8. ASSUME NEW x \in w.prints \cup prints_of(items, Len(ids)) PROVE x \in PrintsOf(held, all)
    BY <2>2, <2>3, <2>4, <2>6
  <2> QED
    BY <1>3, <2>1, <2>7, <2>8
<1>11. WorkOf(new, held, place)
  <2>1. new.unavailable \in Nat
    BY <1>1, <1>3
  <2> QED
    BY <1>3, <1>5, <1>6, <1>7, <1>9, <1>10, <2>1, Zenon DEF WorkOf
<1> QED
  BY <1>11 DEF new

LEMMA WorkSkips ==
  ASSUME NEW h, NEW p, NEW w, WorkOf(w, h, p), w.todo # <<>>
  PROVE  WorkOf([w EXCEPT !.todo = Tail(@), !.unavailable = @ + 1], h, p)
<1> DEFINE new == [w EXCEPT !.todo = Tail(@), !.unavailable = @ + 1]
<1>1. DOMAIN w = WorkFields /\ VaultsOf(w) /\ w.unavailable \in Nat
  BY DEF WorkOf
<1>2. /\ new.todo = Tail(w.todo) /\ new.opened = w.opened
      /\ new.unavailable = w.unavailable + 1
      /\ new.rows = w.rows /\ new.prints = w.prints /\ DOMAIN new = WorkFields
  BY <1>1 DEF WorkFields
<1> HIDE DEF new
<1>3. VaultsOf(new)
  <2>1. /\ w.todo \in Seq(Vaults) /\ IsInjective(w.todo)
        /\ w.opened \subseteq Vaults /\ w.opened \cap ToSet(w.todo) = {}
    BY <1>1 DEF VaultsOf
  <2>2. /\ Tail(w.todo) \in Seq(Vaults) /\ IsInjective(Tail(w.todo))
        /\ w.opened \cap ToSet(Tail(w.todo)) = {}
    BY <2>1, VaultsGoOn, Zenon
  <2> QED
    BY <1>2, <2>1, <2>2, Zenon DEF VaultsOf
<1>4. Cardinality(new.opened) + new.unavailable + Len(new.todo) = Cardinality(Vaults)
  <2>1. /\ Len(w.todo) = Len(Tail(w.todo)) + 1 /\ Len(Tail(w.todo)) \in Nat
        /\ Cardinality(w.opened) \in Nat
    BY <1>1, VaultsGoOn DEF VaultsOf
  <2> QED
    BY <1>1, <1>2, <2>1 DEF WorkOf
<1> QED
  BY <1>1, <1>2, <1>3, <1>4 DEF WorkOf, new

-----------------------------------------------------------------------------
(* The report of a finished worker.                                           *)

LEMMA ManyAre ==
  ASSUME NEW S, IsFiniteSet(S)
  PROVE  Cardinality(S) > 1 <=> \E x, y \in S : x # y
<1>1. /\ Cardinality(S) \in Nat
      /\ Cardinality(S) = 0 <=> S = {}
      /\ Cardinality(S) = 1 <=> \E x : S = {x}
  BY FS_CardinalityType, FS_EmptySet, FS_Singleton
<1>2. CASE \E x, y \in S : x # y
  <2>1. S # {} /\ ~\E x : S = {x}
    BY <1>2
  <2> QED
    BY <1>1, <1>2, <2>1
<1>3. CASE ~\E x, y \in S : x # y
  <2>1. S = {} \/ \E x : S = {x}
    BY <1>3
  <2>2. Cardinality(S) = 0 \/ Cardinality(S) = 1
    BY <1>1, <2>1
  <2>3. ~(Cardinality(S) > 1)
    BY <2>2
  <2> QED
    BY <1>3, <2>3
<1> QED
  BY <1>2, <1>3

Text(h, s) == h[s].value.text

\* The places whose entries have the password of the one at place n.
Mates(h, ids, n) ==
  {m \in DOMAIN ids : /\ Readable(h[ids[m]]) /\ Readable(h[ids[n]])
                      /\ Text(h, ids[m]) = Text(h, ids[n])}

\* The report has a row for each entry, with what is found in it; those that share a
\* password have a group.
ReportOf(done, h, p, ids) ==
  /\ DOMAIN done.rows = DOMAIN ids
  /\ \A n \in DOMAIN ids :
       LET row == done.rows[n]
           shared == \E m \in Mates(h, ids, n) : m # n
       IN  /\ row.id = ids[n] /\ row.vault = p[ids[n]]
           /\ row.findings = IF shared THEN Found(h[ids[n]]) \cup {"ReusedPassword"}
                             ELSE Found(h[ids[n]])
           /\ row.group = IF shared THEN Min(Mates(h, ids, n)) ELSE Nil

LEMMA MatesAre ==
  ASSUME NEW h, NEW S, NEW ids, Lists(ids, S), NEW n \in DOMAIN ids
  PROVE  /\ {q.at : q \in {x \in PrintsOf(h, ids) :
                             \E r \in PrintsOf(h, ids) : r.at = n /\ r.text = x.text}}
              = Mates(h, ids, n)
         /\ IsFiniteSet(Mates(h, ids, n)) /\ Mates(h, ids, n) \subseteq Nat
         /\ \A m \in Mates(h, ids, n) : n \in Mates(h, ids, n)
<1>1. Len(ids) \in Nat /\ DOMAIN ids = 1..Len(ids)
  BY ListsFacts
<1> DEFINE P(m) == [text |-> Text(h, ids[m]), at |-> m]
           OK == {k \in DOMAIN ids : Readable(h[ids[k]])}
           prints == PrintsOf(h, ids)
           mine == {x \in prints : \E r \in prints : r.at = n /\ r.text = x.text}
<1>2. prints = {P(m) : m \in OK}
  BY DEF PrintsOf, Text
<1>3. \A m \in OK : P(m).text = Text(h, ids[m]) /\ P(m).at = m
  OBVIOUS
<1> HIDE DEF P, prints
<1>4. \A m \in Mates(h, ids, n) : m \in OK /\ n \in OK /\ Text(h, ids[m]) = Text(h, ids[n])
  BY DEF Mates
<1>5. \A m \in OK : n \in OK /\ Text(h, ids[m]) = Text(h, ids[n]) => m \in Mates(h, ids, n)
  BY DEF Mates
<1> HIDE DEF OK
<1>6. ASSUME NEW q \in mine PROVE q.at \in Mates(h, ids, n)
  <2>1. PICK r \in prints : r.at = n /\ r.text = q.text /\ q \in prints
    BY <1>6
  <2>2. PICK m \in OK, k \in OK : q = P(m) /\ r = P(k)
    BY <1>2, <2>1
  <2>3. k = n /\ q.at = m /\ Text(h, ids[m]) = Text(h, ids[n])
    BY <1>3, <2>1, <2>2
  <2> QED
    BY <1>5, <2>2, <2>3
<1>7. ASSUME NEW m \in Mates(h, ids, n) PROVE \E q \in mine : q.at = m
  <2>1. m \in OK /\ n \in OK /\ Text(h, ids[m]) = Text(h, ids[n])
    BY <1>4
  <2>2. P(m) \in prints /\ P(n) \in prints
    BY <1>2, <2>1
  <2>3. P(m) \in mine
    BY <1>3, <2>1, <2>2
  <2> QED
    BY <1>3, <2>1, <2>3
<1>8. {q.at : q \in mine} = Mates(h, ids, n)
  <2> HIDE DEF mine
  <2> QED
    BY <1>6, <1>7
<1>9. IsFiniteSet(DOMAIN ids)
  <2>1. 1 \in Int /\ Len(ids) \in Int
    BY <1>1
  <2> QED
    BY <1>1, <2>1, FS_Interval, Zenon
<1>10. Mates(h, ids, n) \in SUBSET DOMAIN ids
  BY DEF Mates
<1>11. IsFiniteSet(Mates(h, ids, n))
  BY <1>9, <1>10, FS_Subset, Zenon
<1>12. \A m \in Mates(h, ids, n) : n \in Mates(h, ids, n)
  BY DEF Mates
<1> QED
  BY <1>1, <1>8, <1>10, <1>11, <1>12 DEF prints

LEMMA FinishedIs ==
  ASSUME NEW h, NEW p, NEW w, NEW S, NEW ids, Lists(ids, S),
         w.rows = [n \in DOMAIN ids |-> RowOf(h, p, ids[n])],
         w.prints = PrintsOf(h, ids)
  PROVE  ReportOf(Finished(w), h, p, ids)
<1> DEFINE M(n) == {q.at : q \in {x \in w.prints : \E r \in w.prints : r.at = n /\ r.text = x.text}}
           row(n) == IF Cardinality(M(n)) > 1
                     THEN [w.rows[n] EXCEPT !.findings = @ \cup {"ReusedPassword"}, !.group = Min(M(n))]
                     ELSE w.rows[n]
<1>1. Finished(w).rows = [n \in DOMAIN w.rows |-> row(n)]
  BY DEF Finished, reuse_groups
<1>2. DOMAIN Finished(w).rows = DOMAIN ids /\ \A n \in DOMAIN ids : Finished(w).rows[n] = row(n)
  <2> HIDE DEF row
  <2> QED
    BY <1>1
<1>3. ASSUME NEW n \in DOMAIN ids
      PROVE  LET shared == \E m \in Mates(h, ids, n) : m # n
             IN  /\ row(n).id = ids[n] /\ row(n).vault = p[ids[n]]
                 /\ row(n).findings = IF shared THEN Found(h[ids[n]]) \cup {"ReusedPassword"}
                                      ELSE Found(h[ids[n]])
                 /\ row(n).group = IF shared THEN Min(Mates(h, ids, n)) ELSE Nil
  <2>1. M(n) = Mates(h, ids, n)
    BY MatesAre
  <2> HIDE DEF M
  <2>2. Cardinality(M(n)) > 1 <=> \E m \in Mates(h, ids, n) : m # n
    <3>1. IsFiniteSet(Mates(h, ids, n)) /\ \A m \in Mates(h, ids, n) : n \in Mates(h, ids, n)
      BY MatesAre
    <3>2. Cardinality(Mates(h, ids, n)) > 1 <=> \E x, y \in Mates(h, ids, n) : x # y
      BY <3>1, ManyAre
    <3>3. (\E x, y \in Mates(h, ids, n) : x # y) <=> \E m \in Mates(h, ids, n) : m # n
      BY <3>1
    <3> QED
      BY <2>1, <3>2, <3>3
  <2>3. w.rows[n] = [id |-> ids[n], vault |-> p[ids[n]], findings |-> Found(h[ids[n]]),
                     group |-> Nil]
    BY DEF RowOf
  <2> DEFINE old == w.rows[n]
             new == [old EXCEPT !.findings = @ \cup {"ReusedPassword"}, !.group = Min(M(n))]
  <2>4. /\ old.id = ids[n] /\ old.vault = p[ids[n]] /\ old.findings = Found(h[ids[n]])
        /\ old.group = Nil
    BY <2>3
  <2>5. /\ new.id = ids[n] /\ new.vault = p[ids[n]] /\ new.group = Min(M(n))
        /\ new.findings = Found(h[ids[n]]) \cup {"ReusedPassword"}
    BY <2>3
  <2>6. row(n) = IF \E m \in Mates(h, ids, n) : m # n THEN new ELSE old
    BY <2>2
  <2> HIDE DEF new, old, row
  <2> QED
    BY <2>1, <2>4, <2>5, <2>6
<1> HIDE DEF row
<1> QED
  BY <1>2, <1>3 DEF ReportOf

\* What a report says of the entries, when it was made of the store as it is.
LEMMA ReportIsTrue ==
  ASSUME Stored(held, place), NEW w, WorkOf(w, held, place), w.todo = <<>>,
         report = Finished(w)
  PROVE  ReportTrue
<1>1. PICK ids : /\ Lists(ids, Kept(held, place, w.opened))
                 /\ w.rows = [n \in DOMAIN ids |-> RowOf(held, place, ids[n])]
                 /\ w.prints = PrintsOf(held, ids)
  BY DEF WorkOf
<1>2. ReportOf(report, held, place, ids)
  BY <1>1, FinishedIs
<1>3. report.opened = w.opened /\ report.unavailable = w.unavailable
  BY DEF Finished
<1>4. Within(report.opened) = Kept(held, place, w.opened)
  BY <1>3 DEF Within, Kept
<1>5. RowsOf(report) = ids
  <2>1. ids = [n \in DOMAIN ids |-> ids[n]]
    BY <1>1 DEF Lists
  <2>2. RowsOf(report) = [n \in DOMAIN ids |-> report.rows[n].id]
    BY <1>2 DEF ReportOf, RowsOf
  <2>3. \A n \in DOMAIN ids : report.rows[n].id = ids[n]
    BY <1>2 DEF ReportOf
  <2> QED
    BY <2>1, <2>2, <2>3
<1>6. Cardinality(report.opened) + report.unavailable = Cardinality(Vaults)
  <2>1. Cardinality(w.opened) \in Nat /\ w.unavailable \in Nat /\ Len(w.todo) = 0
    BY FinitelyMany, FS_Subset, FS_CardinalityType DEF WorkOf, VaultsOf
  <2> QED
    BY <1>3, <2>1 DEF WorkOf
<1>7. /\ \A n \in DOMAIN ids : ids[n] \in Secrets /\ held[ids[n]] \in Content
      /\ \A n, m \in DOMAIN ids : ids[n] = ids[m] => n = m
      /\ \A s \in Kept(held, place, w.opened) : \E n \in DOMAIN ids : ids[n] = s
  <2>1. /\ DOMAIN ids = 1..Len(ids)
        /\ \A n \in DOMAIN ids : ids[n] \in Kept(held, place, w.opened)
    BY <1>1, ListsFacts
  <2>2. /\ \A n, m \in 1..Len(ids) : ids[n] = ids[m] => n = m
        /\ \A s \in Kept(held, place, w.opened) : \E n \in 1..Len(ids) : ids[n] = s
    <3> DEFINE K == Kept(held, place, w.opened)
    <3>1. Lists(ids, K)
      BY <1>1
    <3> HIDE DEF K
    <3>2. /\ \A n, m \in 1..Len(ids) : ids[n] = ids[m] => n = m
          /\ \A s \in K : \E n \in 1..Len(ids) : ids[n] = s
      BY <3>1, ListsFacts
    <3> QED
      BY <3>2 DEF K
  <2>3. \A n \in DOMAIN ids : ids[n] \in Secrets /\ held[ids[n]] \in Content
    BY <2>1 DEF Kept, Stored
  <2> QED
    BY <2>1, <2>2, <2>3
\* Two places share a password.
<1>8. \A n, m \in DOMAIN ids : Shares(ids[n], ids[m]) <=> m \in Mates(held, ids, n) /\ m # n
  <2>1. Nil \notin Content
    BY ContentsAreTyped
  <2> QED
    BY <1>7, <2>1 DEF Shares, Mates, Text
<1>9. ASSUME NEW n \in DOMAIN ids
      PROVE  Reused(ids[n], report.opened) <=> \E m \in Mates(held, ids, n) : m # n
  <2>1. ASSUME NEW u \in Within(report.opened), Shares(ids[n], u)
        PROVE  \E m \in Mates(held, ids, n) : m # n
    <3>1. PICK m \in DOMAIN ids : ids[m] = u
      BY <1>4, <1>7
    <3> QED
      BY <1>8, <2>1, <3>1
  <2>2. ASSUME NEW m \in Mates(held, ids, n), m # n
        PROVE  \E u \in Within(report.opened) : Shares(ids[n], u)
    <3>1. m \in DOMAIN ids
      BY DEF Mates
    <3>2. ids[m] \in Within(report.opened)
      BY <1>1, <1>4, <3>1, ListsFacts
    <3> QED
      BY <1>8, <2>2, <3>1, <3>2
  <2> QED
    BY <2>1, <2>2 DEF Reused
<1>10. \A n \in DOMAIN ids : \A m \in Mates(held, ids, n) :
         Min(Mates(held, ids, n)) \in Mates(held, ids, n) /\ Min(Mates(held, ids, n)) # Nil
  <2> SUFFICES ASSUME NEW n \in DOMAIN ids, NEW m \in Mates(held, ids, n)
               PROVE  Min(Mates(held, ids, n)) \in Mates(held, ids, n)
                      /\ Min(Mates(held, ids, n)) # Nil
    OBVIOUS
  <2>1. Mates(held, ids, n) \in SUBSET Nat /\ Mates(held, ids, n) # {}
    BY <1>1, MatesAre
  <2>2. Min(Mates(held, ids, n)) \in Mates(held, ids, n)
    BY <2>1, LeastIs
  <2> QED
    BY <2>1, <2>2, NilIsNothing
<1>11. ASSUME NEW n \in DOMAIN ids
       PROVE  LET row == report.rows[n] IN
              /\ "WeakPassword" \in row.findings <=> Weak(row.id)
              /\ "ReusedPassword" \in row.findings <=> Reused(row.id, report.opened)
              /\ "Unreadable" \in row.findings <=> Unreadable(held[row.id])
              /\ "Expired" \in row.findings <=> held[row.id].expires = "past"
              /\ row.group # Nil <=> Reused(row.id, report.opened)
  <2>1. PICK shared : shared = \E m \in Mates(held, ids, n) : m # n
    OBVIOUS
  <2>2. /\ report.rows[n].id = ids[n]
        /\ report.rows[n].findings = IF \E m \in Mates(held, ids, n) : m # n
                                     THEN Found(held[ids[n]]) \cup {"ReusedPassword"}
                                     ELSE Found(held[ids[n]])
        /\ report.rows[n].group = IF \E m \in Mates(held, ids, n) : m # n
                                  THEN Min(Mates(held, ids, n)) ELSE Nil
    BY <1>2 DEF ReportOf
  <2>3. held[ids[n]] \in Content
    BY <1>7
  <2>4. /\ "WeakPassword" \in Found(held[ids[n]]) <=> Weak(ids[n])
        /\ "ReusedPassword" \notin Found(held[ids[n]])
        /\ "Unreadable" \in Found(held[ids[n]]) <=> Unreadable(held[ids[n]])
        /\ "Expired" \in Found(held[ids[n]]) <=> held[ids[n]].expires = "past"
    BY <2>3, FoundIs DEF Weak
  <2>5. Reused(ids[n], report.opened) <=> \E m \in Mates(held, ids, n) : m # n
    BY <1>9
  <2>6. CASE \E m \in Mates(held, ids, n) : m # n
    BY <1>10, <2>2, <2>4, <2>5, <2>6
  <2>7. CASE ~\E m \in Mates(held, ids, n) : m # n
    BY <2>2, <2>4, <2>5, <2>7
  <2> QED
    BY <2>6, <2>7
<1>12. ASSUME NEW n \in DOMAIN ids, NEW m \in DOMAIN ids, m # n
       PROVE  report.rows[n].group # Nil /\ report.rows[n].group = report.rows[m].group
                <=> Shares(report.rows[n].id, report.rows[m].id)
  <2>1. /\ report.rows[n].id = ids[n] /\ report.rows[m].id = ids[m]
        /\ report.rows[n].group = IF \E k \in Mates(held, ids, n) : k # n
                                  THEN Min(Mates(held, ids, n)) ELSE Nil
        /\ report.rows[m].group = IF \E k \in Mates(held, ids, m) : k # m
                                  THEN Min(Mates(held, ids, m)) ELSE Nil
    BY <1>2 DEF ReportOf
  <2>2. ASSUME Shares(ids[n], ids[m])
        PROVE  report.rows[n].group # Nil /\ report.rows[n].group = report.rows[m].group
    <3>1. m \in Mates(held, ids, n)
      BY <1>8, <2>2
    <3>2. n \in Mates(held, ids, m) /\ Mates(held, ids, n) = Mates(held, ids, m)
      BY <3>1 DEF Mates
    <3> QED
      BY <1>10, <1>12, <2>1, <3>1, <3>2
  <2>3. ASSUME report.rows[n].group # Nil, report.rows[n].group = report.rows[m].group
        PROVE  Shares(ids[n], ids[m])
    <3>1. \E k \in Mates(held, ids, n) : k # n
      BY <2>1, <2>3
    <3>2. \E k \in Mates(held, ids, m) : k # m
      BY <2>1, <2>3
    <3>3. PICK k : k \in Mates(held, ids, n) /\ k \in Mates(held, ids, m)
      BY <1>10, <2>1, <2>3, <3>1, <3>2
    <3>4. m \in Mates(held, ids, n)
      BY <3>3 DEF Mates
    <3> QED
      BY <1>8, <1>12, <3>4
  <2> QED
    BY <2>1, <2>2, <2>3
<1>13. DOMAIN report.rows = DOMAIN ids
  BY <1>2 DEF ReportOf
<1>14. IsInjective(RowsOf(report)) /\ ToSet(RowsOf(report)) = Within(report.opened)
  BY <1>1, <1>4, <1>5 DEF Lists
<1> QED
  BY <1>6, <1>11, <1>12, <1>13, <1>14 DEF ReportTrue

\* The green shield, of such a report.
LEMMA ShieldIsEarned ==
  ASSUME Stored(held, place), NEW w, WorkOf(w, held, place), w.todo = <<>>,
         report = Finished(w)
  PROVE  HealthyEarned
<1> SUFFICES ASSUME Shield = "ok", NEW s \in Within(Vaults)
             PROVE  /\ held[s].kind = "Password" => Readable(held[s])
                    /\ ~Weak(s) /\ ~Reused(s, Vaults)
                    /\ held[s].expires \in {"none", "later"}
                    /\ held[s].details.form \in {"none", "plain", "url"}
                    /\ held[s].details.form = "url" =>
                          held[s].details.url.blank \/ held[s].details.url.scheme = "https"
  BY DEF HealthyEarned
<1>1. PICK ids : /\ Lists(ids, Kept(held, place, w.opened))
                 /\ w.rows = [n \in DOMAIN ids |-> RowOf(held, place, ids[n])]
                 /\ w.prints = PrintsOf(held, ids)
  BY DEF WorkOf
<1>2. ReportOf(report, held, place, ids)
  BY <1>1, FinishedIs
<1>3. affected(report) = {} /\ is_complete(report)
  BY DEF Shield
<1>4. w.opened = Vaults
  <2>1. w.unavailable = 0
    BY <1>3 DEF is_complete, Finished
  <2>2. w.opened \in SUBSET Vaults /\ Cardinality(w.opened) = Cardinality(Vaults)
    <3>1. Cardinality(w.opened) \in Nat /\ Len(w.todo) = 0
      BY FinitelyMany, FS_Subset, FS_CardinalityType DEF WorkOf, VaultsOf
    <3> QED
      BY <2>1, <3>1 DEF WorkOf, VaultsOf
  <2> QED
    BY <2>2, FinitelyMany, FS_Subset
<1>5. Within(Vaults) = Kept(held, place, w.opened) /\ report.opened = Vaults
  BY <1>4 DEF Within, Kept, Finished
<1>6. PICK n \in DOMAIN ids : ids[n] = s
  BY <1>1, <1>5, ListsFacts
<1>7. report.rows[n].findings = {} /\ report.rows[n].id = s
  <2>1. n \in DOMAIN report.rows /\ report.rows[n].id = s
    BY <1>2, <1>6 DEF ReportOf
  <2> QED
    BY <1>3, <2>1 DEF affected
<1>8. Found(held[s]) = {}
  BY ZenonT(60), <1>2, <1>6, <1>7 DEF ReportOf
<1>9. held[s] \in Content
  BY DEF Within, Stored
<1>10. ~Reused(s, Vaults)
  <2>1. ~\E m \in Mates(held, ids, n) : m # n
    BY <1>2, <1>6, <1>7 DEF ReportOf
  <2>2. ASSUME NEW u \in Within(Vaults), Shares(s, u) PROVE FALSE
    <3>1. PICK m \in DOMAIN ids : ids[m] = u
      BY <1>1, <1>5, ListsFacts
    <3>2. m \in Mates(held, ids, n) /\ m # n
      BY <1>6, <2>2, <3>1 DEF Shares, Mates, Text
    <3> QED
      BY <2>1, <3>2
  <2> QED
    BY <2>2 DEF Reused
<1> QED
  BY <1>8, <1>9, <1>10, FoundIs DEF Weak

-----------------------------------------------------------------------------
(* A load of the list, on a store that stays as it is.                        *)

ItemOf(h, p, s) == [id |-> s, vault |-> p[s], kind |-> h[s].kind]

Has(c) == c # Nil /\ c.value.form \in (IF c.kind = "Password" THEN {"text"} ELSE {"text", "binary"})
PrintOf(c) == IF Has(c) /\ c.kind = "Password" THEN c.value.text ELSE Nil
BuiltOf(h, p, s) ==
  [id |-> s, vault |-> p[s], has_secret |-> Has(h[s]), print |-> PrintOf(h[s]),
   is_weak |-> IF PrintOf(h[s]) = Nil THEN FALSE ELSE is_weak_password(PrintOf(h[s]))]

Items(h, p) == {ItemOf(h, p, s) : s \in Secrets}
BuiltRows(h, p) == {BuiltOf(h, p, s) : s \in Secrets}

LoadFields == {"form", "all", "todo", "items", "opened", "rows", "since"}

\* A row for each of the first entries of a list, and the others still to build.
Built(ids, items, rows, h, p) ==
  /\ items \in Seq(Items(h, p)) /\ rows \in Seq(BuiltRows(h, p))
  /\ Len(rows) + Len(items) = Len(ids)
  /\ \A n \in 1..Len(rows) : rows[n] = BuiltOf(h, p, ids[n])
  /\ \A n \in 1..Len(items) : items[n] = ItemOf(h, p, ids[Len(rows) + n])

\* A load has a row for each of the first entries of the vaults it opened, and has
\* listed the others.
Loading(todo, opened, items, rows, h, p) ==
  /\ todo \in Seq(Vaults) /\ IsInjective(todo)
  /\ opened \subseteq Vaults /\ opened \cap ToSet(todo) = {}
  /\ \E ids : Lists(ids, Kept(h, p, opened)) /\ Built(ids, items, rows, h, p)

LEMMA LoadBegins ==
  ASSUME NEW h, NEW p, NEW todo \in Seq(Vaults), IsInjective(todo)
  PROVE  Loading(todo, {}, <<>>, <<>>, h, p)
<1>1. Kept(h, p, {}) = {}
  BY DEF Kept
<1>2. Lists(<<>>, Kept(h, p, {}))
  BY <1>1, NothingListed
<1>3. Built(<<>>, <<>>, <<>>, h, p)
  BY DEF Built
<1> QED
  BY <1>2, <1>3 DEF Loading

LEMMA LoadSkips ==
  ASSUME NEW h, NEW p, NEW todo, NEW opened, NEW items, NEW rows,
         Loading(todo, opened, items, rows, h, p), todo # <<>>
  PROVE  Loading(Tail(todo), opened, items, rows, h, p)
<1>1. /\ todo \in Seq(Vaults) /\ IsInjective(todo)
      /\ opened \subseteq Vaults /\ opened \cap ToSet(todo) = {}
  BY DEF Loading
<1>2. /\ Tail(todo) \in Seq(Vaults) /\ IsInjective(Tail(todo))
      /\ opened \cap ToSet(Tail(todo)) = {}
  BY <1>1, VaultsGoOn, Zenon
<1> QED
  BY <1>1, <1>2, Zenon DEF Loading

LEMMA LoadLists ==
  ASSUME Stored(held, place), NEW todo, NEW opened, NEW rows,
         Loading(todo, opened, <<>>, rows, held, place), todo # <<>>
  PROVE  LET found == list_by_vault(Head(todo)) IN
         Loading(Tail(todo), opened \cup {Head(todo)},
                 [n \in DOMAIN found |-> [id |-> found[n], vault |-> Head(todo),
                                          kind |-> held[found[n]].kind]],
                 rows, held, place)
<1> DEFINE v == Head(todo)
           found == list_by_vault(v)
           items == [n \in DOMAIN found |-> [id |-> found[n], vault |-> v,
                                             kind |-> held[found[n]].kind]]
<1>1. /\ todo \in Seq(Vaults) /\ IsInjective(todo)
      /\ opened \subseteq Vaults /\ opened \cap ToSet(todo) = {}
  BY DEF Loading
<1>2. PICK ids : Lists(ids, Kept(held, place, opened)) /\ Built(ids, <<>>, rows, held, place)
  BY DEF Loading
<1>3. Len(ids) \in Nat /\ DOMAIN ids = 1..Len(ids)
  BY <1>2, ListsFacts
<1>4. /\ rows \in Seq(BuiltRows(held, place)) /\ Len(rows) = Len(ids)
      /\ \A n \in 1..Len(ids) : rows[n] = BuiltOf(held, place, ids[n])
  <2>1. /\ rows \in Seq(BuiltRows(held, place)) /\ Len(rows) + 0 = Len(ids)
        /\ \A n \in 1..Len(rows) : rows[n] = BuiltOf(held, place, ids[n])
    BY <1>2 DEF Built
  <2> QED
    BY <2>1
<1>5. /\ v \in Vaults /\ v \notin opened /\ Tail(todo) \in Seq(Vaults) /\ IsInjective(Tail(todo))
      /\ (opened \cup {v}) \cap ToSet(Tail(todo)) = {}
  BY <1>1, VaultsGoOn, Zenon
<1> DEFINE all == ids \o found
<1>6. Lists(found, Kept(held, place, {v})) /\ Lists(all, Kept(held, place, opened \cup {v}))
  BY <1>1, <1>2, <1>5, VaultListed
<1> HIDE DEF found, v
<1>7. /\ Len(found) \in Nat /\ DOMAIN found = 1..Len(found)
      /\ Len(all) = Len(ids) + Len(found)
      /\ \A n \in 1..Len(ids) : all[n] = ids[n]
      /\ \A n \in 1..Len(found) : all[Len(ids) + n] = found[n]
  <2>1. ids \in Seq(Secrets) /\ found \in Seq(Secrets)
    BY <1>2, <1>6 DEF Lists, Kept
  <2> QED
    BY <2>1
<1> HIDE DEF all
<1>8. \A n \in 1..Len(ids) : rows[n] = BuiltOf(held, place, all[n])
  BY <1>4, <1>7
<1>9. /\ items \in Seq(Items(held, place)) /\ Len(items) = Len(found)
      /\ \A n \in 1..Len(found) : items[n] = ItemOf(held, place, all[Len(ids) + n])
  <2>1. \A n \in 1..Len(found) : place[found[n]] = v /\ found[n] \in Secrets
    BY <1>6, <1>7, ListsFacts DEF Kept
  <2>2. \A n \in 1..Len(found) : items[n] = ItemOf(held, place, found[n])
    BY <1>7, <2>1 DEF ItemOf
  <2>3. DOMAIN items = 1..Len(found) /\ items = [n \in 1..Len(found) |-> items[n]]
    BY <1>7
  <2> HIDE DEF items
  <2>4. items \in [1..Len(found) -> Items(held, place)]
    BY <2>1, <2>2, <2>3 DEF Items
  <2>5. items \in Seq(Items(held, place)) /\ Len(items) = Len(found)
    BY <1>7, <2>3, <2>4
  <2> QED
    BY <1>7, <2>2, <2>5
<1> HIDE DEF items
<1>10. Built(all, items, rows, held, place)
  BY <1>4, <1>7, <1>8, <1>9 DEF Built
<1>11. Loading(Tail(todo), opened \cup {v}, items, rows, held, place)
  BY <1>1, <1>5, <1>6, <1>10, Zenon DEF Loading
<1> QED
  BY <1>11 DEF items, found, v

LEMMA LoadBuilds ==
  ASSUME Stored(held, place), NEW todo, NEW opened, NEW items, NEW rows,
         Loading(todo, opened, items, rows, held, place), items # <<>>
  PROVE  Loading(todo, opened, Tail(items), Append(rows, build_secret_row(Head(items))),
                 held, place)
<1>1. PICK ids : Lists(ids, Kept(held, place, opened)) /\ Built(ids, items, rows, held, place)
  BY DEF Loading
<1>2. /\ items \in Seq(Items(held, place)) /\ rows \in Seq(BuiltRows(held, place))
      /\ Len(rows) + Len(items) = Len(ids)
      /\ \A n \in 1..Len(rows) : rows[n] = BuiltOf(held, place, ids[n])
      /\ \A n \in 1..Len(items) : items[n] = ItemOf(held, place, ids[Len(rows) + n])
  BY <1>1 DEF Built
<1> DEFINE k == Len(rows)
           s == ids[k + 1]
<1>3. k \in Nat /\ Len(items) \in Nat \ {0} /\ Len(ids) \in Nat
  BY <1>1, <1>2, ListsFacts, EmptySeq
<1>4. s \in Secrets
  <2>1. k + 1 \in 1..Len(ids)
    BY <1>2, <1>3
  <2> QED
    BY <1>1, <2>1, ListsFacts DEF Kept
<1>5. Head(items) = ItemOf(held, place, s)
  <2>1. 1 \in 1..Len(items) /\ Head(items) = items[1]
    BY <1>2, <1>3
  <2> QED
    BY <1>2, <2>1
<1>6. /\ Tail(items) \in Seq(Items(held, place)) /\ Len(Tail(items)) = Len(items) - 1
      /\ \A n \in 1..Len(items) - 1 : Tail(items)[n] = items[n + 1]
  BY <1>2, <1>3, HeadTailProperties
<1>7. build_secret_row(Head(items)) = BuiltOf(held, place, s)
  <2>1. /\ Head(items).id = s /\ Head(items).vault = place[s]
        /\ Head(items).kind = held[s].kind
    BY <1>5 DEF ItemOf
  <2> HIDE DEF s
  <2> QED
    BY <2>1, Zenon DEF build_secret_row, BuiltOf, Has, PrintOf
<1> DEFINE last == BuiltOf(held, place, s)
           longer == Append(rows, last)
<1>8. /\ longer \in Seq(BuiltRows(held, place)) /\ Len(longer) = k + 1
      /\ \A n \in 1..k : longer[n] = rows[n]
      /\ longer[k + 1] = last
  <2>1. last \in BuiltRows(held, place)
    BY <1>4 DEF BuiltRows
  <2> HIDE DEF last
  <2> QED
    BY <1>2, <2>1, AppendProperties
<1>9. Built(ids, Tail(items), longer, held, place)
  <2>1. \A n \in 1..(k + 1) : longer[n] = BuiltOf(held, place, ids[n])
    <3>1. \A n \in 1..(k + 1) : n \in 1..k \/ n = k + 1
      BY <1>3
    <3> HIDE DEF longer
    <3> QED
      BY <1>2, <1>8, <3>1
  <2> HIDE DEF longer, last, s
  <2>2. ASSUME NEW n \in 1..Len(items) - 1
        PROVE  Tail(items)[n] = ItemOf(held, place, ids[(k + 1) + n])
    <3>1. n + 1 \in 1..Len(items) /\ k + (n + 1) = (k + 1) + n
      BY <1>3
    <3>2. items[n + 1] = ItemOf(held, place, ids[k + (n + 1)])
      BY <1>2, <3>1
    <3> QED
      BY <1>6, <3>1, <3>2
  <2>3. (k + 1) + (Len(items) - 1) = Len(ids)
    <3>1. k + Len(items) = Len(ids)
      BY <1>2
    <3> HIDE DEF k
    <3> QED
      BY <1>3, <3>1
  <2> QED
    BY <1>6, <1>8, <2>1, <2>2, <2>3 DEF Built
<1>10. Loading(todo, opened, Tail(items), longer, held, place)
  <2> HIDE DEF longer
  <2> QED
    BY <1>1, <1>9 DEF Loading
<1> QED
  BY <1>7, <1>10

\* What the list says of the entries, when it was read from the store as it is.
LEMMA BuiltIs ==
  ASSUME NEW c \in Content
  PROVE  /\ PrintOf(c) # Nil <=> Readable(c)
         /\ Readable(c) => PrintOf(c) = c.value.text
         /\ c.kind = "Password" => (Has(c) <=> Readable(c))
         /\ (IF PrintOf(c) = Nil THEN FALSE ELSE is_weak_password(PrintOf(c)))
              <=> Readable(c) /\ ~Strong(c.value.text)
<1>1. c # Nil
  BY ContentsAreTyped
<1>2. c.value.form = "text" => c.value.text \in DOMAIN Length /\ c.value.text # Nil
  BY PasswordsAreJudged DEF Content, Values
<1>3. Readable(c) => (is_weak_password(c.value.text) <=> ~Strong(c.value.text))
  BY <1>2, VerdictIs DEF Readable
<1> QED
  BY <1>1, <1>2, <1>3 DEF Has, PrintOf, Readable

LEMMA ListIsTrue ==
  ASSUME Stored(held, place), NEW w, Loading(w.todo, w.opened, w.items, w.rows, held, place),
         w.items = <<>>, loaded = render_secret_rows(w)
  PROVE  ListTrue
<1>1. PICK ids : Lists(ids, Kept(held, place, w.opened))
                 /\ Built(ids, w.items, w.rows, held, place)
  BY DEF Loading
<1> DEFINE K == Kept(held, place, w.opened)
<1>2. /\ Len(ids) \in Nat /\ DOMAIN ids = 1..Len(ids)
      /\ \A n \in 1..Len(ids) : ids[n] \in K
      /\ \A n, m \in 1..Len(ids) : ids[n] = ids[m] => n = m
      /\ \A s \in K : \E n \in 1..Len(ids) : ids[n] = s
  <2>1. Lists(ids, K)
    BY <1>1
  <2> HIDE DEF K
  <2> QED
    BY <2>1, ListsFacts
<1>3. /\ w.rows \in Seq(BuiltRows(held, place)) /\ Len(w.rows) = Len(ids)
      /\ \A n \in 1..Len(ids) : w.rows[n] = BuiltOf(held, place, ids[n])
  <2>1. /\ w.rows \in Seq(BuiltRows(held, place)) /\ Len(w.rows) + Len(w.items) = Len(ids)
        /\ \A n \in 1..Len(w.rows) : w.rows[n] = BuiltOf(held, place, ids[n])
    BY <1>1 DEF Built
  <2> QED
    BY <2>1
<1> DEFINE D == 1..Len(ids)
           flag(n) == /\ PrintOf(held[ids[n]]) # Nil
                      /\ \E m \in D \ {n} : PrintOf(held[ids[m]]) = PrintOf(held[ids[n]])
           weak(n) == IF PrintOf(held[ids[n]]) = Nil THEN FALSE
                      ELSE is_weak_password(PrintOf(held[ids[n]]))
<1>4. /\ DOMAIN w.rows = D
      /\ \A n \in D : /\ w.rows[n].id = ids[n] /\ w.rows[n].has_secret = Has(held[ids[n]])
                      /\ w.rows[n].print = PrintOf(held[ids[n]])
                      /\ w.rows[n].is_weak = weak(n)
  <2>1. DOMAIN w.rows = D
    BY <1>3
  <2>2. ASSUME NEW n \in D
        PROVE  /\ w.rows[n].id = ids[n] /\ w.rows[n].has_secret = Has(held[ids[n]])
               /\ w.rows[n].print = PrintOf(held[ids[n]])
               /\ w.rows[n].is_weak = weak(n)
    <3>1. w.rows[n] = BuiltOf(held, place, ids[n])
      BY <1>3
    <3>2. /\ BuiltOf(held, place, ids[n]).id = ids[n]
          /\ BuiltOf(held, place, ids[n]).has_secret = Has(held[ids[n]])
          /\ BuiltOf(held, place, ids[n]).print = PrintOf(held[ids[n]])
          /\ BuiltOf(held, place, ids[n]).is_weak = weak(n)
      BY DEF BuiltOf
    <3> QED
      BY <3>1, <3>2, Zenon
  <2> HIDE DEF weak
  <2> QED
    BY <2>1, <2>2
<1>5. /\ DOMAIN loaded.rows = D
      /\ \A n \in D : /\ loaded.rows[n].id = ids[n]
                      /\ loaded.rows[n].has_secret = Has(held[ids[n]])
                      /\ loaded.rows[n].is_weak = weak(n)
                      /\ loaded.rows[n].is_duplicate = flag(n)
  <2> DEFINE flags == duplicate_flags(w.rows)
             made(n) == [id |-> w.rows[n].id, vault |-> w.rows[n].vault,
                         has_secret |-> w.rows[n].has_secret,
                         is_weak |-> w.rows[n].is_weak, is_duplicate |-> flags[n]]
  <2>1. loaded.rows = finalize_rows(w.rows)
    BY DEF render_secret_rows
  <2>2. DOMAIN w.rows = D
    BY <1>4
  <2>3. ASSUME NEW n \in D PROVE flags[n] = flag(n)
    <3>1. flags[n] = (/\ w.rows[n].print # Nil
                      /\ \E m \in D \ {n} : w.rows[m].print = w.rows[n].print)
      BY <2>2 DEF duplicate_flags
    <3>2. \A m \in D : w.rows[m].print = PrintOf(held[ids[m]])
      BY <1>4
    <3> HIDE DEF flags, D
    <3> QED
      BY <3>1, <3>2
  <2> HIDE DEF flags
  <2>4. finalize_rows(w.rows) = [n \in D |-> made(n)]
    BY <2>2 DEF finalize_rows, flags
  <2>5. \A n \in D : loaded.rows[n] = made(n)
    <3> HIDE DEF made, D
    <3> QED
      BY <2>1, <2>4
  <2>6. DOMAIN loaded.rows = D
    BY <2>1, <2>4
  <2>7. ASSUME NEW n \in D
        PROVE  /\ loaded.rows[n].id = ids[n]
               /\ loaded.rows[n].has_secret = Has(held[ids[n]])
               /\ loaded.rows[n].is_weak = weak(n)
               /\ loaded.rows[n].is_duplicate = flag(n)
    <3>1. /\ loaded.rows[n].id = w.rows[n].id
          /\ loaded.rows[n].has_secret = w.rows[n].has_secret
          /\ loaded.rows[n].is_weak = w.rows[n].is_weak
          /\ loaded.rows[n].is_duplicate = flags[n]
      <4>1. loaded.rows[n] = made(n)
        BY <2>5
      <4>2. /\ made(n).id = w.rows[n].id /\ made(n).has_secret = w.rows[n].has_secret
            /\ made(n).is_weak = w.rows[n].is_weak /\ made(n).is_duplicate = flags[n]
        OBVIOUS
      <4> HIDE DEF D, made
      <4> QED
        BY <4>1, <4>2, Zenon
    <3>2. /\ w.rows[n].id = ids[n] /\ w.rows[n].has_secret = Has(held[ids[n]])
          /\ w.rows[n].is_weak = weak(n)
      BY <1>4
    <3> HIDE DEF D, flag, weak
    <3> QED
      BY <2>3, <3>1, <3>2, Zenon
  <2> HIDE DEF flag, weak, D
  <2> QED
    BY <2>6, <2>7
<1>6. /\ loaded.opened = w.opened
      /\ loaded.badges.weak = Cardinality({n \in D : loaded.rows[n].is_weak})
      /\ loaded.badges.non_compliant = Cardinality({n \in D : loaded.rows[n].is_weak}
                                                   \cup {n \in D : loaded.rows[n].is_duplicate})
  <2> DEFINE rows == finalize_rows(w.rows)
  <2>1. /\ loaded.opened = w.opened /\ loaded.rows = rows
        /\ loaded.badges = apply_filters(rows)
    BY DEF render_secret_rows
  <2>2. DOMAIN rows = D
    BY <1>5, <2>1
  <2> HIDE DEF D, rows
  <2>3. /\ apply_filters(rows).weak = Cardinality({n \in D : rows[n].is_weak})
        /\ apply_filters(rows).non_compliant =
             Cardinality({n \in D : rows[n].is_weak} \cup {n \in D : rows[n].is_duplicate})
    BY <2>2, Zenon DEF apply_filters
  <2> QED
    BY <2>1, <2>3
<1>7. Within(loaded.opened) = K
  BY <1>6 DEF Within, Kept
<1>8. \A n \in D : held[ids[n]] \in Content /\ ids[n] \in Secrets
  BY <1>2 DEF Kept, Stored
<1>9. \A n \in D : weak(n) <=> Weak(ids[n])
  BY <1>8, BuiltIs DEF Weak
<1>10. ASSUME NEW n \in D PROVE flag(n) <=> Reused(ids[n], loaded.opened)
  <2>1. ASSUME NEW m \in D
        PROVE  Shares(ids[n], ids[m]) <=>
                 m # n /\ PrintOf(held[ids[n]]) # Nil
                 /\ PrintOf(held[ids[m]]) = PrintOf(held[ids[n]])
    <3>1. /\ held[ids[n]] \in Content /\ held[ids[m]] \in Content
          /\ held[ids[n]] # Nil /\ held[ids[m]] # Nil
      BY <1>8, ContentsAreTyped
    <3>2. ids[n] = ids[m] <=> n = m
      BY <1>2
    <3> QED
      BY <3>1, <3>2, BuiltIs DEF Shares
  <2>2. Reused(ids[n], loaded.opened) <=> \E m \in D : Shares(ids[n], ids[m])
    BY <1>2, <1>7 DEF Reused
  <2> QED
    BY <2>1, <2>2
<1>11. \A n \in D : held[ids[n]].kind = "Password" => (Has(held[ids[n]]) <=> Readable(held[ids[n]]))
  BY <1>8, BuiltIs
<1> HIDE DEF flag, weak, K
<1>12. RowsOf(loaded) = ids
  <2>1. ids = [n \in D |-> ids[n]]
    BY <1>1, <1>2 DEF Lists
  <2>2. RowsOf(loaded) = [n \in D |-> loaded.rows[n].id]
    BY <1>5 DEF RowsOf
  <2> QED
    BY <1>5, <2>1, <2>2
<1>13. IsInjective(RowsOf(loaded)) /\ ToSet(RowsOf(loaded)) = Within(loaded.opened)
  BY <1>1, <1>7, <1>12 DEF Lists, K
<1>14. IsFiniteSet(K) /\ Lists(ids, K)
  <2>1. K \in SUBSET Secrets
    BY DEF K, Kept
  <2> QED
    BY <1>1, <2>1, FinitelyMany, FS_Subset DEF K
<1>15. loaded.badges.weak = Cardinality({s \in Within(loaded.opened) : Weak(s)})
  <2> DEFINE A == {n \in D : loaded.rows[n].is_weak}
             B == {s \in K : Weak(s)}
  <2>1. \A n \in 1..Len(ids) : n \in A <=> ids[n] \in B
    BY <1>2, <1>5, <1>9
  <2>2. A \in SUBSET (1..Len(ids)) /\ B \in SUBSET K
    OBVIOUS
  <2>3. loaded.badges.weak = Cardinality(A)
    BY <1>6
  <2>4. B = {s \in Within(loaded.opened) : Weak(s)}
    BY <1>7
  <2> HIDE DEF A, B, D
  <2>5. Cardinality(A) = Cardinality(B)
    BY <1>14, <2>1, <2>2, CountIs
  <2> QED
    BY <2>3, <2>4, <2>5
<1>16. loaded.badges.non_compliant =
         Cardinality({s \in Within(loaded.opened) : Weak(s) \/ Reused(s, loaded.opened)})
  <2> DEFINE A == {n \in D : loaded.rows[n].is_weak} \cup {n \in D : loaded.rows[n].is_duplicate}
             B == {s \in K : Weak(s) \/ Reused(s, loaded.opened)}
  <2>1. \A n \in 1..Len(ids) : n \in A <=> ids[n] \in B
    BY <1>2, <1>5, <1>9, <1>10
  <2>2. A \in SUBSET (1..Len(ids)) /\ B \in SUBSET K
    OBVIOUS
  <2>3. loaded.badges.non_compliant = Cardinality(A)
    BY <1>6
  <2>4. B = {s \in Within(loaded.opened) : Weak(s) \/ Reused(s, loaded.opened)}
    BY <1>7
  <2> HIDE DEF A, B, D
  <2>5. Cardinality(A) = Cardinality(B)
    BY <1>14, <2>1, <2>2, CountIs
  <2> QED
    BY <2>3, <2>4, <2>5
<1>17. ASSUME NEW n \in DOMAIN loaded.rows
       PROVE  LET row == loaded.rows[n] IN
              /\ row.is_weak <=> Weak(row.id)
              /\ row.is_duplicate <=> Reused(row.id, loaded.opened)
              /\ held[row.id].kind = "Password" => (row.has_secret <=> Readable(held[row.id]))
  BY <1>5, <1>9, <1>10, <1>11
<1> QED
  BY <1>13, <1>15, <1>16, <1>17 DEF ListTrue

-----------------------------------------------------------------------------
(* The inductive invariant: while no change is left to follow, the worker and  *)
(* the report were made of the store as it is, and so was every load and list  *)
(* begun after the last change.                                               *)

StoreInv ==
  /\ Stored(held, place)
  /\ saving = Rest \/ saving \in [form : {"value"}, id : Secrets, value : Values]
  /\ owed \in Nat /\ due \in Nat /\ changes \in Nat
  /\ due <= owed /\ (saving # Rest => due < owed)

WorkInv ==
  owed = 0 =>
    /\ scan.form # "none" => WorkOf(scan, held, place)
    /\ report.form # "none" =>
         \E w : WorkOf(w, held, place) /\ w.todo = <<>> /\ report = Finished(w)

MenuInv ==
  report.form # "none" =>
    /\ picked = chosen /\ chosen \in {Nil} \cup menu
    /\ menu = {report.rows[n].vault : n \in DOMAIN report.rows}

LoadInv(w) ==
  w.form # "none" =>
    /\ DOMAIN w = LoadFields /\ w.since \in Nat /\ w.since <= changes
    /\ w.since = changes => Loading(w.todo, w.opened, w.items, w.rows, held, place)

LoadedInv ==
  loaded.form # "none" =>
    /\ loaded.since \in Nat /\ loaded.since <= changes
    /\ loaded.since = changes =>
         \E w : /\ Loading(w.todo, w.opened, w.items, w.rows, held, place)
                /\ w.items = <<>> /\ loaded = render_secret_rows(w)

ListInv ==
  /\ scope \in Seq(Vaults) /\ IsInjective(scope)
  /\ DOMAIN load = Loaders
  /\ \A l \in Loaders : LoadInv(load[l])
  /\ LoadedInv

AuditInv == StoreInv /\ WorkInv /\ MenuInv /\ ListInv

LEMMA AuditBegins ==
  AuditInit => AuditInv
<1> SUFFICES ASSUME AuditInit PROVE AuditInv
  OBVIOUS
<1>1. Stored(held, place)
  <2>1. Contents \subseteq Content
    BY ContentsAreTyped
  <2> QED
    BY <2>1 DEF Stored, AuditInit
<1>2. StoreInv
  BY <1>1 DEF StoreInv, AuditInit
<1>3. WorkInv /\ MenuInv /\ LoadedInv
  BY DEF WorkInv, MenuInv, LoadedInv, AuditInit, Rest
<1>4. ListInv
  <2>1. \A l \in Loaders : load[l].form = "none"
    BY DEF AuditInit, Rest
  <2>2. \A l \in Loaders : LoadInv(load[l])
    BY <2>1 DEF LoadInv
  <2> QED
    BY <1>3, <2>2, OrderIs DEF ListInv, AuditInit
<1> QED
  BY <1>2, <1>3, <1>4 DEF AuditInv

-----------------------------------------------------------------------------
\* A statement of an edit leaves an entry.
LEMMA EditsAreEntries ==
  ASSUME NEW c \in Content, NEW d \in Content, NEW value \in Values
  PROVE  /\ [[c EXCEPT !.details = d.details] EXCEPT !.expires = d.expires] \in Content
         /\ [c EXCEPT !.value = value] \in Content
BY DEF Content

LEMMA StoreKept ==
  ASSUME StoreInv, AuditNext
  PROVE  StoreInv'
<1> USE DEF StoreInv, Stored
<1>1. Nil \notin Content /\ Contents \subseteq Content /\ Nil \notin Vaults
  BY ContentsAreTyped, NilIsNothing
<1>2. ASSUME NEW s \in Secrets, Create(s) PROVE StoreInv'
  BY <1>1, <1>2 DEF Create, Starts, Commit
<1>3. ASSUME NEW s \in Secrets, SaveDetails(s) PROVE StoreInv'
  <2>1. PICK content \in Contents :
          /\ held' = [held EXCEPT ![s].details = content.details, ![s].expires = content.expires]
          /\ saving' = [form |-> "value", id |-> s, value |-> content.value]
    BY <1>3 DEF SaveDetails
  <2>2. held[s] \in Content /\ content \in Content /\ held[s] # Nil
    BY <1>1, <1>3 DEF SaveDetails
  <2>3. content.value \in Values
    BY <2>2 DEF Content
  <2> DEFINE new == [[held[s] EXCEPT !.details = content.details] EXCEPT !.expires = content.expires]
  <2>4. new \in Content
    BY <2>2, <2>3, EditsAreEntries
  <2>5. held' = [held EXCEPT ![s] = new]
    BY <2>1
  <2> HIDE DEF new
  <2>6. Stored(held', place')
    BY <1>1, <1>3, <2>2, <2>4, <2>5 DEF SaveDetails
  <2>7. saving' \in [form : {"value"}, id : Secrets, value : Values]
    BY <2>1, <2>3
  <2>8. owed' = owed + 1 /\ due' = due /\ changes' = changes + 1
    BY <1>3 DEF SaveDetails, Starts
  <2> QED
    BY <2>6, <2>7, <2>8
<1>4. ASSUME SaveValue PROVE StoreInv'
  <2>1. /\ saving \in [form : {"value"}, id : Secrets, value : Values]
        /\ due < owed /\ owed' = owed /\ place' = place /\ saving' = Rest
    BY <1>4 DEF SaveValue
  <2>2. CASE held[saving.id] = Nil
    BY <1>4, <2>1, <2>2 DEF SaveValue
  <2>3. CASE held[saving.id] # Nil
    <3>1. /\ held' = [held EXCEPT ![saving.id].value = saving.value]
          /\ changes' = changes + 1 /\ due' = due + 1
      BY <1>4, <2>3 DEF SaveValue, Commit
    <3>2. saving.id \in Secrets /\ saving.value \in Values /\ held[saving.id] \in Content
      BY <2>1, <2>3
    <3>3. [held[saving.id] EXCEPT !.value = saving.value] \in Content
      BY <3>2, EditsAreEntries
    <3>4. PICK new \in Content : held' = [held EXCEPT ![saving.id] = new]
      BY <3>1, <3>3
    <3>5. Stored(held', place')
      BY <1>1, <2>1, <2>3, <3>2, <3>4
    <3> QED
      BY <2>1, <3>1, <3>5
  <2> QED
    BY <2>2, <2>3
<1>5. CASE FailValue
  BY <1>5 DEF FailValue, store
<1>6. ASSUME NEW s \in Secrets, Move(s) PROVE StoreInv'
  BY <1>1, <1>6 DEF Move, Starts, Commit
<1>7. ASSUME NEW s \in Secrets, SoftDelete(s) PROVE StoreInv'
  BY <1>1, <1>7 DEF SoftDelete, Starts, Commit
<1>8. CASE Callback
  BY <1>8 DEF Callback, store
<1>9. CASE CentreNext
  <2>1. UNCHANGED <<held, place, owed, due, saving, changes>>
    BY <1>9 DEF CentreNext, ArmedFires, AskScan, StartScan, CancelScan, ScanVault, FinishScan,
       FailScan, ChooseFilter, ChooseVault, ShowMore, store, writers
  <2> QED
    BY <2>1
<1>10. CASE ListNext
  <2>1. UNCHANGED <<held, place, owed, due, saving, changes>>
    BY <1>10 DEF ListNext, ChooseScope, ListVault, SkipVault, BuildRow, LandLoad, store, writers
  <2> QED
    BY <2>1
<1> QED
  BY <1>2, <1>3, <1>4, <1>5, <1>6, <1>7, <1>8, <1>9, <1>10 DEF AuditNext, StoreNext

\* What a step of the store leaves to follow.
LEMMA StoreSteps ==
  ASSUME StoreInv, StoreNext, ~Callback
  PROVE  /\ owed' \in Nat \ {0}
         /\ UNCHANGED <<centre, view, lists>>
         /\ \/ changes' = changes + 1
            \/ UNCHANGED <<held, place, changes>>
<1>1. CASE \E s \in Secrets : Create(s) \/ SaveDetails(s) \/ Move(s) \/ SoftDelete(s)
  <2>1. owed' = owed + 1 /\ changes' = changes + 1 /\ UNCHANGED <<centre, view, lists>>
    BY <1>1 DEF Create, SaveDetails, Move, SoftDelete, Starts, Commit
  <2> QED
    BY <2>1 DEF StoreInv
<1>2. CASE SaveValue
  <2>1. owed' = owed /\ owed # 0
    BY <1>2 DEF SaveValue, StoreInv
  <2>2. UNCHANGED <<centre, view, lists>>
        /\ (changes' = changes + 1 \/ UNCHANGED <<held, place, changes>>)
    BY <1>2 DEF SaveValue, Commit
  <2> QED
    BY <2>1, <2>2 DEF StoreInv
<1>3. CASE FailValue
  <2>1. owed' = owed /\ owed # 0
    BY <1>3 DEF FailValue, StoreInv
  <2>2. UNCHANGED <<centre, view, lists>> /\ UNCHANGED <<held, place, changes>>
    BY <1>3 DEF FailValue, store
  <2> QED
    BY <2>1, <2>2 DEF StoreInv
<1> QED
  BY <1>1, <1>2, <1>3 DEF StoreNext

LEMMA WorkKept ==
  ASSUME StoreInv, WorkInv, AuditNext
  PROVE  WorkInv'
<1>1. CASE StoreNext /\ ~Callback
  BY <1>1, StoreSteps DEF WorkInv
<1>2. CASE Callback
  BY <1>2 DEF Callback, Invalidate, Rest, WorkInv
<1>3. ASSUME StartScan PROVE WorkInv'
  <2>1. scan' = Begun /\ report' = Rest
    BY <1>3 DEF StartScan, Begun
  <2>2. WorkOf(Begun, held', place')
    BY WorkBegins
  <2> QED
    BY <2>1, <2>2 DEF WorkInv, Rest
<1>4. CASE CancelScan \/ FailScan
  <2>1. scan' = Rest /\ UNCHANGED <<held, place, owed, report>>
    BY <1>4 DEF CancelScan, FailScan, store, writers
  <2> QED
    BY <2>1 DEF WorkInv, Rest
<1>5. CASE ScanVault
  <2>1. UNCHANGED <<held, place, owed, report>> /\ scan.form # "none" /\ scan.todo # <<>>
    BY <1>5 DEF ScanVault, busy, store, writers
  <2>2. \/ scan' = analyze_vault(scan, Head(scan.todo))
        \/ scan' = [scan EXCEPT !.todo = Tail(@), !.unavailable = @ + 1]
    BY <1>5 DEF ScanVault
  <2>3. ASSUME owed = 0 PROVE WorkOf(scan', held, place)
    <3>1. WorkOf(scan, held, place) /\ Stored(held, place)
      BY <2>1, <2>3 DEF WorkInv, StoreInv
    <3>2. /\ WorkOf(analyze_vault(scan, Head(scan.todo)), held, place)
          /\ WorkOf([scan EXCEPT !.todo = Tail(@), !.unavailable = @ + 1], held, place)
      BY <2>1, <3>1, WorkOpens, WorkSkips
    <3> QED
      BY <2>2, <3>2
  <2> QED
    BY <2>1, <2>3 DEF WorkInv
<1>6. CASE FinishScan
  <2>1. /\ scan' = Rest /\ report' = Finished(scan) /\ UNCHANGED <<held, place, owed>>
        /\ scan.form # "none" /\ scan.todo = <<>>
    BY <1>6 DEF FinishScan, set_report, busy, store, writers
  <2> QED
    BY <2>1 DEF WorkInv, Rest
<1>7. CASE ChooseFilter \/ ChooseVault \/ ShowMore \/ ListNext
  <2>1. UNCHANGED <<held, place, owed, scan, report>>
    BY <1>7 DEF ChooseFilter, ChooseVault, ShowMore, ListNext, ChooseScope, ListVault,
       SkipVault, BuildRow, LandLoad, store, writers, centre
  <2> QED
    BY <2>1 DEF WorkInv
<1> QED
  BY <1>1, <1>2, <1>3, <1>4, <1>5, <1>6, <1>7 DEF AuditNext, CentreNext, StoreNext,
     ArmedFires, AskScan

LEMMA MenuKept ==
  ASSUME StoreInv, MenuInv, AuditNext
  PROVE  MenuInv'
<1>1. CASE StoreNext /\ ~Callback
  BY <1>1, StoreSteps DEF MenuInv, centre, view
<1>2. CASE Callback \/ StartScan
  BY <1>2 DEF Callback, StartScan, Invalidate, Rest, MenuInv
<1>3. CASE FinishScan
  BY <1>3 DEF FinishScan, set_report, MenuInv
<1>4. CASE ChooseVault
  BY <1>4 DEF ChooseVault, MenuInv, centre
<1>5. CASE CancelScan \/ ScanVault \/ FailScan \/ ChooseFilter \/ ShowMore \/ ListNext
  <2>1. UNCHANGED <<report, picked, chosen, menu>>
    BY <1>5 DEF CancelScan, ScanVault, FailScan, ChooseFilter, ShowMore, ListNext, ChooseScope,
       ListVault, SkipVault, BuildRow, LandLoad, centre, view
  <2> QED
    BY <2>1 DEF MenuInv
<1> QED
  BY <1>1, <1>2, <1>3, <1>4, <1>5 DEF AuditNext, CentreNext, StoreNext, ArmedFires, AskScan

LEMMA RefreshKept ==
  ASSUME StoreInv, ListInv, NEW vaults \in Seq(Vaults), IsInjective(vaults),
         refresh_secret_flow(vaults), UNCHANGED <<held, place, changes>>
  PROVE  /\ DOMAIN load' = Loaders
         /\ \A l \in Loaders : LoadInv(load[l])'
         /\ LoadedInv'
<1> DEFINE slot == CHOOSE l \in Free : TRUE
           new == [form |-> "run", all |-> vaults = Order, todo |-> vaults, items |-> <<>>,
                   opened |-> {}, rows |-> <<>>, since |-> changes]
<1>1. slot \in Loaders
  BY DEF refresh_secret_flow, Free
<1>2. load' = [load EXCEPT ![slot] = new] /\ loaded' = loaded
  BY DEF refresh_secret_flow
<1>3. /\ DOMAIN new = LoadFields /\ new.since = changes
      /\ new.todo = vaults /\ new.items = <<>> /\ new.opened = {} /\ new.rows = <<>>
  BY DEF LoadFields
<1>4. Loading(vaults, {}, <<>>, <<>>, held, place)
  BY LoadBegins
<1> HIDE DEF slot, new
<1>5. DOMAIN load' = Loaders
  BY <1>2 DEF ListInv
<1>6. ASSUME NEW l \in Loaders PROVE LoadInv(load[l])'
  <2>1. CASE l = slot
    <3>1. load'[l] = new
      BY <1>2, <2>1 DEF ListInv
    <3>2. new.since \in Nat /\ new.since <= changes
      BY <1>3 DEF StoreInv
    <3>3. Loading(new.todo, new.opened, new.items, new.rows, held, place)
      BY <1>3, <1>4
    <3> QED
      BY <1>3, <3>1, <3>2, <3>3 DEF LoadInv
  <2>2. CASE l # slot
    <3>1. load'[l] = load[l]
      BY <1>2, <2>2 DEF ListInv
    <3> QED
      BY <3>1 DEF ListInv, LoadInv
  <2> QED
    BY <2>1, <2>2
<1>7. LoadedInv'
  BY <1>2 DEF ListInv, LoadedInv
<1> QED
  BY <1>5, <1>6, <1>7

\* One load goes on, the store as it is.
LEMMA LoadKept ==
  ASSUME ListInv, NEW l \in Loaders, NEW new, load' = [load EXCEPT ![l] = new],
         LoadInv(new), UNCHANGED <<held, place, changes, scope>>, LoadedInv'
  PROVE  ListInv'
<1>1. DOMAIN load' = Loaders
  BY DEF ListInv
<1>2. ASSUME NEW m \in Loaders PROVE LoadInv(load[m])'
  <2>1. load'[m] = new \/ load'[m] = load[m]
    BY DEF ListInv
  <2>2. LoadInv(load'[m])
    BY <2>1 DEF ListInv
  <2> QED
    BY <2>2 DEF LoadInv
<1> QED
  BY <1>1, <1>2 DEF ListInv

LEMMA ListKept ==
  ASSUME StoreInv, ListInv, AuditNext
  PROVE  ListInv'
<1>1. CASE StoreNext /\ ~Callback
  <2>1. UNCHANGED <<scope, loaded, load>>
    BY <1>1, StoreSteps DEF lists
  <2>2. CASE changes' = changes + 1
    <3>1. changes \in Nat
      BY DEF StoreInv
    <3>2. \A n \in Nat : n <= changes => n <= changes' /\ n # changes'
      BY <2>2, <3>1
    <3>3. \A l \in Loaders : LoadInv(load[l])'
      BY <2>1, <3>2 DEF ListInv, LoadInv
    <3>4. LoadedInv'
      BY <2>1, <3>2 DEF ListInv, LoadedInv
    <3> QED
      BY <2>1, <3>3, <3>4 DEF ListInv
  <2>3. CASE UNCHANGED <<held, place, changes>>
    BY <2>1, <2>3 DEF ListInv, LoadInv, LoadedInv
  <2> QED
    BY <1>1, <2>2, <2>3, StoreSteps
<1>2. CASE Callback
  <2>1. refresh_secret_flow(scope) /\ UNCHANGED <<held, place, changes, scope>>
    BY <1>2 DEF Callback, store
  <2> QED
    BY <2>1, RefreshKept DEF ListInv
<1>3. CASE CentreNext
  <2>1. UNCHANGED <<held, place, changes, scope, loaded, load>>
    BY <1>3 DEF CentreNext, ArmedFires, AskScan, StartScan, CancelScan, ScanVault, FinishScan,
       FailScan, ChooseFilter, ChooseVault, ShowMore, store, lists
  <2> QED
    BY <2>1 DEF ListInv, LoadInv, LoadedInv
<1>4. CASE ChooseScope
  <2>1. refresh_secret_flow(scope') /\ UNCHANGED <<held, place, changes>>
        /\ (scope' = Order \/ \E v \in Vaults : scope' = <<v>>)
    BY <1>4 DEF ChooseScope, store
  <2>2. scope' \in Seq(Vaults) /\ IsInjective(scope')
    <3>1. \A v \in Vaults : <<v>> \in Seq(Vaults) /\ IsInjective(<<v>>)
      BY DEF IsInjective
    <3> QED
      BY <2>1, <3>1, OrderIs
  <2> QED
    BY <2>1, <2>2, RefreshKept DEF ListInv
<1>5. ASSUME NEW l \in Loaders, ListVault(l) PROVE ListInv'
  <2> DEFINE w == load[l]
             v == Head(w.todo)
             found == [n \in DOMAIN list_by_vault(v) |->
                         [id |-> list_by_vault(v)[n], vault |-> v,
                          kind |-> held[list_by_vault(v)[n]].kind]]
             new == [[[w EXCEPT !.todo = Tail(@)] EXCEPT !.opened = @ \cup {v}]
                       EXCEPT !.items = found]
  <2>1. w.form = "run" /\ w.items = <<>> /\ w.todo # <<>>
        /\ UNCHANGED <<held, place, changes, scope, loaded>>
    BY <1>5 DEF ListVault, store
  <2>2. load' = [[[load EXCEPT ![l].todo = Tail(@)] EXCEPT ![l].opened = @ \cup {v}]
                   EXCEPT ![l].items = found]
    BY <1>5 DEF ListVault
  <2>3. load' = [load EXCEPT ![l] = new]
    <3> HIDE DEF found
    <3> QED
      BY <2>2 DEF ListInv
  <2>4. LoadInv(w)
    BY DEF ListInv
  <2>5. DOMAIN w = LoadFields
    BY <2>1, <2>4 DEF LoadInv
  <2>6. /\ DOMAIN new = LoadFields /\ new.todo = Tail(w.todo) /\ new.opened = w.opened \cup {v}
        /\ new.items = found /\ new.rows = w.rows /\ new.since = w.since
    <3> HIDE DEF found, w, v
    <3> QED
      BY <2>5 DEF LoadFields
  <2>7. ASSUME w.since = changes
        PROVE  Loading(Tail(w.todo), w.opened \cup {v}, found, w.rows, held, place)
    <3>1. Loading(w.todo, w.opened, <<>>, w.rows, held, place)
      BY <2>1, <2>4, <2>7 DEF LoadInv
    <3>2. Stored(held, place)
      BY DEF StoreInv
    <3> QED
      BY <2>1, <3>1, <3>2, LoadLists
  <2> HIDE DEF new, found, v, w
  <2>8. LoadInv(new)
    BY <2>1, <2>4, <2>6, <2>7 DEF LoadInv
  <2>9. LoadedInv'
    BY <2>1 DEF ListInv, LoadedInv
  <2> QED
    BY <2>1, <2>3, <2>8, <2>9, LoadKept
<1>6. ASSUME NEW l \in Loaders, SkipVault(l) PROVE ListInv'
  <2> DEFINE w == load[l]
             new == [w EXCEPT !.todo = Tail(@)]
  <2>1. w.form = "run" /\ w.todo # <<>> /\ UNCHANGED <<held, place, changes, scope>>
    BY <1>6 DEF SkipVault, store
  <2>2. \/ load' = [load EXCEPT ![l].todo = Tail(@)] /\ loaded' = loaded
        \/ load' = [load EXCEPT ![l] = Rest] /\ loaded' = Rest
    BY <1>6 DEF SkipVault
  <2>3. LoadInv(w)
    BY DEF ListInv
  <2>4. CASE load' = [load EXCEPT ![l].todo = Tail(@)] /\ loaded' = loaded
    <3>1. load' = [load EXCEPT ![l] = new]
      BY <2>4 DEF ListInv
    <3>2. DOMAIN w = LoadFields
      BY <2>1, <2>3 DEF LoadInv
    <3>3. /\ DOMAIN new = LoadFields /\ new.todo = Tail(w.todo) /\ new.opened = w.opened
          /\ new.items = w.items /\ new.rows = w.rows /\ new.since = w.since
      <4> HIDE DEF w
      <4> QED
        BY <3>2 DEF LoadFields
    <3> HIDE DEF new, w
    <3>4. LoadInv(new)
      BY <2>1, <2>3, <3>3, LoadSkips DEF LoadInv
    <3>5. LoadedInv'
      BY <2>1, <2>4 DEF ListInv, LoadedInv
    <3> QED
      BY <2>1, <3>1, <3>4, <3>5, LoadKept
  <2>5. CASE load' = [load EXCEPT ![l] = Rest] /\ loaded' = Rest
    <3>1. LoadInv(Rest) /\ LoadedInv'
      BY <2>5 DEF LoadInv, LoadedInv, Rest
    <3> QED
      BY <2>1, <2>5, <3>1, LoadKept
  <2> QED
    BY <2>2, <2>4, <2>5
<1>7. ASSUME NEW l \in Loaders, BuildRow(l) PROVE ListInv'
  <2> DEFINE w == load[l]
             row == build_secret_row(Head(w.items))
             new == [[w EXCEPT !.items = Tail(@)] EXCEPT !.rows = Append(@, row)]
  <2>1. w.form = "run" /\ w.items # <<>> /\ UNCHANGED <<held, place, changes, scope, loaded>>
    BY <1>7 DEF BuildRow, store
  <2>2. load' = [[load EXCEPT ![l].items = Tail(@)] EXCEPT ![l].rows = Append(@, row)]
    BY <1>7 DEF BuildRow
  <2>3. load' = [load EXCEPT ![l] = new]
    <3> HIDE DEF row
    <3> QED
      BY <2>2 DEF ListInv
  <2>4. LoadInv(w)
    BY DEF ListInv
  <2>5. DOMAIN w = LoadFields
    BY <2>1, <2>4 DEF LoadInv
  <2>6. /\ DOMAIN new = LoadFields /\ new.todo = w.todo /\ new.opened = w.opened
        /\ new.items = Tail(w.items) /\ new.rows = Append(w.rows, row) /\ new.since = w.since
    <3> HIDE DEF row, w
    <3> QED
      BY <2>5 DEF LoadFields
  <2>7. ASSUME w.since = changes
        PROVE  Loading(w.todo, w.opened, Tail(w.items), Append(w.rows, row), held, place)
    <3>1. Loading(w.todo, w.opened, w.items, w.rows, held, place)
      BY <2>1, <2>4, <2>7 DEF LoadInv
    <3>2. Stored(held, place)
      BY DEF StoreInv
    <3> QED
      BY <2>1, <3>1, <3>2, LoadBuilds
  <2> HIDE DEF new, row, w
  <2>8. LoadInv(new)
    BY <2>1, <2>4, <2>6, <2>7 DEF LoadInv
  <2>9. LoadedInv'
    BY <2>1 DEF ListInv, LoadedInv
  <2> QED
    BY <2>1, <2>3, <2>8, <2>9, LoadKept
<1>8. ASSUME NEW l \in Loaders, LandLoad(l) PROVE ListInv'
  <2>1. /\ load[l].form = "run" /\ load[l].items = <<>>
        /\ UNCHANGED <<held, place, changes, scope>>
        /\ load' = [load EXCEPT ![l] = Rest] /\ loaded' = render_secret_rows(load[l])
    BY <1>8 DEF LandLoad, store
  <2>2. LoadInv(load[l])
    BY DEF ListInv
  <2>3. loaded'.since = load[l].since
    BY <2>1 DEF render_secret_rows
  <2>4. LoadedInv'
    BY <2>1, <2>2, <2>3 DEF LoadInv, LoadedInv
  <2>5. LoadInv(Rest)
    BY DEF LoadInv, Rest
  <2> QED
    BY <2>1, <2>4, <2>5, LoadKept
<1> QED
  BY <1>1, <1>2, <1>3, <1>4, <1>5, <1>6, <1>7, <1>8 DEF AuditNext, ListNext

LEMMA AuditHolds ==
  AuditSpec => []AuditInv
<1>1. AuditInv /\ [AuditNext]_auditVars => AuditInv'
  <2> SUFFICES ASSUME AuditInv, [AuditNext]_auditVars PROVE AuditInv'
    OBVIOUS
  <2>1. CASE AuditNext
    BY <2>1, StoreKept, WorkKept, MenuKept, ListKept DEF AuditInv
  <2>2. CASE UNCHANGED auditVars
    BY <2>2 DEF auditVars, store, writers, centre, view, lists, AuditInv, StoreInv, WorkInv,
       MenuInv, ListInv, LoadInv, LoadedInv
  <2> QED
    BY <2>1, <2>2
<1> QED
  BY <1>1, AuditBegins, PTL DEF AuditSpec

\* What the pages say of the entries is so: a report whose changes were all followed,
\* the shield it earns, the menu above it and a list read after the last change, on
\* every set of entries, vaults and passwords.
THEOREM PagesAreTrue == AuditSpec => []PagesTrue
<1>1. AuditInv => PagesTrue
  <2> SUFFICES ASSUME AuditInv PROVE PagesTrue
    OBVIOUS
  <2>1. Stored(held, place)
    BY DEF AuditInv, StoreInv
  <2>2. ASSUME report.form # "none", owed = 0 PROVE ReportTrue /\ HealthyEarned
    <3>1. PICK w : WorkOf(w, held, place) /\ w.todo = <<>> /\ report = Finished(w)
      BY <2>2 DEF AuditInv, WorkInv
    <3> QED
      BY <2>1, <3>1, ReportIsTrue, ShieldIsEarned
  <2>3. ReportTrue /\ HealthyEarned
    <3>1. Shield = "ok" => report.form # "none"
      BY DEF Shield
    <3> QED
      BY <2>2, <3>1 DEF ReportTrue, HealthyEarned
  <2>4. MenuHonest
    BY DEF AuditInv, MenuInv, MenuHonest
  <2>5. ListTrue
    <3> SUFFICES ASSUME loaded.form # "none", loaded.since = changes PROVE ListTrue
      BY DEF ListTrue
    <3>1. PICK w : /\ Loading(w.todo, w.opened, w.items, w.rows, held, place)
                   /\ w.items = <<>> /\ loaded = render_secret_rows(w)
      BY DEF AuditInv, ListInv, LoadedInv
    <3> QED
      BY <2>1, <3>1, ListIsTrue
  <2> QED
    BY <2>3, <2>4, <2>5 DEF PagesTrue
<1> QED
  BY <1>1, AuditHolds, PTL

=============================================================================
