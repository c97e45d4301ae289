------------------------------- MODULE SignIn -------------------------------
(* From an empty database to a main window: the first account               *)
(* (bootstrap_flow, admin_service), the sign-in screen and its attempts      *)
(* (login_dialog, login_flow), the failed-attempt policy                     *)
(* (auth_policy_service) and the second factor (totp_service).               *)
(*                                                                           *)
(* Time is relative: the age of the last failure, the time a code is still   *)
(* remembered, and codes by the number of steps they are ahead of now. A     *)
(* tick is one TOTP step. A count of failures past which the policy tells    *)
(* nothing apart is not counted further.                                     *)
EXTENDS Integers, FiniteSets

CONSTANTS
  Dialogs,        \* sign-in screens
  Attempts,       \* threads of a submitted form
  None,
  MaxFailed,      \* MAX_FAILED_ATTEMPTS
  LockWindow,     \* LOCK_WINDOW_SECS, in ticks
  BackoffMax,     \* BACKOFF_MAX_SECS, in ticks
  ReplayTtl,      \* TOTP_REPLAY_TTL_SECS, in ticks
  Skew            \* TOTP_SKEW: steps a code is accepted early or late

ASSUME SignInAssumption ==
  /\ {MaxFailed, LockWindow, BackoffMax} \subseteq Nat \ {0}
  /\ {Skew, ReplayTtl} \subseteq Nat /\ ReplayTtl >= 2 * Skew + 1
  /\ None \notin Dialogs \union Nat
  /\ IsFiniteSet(Attempts) /\ Attempts # {}

VARIABLES
  account,   \* statements of the first account's creation that were committed
  totp,      \* is a TOTP secret stored?
  failed, age,         \* auth_policy: failures, time since the last or None
  up, loaded, session, \* process, envelope in memory, main window open
  needsBootstrap,
  dialog,    \* sign-in screens
  attempt,   \* threads
  guard,     \* replay_guard: codes with the time they are remembered
  spent,     \* codes this process accepted and that are still in time
  overrun    \* failures recorded while the account was locked

rows == <<account, totp, failed, age>>
process == <<up, loaded, session, needsBootstrap>>
codes == <<guard, spent>>
vars == <<rows, process, dialog, attempt, codes, overrun>>

\* Codes by the step they are valid in, relative to now; anything else is Wrong.
Wrong == 2 * Skew + 2
InTime == (-Skew)..Skew
Aged(code) == IF code - 1 \in InTime THEN code - 1 ELSE Wrong

\* The account's row, its envelope, its sealed key, its recovery verifier.
HasRow == account >= 1
HasEnvelope == account >= 2
Whole == 4

Fresh(page) == [open |-> TRUE, page |-> page, lockActive |-> FALSE, countdown |-> 0]
Closed == [Fresh("credentials") EXCEPT !.open = FALSE]

Outcome(kind, wait) == [kind |-> kind, wait |-> wait]
Idle == [stage |-> "idle", dialog |-> None, form |-> "credentials", right |-> FALSE,
         code |-> Wrong, accepted |-> FALSE, off |-> FALSE, result |-> Outcome("none", 0)]

Init ==
  /\ account \in {0, Whole}
  /\ totp \in IF HasRow THEN BOOLEAN ELSE {FALSE}
  /\ failed = 0 /\ age = None
  /\ up = FALSE /\ loaded = FALSE /\ session = FALSE /\ needsBootstrap = FALSE
  /\ dialog = [d \in Dialogs |-> Closed]
  /\ attempt = [a \in Attempts |-> Idle]
  /\ guard = {} /\ spent = {}
  /\ overrun = 0

----------------------------------------------------------------------------
(* Failed-attempt policy.                                                    *)

Least(m, n) == IF m <= n THEN m ELSE n
Most(m, n) == IF m >= n THEN m ELSE n

Backoff(n) == IF n = 0 THEN 0 ELSE Least(2 ^ (n - 1), BackoffMax)

\* Ages and counts past which the policy tells nothing apart.
OldAge == Most(LockWindow, BackoffMax)
FailCap == Most(MaxFailed, BackoffMax)

RemainingLock(n, t) ==
  IF t = None THEN 0
  ELSE Most(IF n >= MaxFailed /\ t < LockWindow THEN LockWindow - t ELSE 0,
            IF Backoff(n) > t THEN Backoff(n) - t ELSE 0)

IsLocked(n, t) == n >= MaxFailed /\ RemainingLock(n, t) > 0

----------------------------------------------------------------------------
(* The process and its windows.                                              *)

\* No dialog, thread or timer still refers to the screen.
Unused(d) ==
  /\ dialog[d] = Closed
  /\ \A a \in Attempts: attempt[a].dialog # d

Present(d) ==
  /\ Unused(d)
  /\ dialog' = [dialog EXCEPT ![d] =
                  Fresh(IF needsBootstrap' THEN "identity" ELSE "credentials")]

\* An administrator without an envelope counts as none; envelopes are loaded
\* only when one is found.
Start(d) ==
  /\ ~up
  /\ up' = TRUE
  /\ needsBootstrap' = ~HasEnvelope
  /\ loaded' = ~needsBootstrap'
  /\ Present(d)
  /\ UNCHANGED <<rows, session, attempt, codes, overrun>>

\* The process ends: the rows stay.
Stop ==
  /\ up
  /\ up' = FALSE /\ loaded' = FALSE /\ session' = FALSE
  /\ dialog' = [d \in Dialogs |-> Closed]
  /\ attempt' = [a \in Attempts |-> Idle]
  /\ guard' = {} /\ spent' = {}
  /\ UNCHANGED <<rows, needsBootstrap, overrun>>

\* Variant: the end of a countdown leaves the screen taken.
Tick_KeepsLock ==
  /\ up
  /\ age' = IF age = None THEN None ELSE Least(age + 1, OldAge)
  /\ dialog' = [d \in Dialogs |-> [dialog[d] EXCEPT !.countdown = Most(@ - 1, 0)]]
  /\ attempt' = [a \in Attempts |-> [attempt[a] EXCEPT !.code = Aged(@)]]
  /\ guard' = {[code |-> Aged(g.code), left |-> g.left - 1]:
                 g \in {h \in guard: h.left > 1 /\ Aged(h.code) # Wrong}}
  /\ spent' = {Aged(c): c \in spent} \ {Wrong}
  /\ overrun' = IF IsLocked(failed, age') THEN overrun ELSE 0
  /\ UNCHANGED <<account, totp, failed, process>>

\* Countdowns run, codes and memories age; a code out of time matches nothing.
Tick ==
  /\ up
  /\ age' = IF age = None THEN None ELSE Least(age + 1, OldAge)
  /\ dialog' = [d \in Dialogs |->
       IF dialog[d].countdown = 0 THEN dialog[d]
       ELSE [dialog[d] EXCEPT !.countdown = @ - 1,
                              !.lockActive = IF dialog[d].countdown = 1 THEN FALSE ELSE @]]
  /\ attempt' = [a \in Attempts |-> [attempt[a] EXCEPT !.code = Aged(@)]]
  /\ guard' = {[code |-> Aged(g.code), left |-> g.left - 1]:
                 g \in {h \in guard: h.left > 1 /\ Aged(h.code) # Wrong}}
  /\ spent' = {Aged(c): c \in spent} \ {Wrong}
  /\ overrun' = IF IsLocked(failed, age') THEN overrun ELSE 0
  /\ UNCHANGED <<account, totp, failed, process>>

SignOut(d) ==
  /\ session
  /\ session' = FALSE
  /\ UNCHANGED needsBootstrap
  /\ Present(d)
  /\ UNCHANGED <<rows, up, loaded, attempt, codes, overrun>>

\* A secret enrolled again is another one: no code given before is its code.
EnableTotp ==
  /\ session /\ ~totp
  /\ totp' = TRUE
  /\ attempt' = [a \in Attempts |-> [attempt[a] EXCEPT !.code = Wrong]]
  /\ guard' = {} /\ spent' = {}
  /\ UNCHANGED <<account, failed, age, process, dialog, overrun>>

DisableTotp ==
  /\ session /\ totp
  /\ totp' = FALSE
  /\ attempt' = [a \in Attempts |-> [attempt[a] EXCEPT !.off = (attempt[a].stage # "idle")]]
  /\ UNCHANGED <<account, failed, age, process, dialog, codes, overrun>>

----------------------------------------------------------------------------
(* The first account.                                                        *)

\* The identity page draws a phrase and shows it.
ShowPhrase(d) ==
  /\ dialog[d].open /\ dialog[d].page = "identity"
  /\ dialog' = [dialog EXCEPT ![d].page = "oath"]
  /\ UNCHANGED <<rows, process, attempt, codes, overrun>>

\* Two of its words typed back: a thread takes the phrase and creates the account.
ConfirmPhrase(d, a) ==
  /\ dialog[d].open /\ dialog[d].page = "oath"
  /\ attempt[a].stage = "idle"
  /\ dialog' = [dialog EXCEPT ![d].page = "pending"]
  /\ attempt' = [attempt EXCEPT ![a] = [Idle EXCEPT !.stage = "guard", !.dialog = d,
                                          !.form = "identity"]]
  /\ UNCHANGED <<rows, process, codes, overrun>>

\* What a thread that answers, or records a failure, no longer needs is dropped.
Forget(a, stage) == [Idle EXCEPT !.stage = stage, !.dialog = attempt[a].dialog,
                                 !.form = attempt[a].form]
Answer(a, kind, wait) ==
  attempt' = [attempt EXCEPT ![a] = [Forget(a, "answer") EXCEPT !.result = Outcome(kind, wait)]]

BootVars == <<totp, failed, age, up, session, needsBootstrap, dialog, codes, overrun>>

\* Any row refuses a second initialisation.
CheckEmpty(a) ==
  /\ attempt[a].stage = "guard"
  /\ IF HasRow THEN Answer(a, "conflict", 0)
     ELSE attempt' = [attempt EXCEPT ![a].stage = "memory"]
  /\ UNCHANGED <<account, loaded, BootVars>>

\* The envelope goes to memory, then four statements make the account.
LoadEnvelope(a) ==
  /\ attempt[a].stage = "memory"
  /\ attempt' = [attempt EXCEPT ![a].stage = "insert"]
  /\ loaded' = TRUE
  /\ UNCHANGED <<account, BootVars>>

CreateNext(a) ==
  /\ attempt[a].stage = "insert"
  /\ account' = account + 1
  /\ IF account' = Whole THEN Answer(a, "created", 0) ELSE UNCHANGED attempt
  /\ UNCHANGED <<loaded, BootVars>>

\* The screen closes and the sign-in screen follows.
Created(a, d) ==
  /\ attempt[a].stage = "answer" /\ attempt[a].result.kind = "created"
  /\ d = attempt[a].dialog \/ Unused(d)
  /\ needsBootstrap' = FALSE
  /\ dialog' = [dialog EXCEPT ![attempt[a].dialog] = Closed, ![d] = Fresh("credentials")]
  /\ attempt' = [attempt EXCEPT ![a] = Idle]
  /\ UNCHANGED <<rows, up, loaded, session, codes, overrun>>

NotCreated(a) ==
  /\ attempt[a].stage = "answer"
  /\ attempt[a].form = "identity" /\ attempt[a].result.kind # "created"
  /\ dialog' = [dialog EXCEPT ![attempt[a].dialog].page = "identity"]
  /\ attempt' = [attempt EXCEPT ![a] = Idle]
  /\ UNCHANGED <<rows, process, codes, overrun>>

----------------------------------------------------------------------------
(* An attempt.                                                               *)

AttemptVars == <<account, totp, process, dialog>>

\* A check that fails is a failure to record.
GoOn(a, ok, next) ==
  attempt' = [attempt EXCEPT ![a] = IF ok THEN [@ EXCEPT !.stage = next]
                                    ELSE Forget(a, "record")]

\* The credentials page: one attempt, or one countdown, at a time.
Submit(d, a, right) ==
  /\ dialog[d].open /\ dialog[d].page = "credentials" /\ ~dialog[d].lockActive
  /\ attempt[a].stage = "idle"
  /\ dialog' = [dialog EXCEPT ![d].lockActive = TRUE]
  /\ attempt' = [attempt EXCEPT ![a] =
       [Idle EXCEPT !.stage = "check", !.dialog = d, !.right = right, !.off = ~totp]]
  /\ UNCHANGED <<rows, process, codes, overrun>>

\* The code page: Enter reaches the handler whatever the button shows, and the
\* password is read again from its entry.
SubmitCode(d, a, right, code) ==
  /\ dialog[d].open /\ dialog[d].page = "totp"
  /\ attempt[a].stage = "idle"
  /\ attempt' = [attempt EXCEPT ![a] =
       [Idle EXCEPT !.stage = "check", !.dialog = d, !.form = "totp",
                    !.right = right, !.code = code, !.off = ~totp]]
  /\ UNCHANGED <<rows, process, dialog, codes, overrun>>

BackToCredentials(d) ==
  /\ dialog[d].open /\ dialog[d].page = "totp"
  /\ dialog' = [dialog EXCEPT ![d].page = "credentials"]
  /\ UNCHANGED <<rows, process, attempt, codes, overrun>>

\* An identifier that names nobody fails and is not counted.
NobodyThere(a) ==
  /\ attempt[a].stage = "check"
  /\ Answer(a, "invalid", 0)
  /\ UNCHANGED <<failed, age, codes, overrun, AttemptVars>>

\* Variant: the last permitted failure does not lock.
CheckLock_OffByOne(a) ==
  /\ attempt[a].stage = "check"
  /\ HasRow
  /\ IF failed > MaxFailed /\ RemainingLock(failed, age) > 0
     THEN Answer(a, "locked", RemainingLock(failed, age))
     ELSE attempt' = [attempt EXCEPT ![a].stage =
                        IF attempt[a].form = "credentials" THEN "verify" ELSE "secret"]
  /\ UNCHANGED <<failed, age, codes, overrun, AttemptVars>>

CheckLock(a) ==
  /\ attempt[a].stage = "check"
  /\ HasRow
  /\ IF IsLocked(failed, age) THEN Answer(a, "locked", RemainingLock(failed, age))
     ELSE attempt' = [attempt EXCEPT ![a].stage =
                        IF attempt[a].form = "credentials" THEN "verify" ELSE "secret"]
  /\ UNCHANGED <<failed, age, codes, overrun, AttemptVars>>

\* Without an envelope in memory the password cannot be checked: an error.
VerifyPassword(a) ==
  /\ attempt[a].stage = "verify"
  /\ IF ~loaded THEN Answer(a, "error", 0)
     ELSE GoOn(a, attempt[a].right, "second")
  /\ UNCHANGED <<failed, age, codes, overrun, AttemptVars>>

\* Variant: the right password is enough.
AskCode_Never(a) ==
  /\ attempt[a].stage = "second"
  /\ attempt' = [attempt EXCEPT ![a].stage = "derive"]
  /\ UNCHANGED <<failed, age, codes, overrun, AttemptVars>>

AskCode(a) ==
  /\ attempt[a].stage = "second"
  /\ IF totp THEN Answer(a, "code", 0)
     ELSE attempt' = [attempt EXCEPT ![a].stage = "derive"]
  /\ UNCHANGED <<failed, age, codes, overrun, AttemptVars>>

\* verify_login_totp reads the secret first: with none, no code is asked for.
ReadSecret(a) ==
  /\ attempt[a].stage = "secret"
  /\ GoOn(a, totp => attempt[a].right, IF totp THEN "code" ELSE "derive")
  /\ UNCHANGED <<failed, age, codes, overrun, AttemptVars>>

\* A code counts when it is in time and not remembered; then it is remembered.
Accepts(a) ==
  /\ attempt[a].stage = "code"
  /\ attempt[a].code \in InTime
  /\ \A g \in guard: g.code # attempt[a].code

\* Variant: a code is remembered for the steps of its skew and not its own.
CheckCode_ShortMemory(a) ==
  /\ attempt[a].stage = "code"
  /\ IF Accepts(a)
     THEN /\ guard' = guard \union {[code |-> attempt[a].code, left |-> ReplayTtl - 1]}
          /\ spent' = spent \union {attempt[a].code}
          /\ attempt' = [attempt EXCEPT ![a].stage = "derive", ![a].accepted = TRUE]
     ELSE GoOn(a, FALSE, "derive") /\ UNCHANGED codes
  /\ UNCHANGED <<failed, age, overrun, AttemptVars>>

CheckCode(a) ==
  /\ attempt[a].stage = "code"
  /\ IF Accepts(a)
     THEN /\ guard' = guard \union {[code |-> attempt[a].code, left |-> ReplayTtl]}
          /\ spent' = spent \union {attempt[a].code}
          /\ attempt' = [attempt EXCEPT ![a].stage = "derive", ![a].accepted = TRUE]
     ELSE GoOn(a, FALSE, "derive") /\ UNCHANGED codes
  /\ UNCHANGED <<failed, age, overrun, AttemptVars>>

\* The password is checked again, for the key.
DeriveKey(a) ==
  /\ attempt[a].stage = "derive"
  /\ GoOn(a, attempt[a].right, "reset")
  /\ UNCHANGED <<failed, age, codes, overrun, AttemptVars>>

\* One statement counts the failure; another reads what it led to.
RecordFailure(a) ==
  /\ attempt[a].stage = "record"
  /\ attempt' = [attempt EXCEPT ![a].stage = "wait"]
  /\ overrun' = IF IsLocked(failed, age) THEN overrun + 1 ELSE 0
  /\ failed' = Least(failed + 1, FailCap)
  /\ age' = 0
  /\ UNCHANGED <<codes, AttemptVars>>

ReadWait(a) ==
  /\ attempt[a].stage = "wait"
  /\ Answer(a, "invalid", RemainingLock(failed, age))
  /\ UNCHANGED <<failed, age, codes, overrun, AttemptVars>>

\* The profile is read, the counter cleared, and the key handed to the screen.
ResetFailures(a) ==
  /\ attempt[a].stage = "reset"
  /\ failed' = 0 /\ age' = None /\ overrun' = 0
  /\ attempt' = [attempt EXCEPT ![a].stage = "answer",
                                ![a].result = Outcome("success", 0)]
  /\ UNCHANGED <<codes, AttemptVars>>

\* A storage error at any await.
Fails(a) ==
  /\ attempt[a].stage \notin {"idle", "answer"}
  /\ Answer(a, "error", 0)
  /\ UNCHANGED <<rows, process, dialog, codes, overrun>>

----------------------------------------------------------------------------
(* The answer on the screen.                                                 *)

\* start_lock_countdown replaces the countdown that runs.
Countdown(screen, wait) ==
  [screen EXCEPT !.countdown = wait, !.lockActive = wait > 0]

\* The credentials form lets go of the screen whatever the answer; a wait
\* takes it back.
Shown(screen, form, result) ==
  LET s == IF form = "credentials" THEN [screen EXCEPT !.lockActive = FALSE] ELSE screen IN
  IF result.kind = "success" THEN Closed
  ELSE IF result.kind = "code" THEN [s EXCEPT !.page = "totp"]
  ELSE IF result.wait > 0 THEN Countdown(s, result.wait)
  ELSE s

Deliver(a) ==
  LET r == attempt[a] IN
  /\ r.stage = "answer" /\ r.form # "identity"
  /\ dialog' = [dialog EXCEPT ![r.dialog] =
                  IF @.open THEN Shown(@, r.form, r.result) ELSE @]
  /\ session' = (session \/ r.result.kind = "success")
  /\ needsBootstrap' = (needsBootstrap /\ r.result.kind # "success")
  /\ attempt' = [attempt EXCEPT ![a] = Idle]
  /\ UNCHANGED <<rows, up, loaded, codes, overrun>>

----------------------------------------------------------------------------
Thread(a) ==
  \/ CheckEmpty(a) \/ LoadEnvelope(a) \/ CreateNext(a)
  \/ NobodyThere(a) \/ CheckLock(a) \/ VerifyPassword(a) \/ AskCode(a)
  \/ ReadSecret(a) \/ CheckCode(a) \/ DeriveKey(a)
  \/ RecordFailure(a) \/ ReadWait(a) \/ ResetFailures(a)

Screen(a) ==
  \/ Deliver(a) \/ NotCreated(a)
  \/ \E d \in Dialogs: Created(a, d)

User ==
  \/ \E d \in Dialogs: Start(d) \/ SignOut(d) \/ BackToCredentials(d) \/ ShowPhrase(d)
  \/ \E d \in Dialogs, a \in Attempts: ConfirmPhrase(d, a)
  \/ \E d \in Dialogs, a \in Attempts, right \in BOOLEAN:
       \/ Submit(d, a, right)
       \/ \E c \in InTime \union {Wrong}: SubmitCode(d, a, right, c)
  \/ EnableTotp \/ DisableTotp

Next ==
  \/ User \/ Tick \/ Stop
  \/ \E a \in Attempts: Thread(a) \/ Screen(a) \/ Fails(a)

Spec == Init /\ [][Next]_vars

----------------------------------------------------------------------------
(* Properties.                                                               *)

Stages == {"idle", "guard", "memory", "insert", "check", "verify", "second", "secret",
           "code", "derive", "record", "wait", "reset", "answer"}
Kinds == {"none", "conflict", "created", "invalid", "locked", "code", "error", "success"}
Waits == 0..OldAge

\* Type correctness of rows, screens and threads.
TypeOK ==
  /\ account \in 0..Whole /\ totp \in BOOLEAN
  /\ failed \in 0..FailCap /\ age \in Waits \union {None}
  /\ {up, loaded, session, needsBootstrap} \subseteq BOOLEAN
  /\ dialog \in [Dialogs -> [open: BOOLEAN, lockActive: BOOLEAN, countdown: Waits,
                   page: {"identity", "oath", "pending", "credentials", "totp"}]]
  /\ attempt \in [Attempts -> [stage: Stages, dialog: Dialogs \union {None},
                   form: {"identity", "credentials", "totp"},
                   right: BOOLEAN, code: InTime \union {Wrong}, accepted: BOOLEAN,
                   off: BOOLEAN, result: [kind: Kinds, wait: Waits]]]
  /\ guard \subseteq [code: InTime, left: 1..ReplayTtl]
  /\ spent \subseteq InTime
  /\ overrun \in Nat

\* A process never accepts a code twice while the code is in time, on any
\* screen, at once or later: the guard remembers at least as long as the skew
\* lets a code be valid (totp_service reject_replay_and_record).
CodeOpensOnce ==
  [][\A a \in Attempts:
       Accepts(a) /\ attempt'[a].accepted => attempt[a].code \notin spent]_vars

\* While the account is locked, the only failures still recorded are of
\* attempts that had passed the check before, one each (auth_policy_service
\* get_state, record_failed_attempt).
LockHolds == overrun < Cardinality(Attempts)

\* A sign-in succeeds with the right password, and with an accepted code unless
\* the second factor was off at some time of the attempt (login_flow,
\* login_dialog core, totp_service verify_login_totp).
SignInEarned ==
  \A a \in Attempts: attempt[a].result.kind = "success" =>
    /\ attempt[a].right
    /\ attempt[a].accepted \/ attempt[a].off

\* A screen that takes no input is held by an attempt under way, by a countdown
\* or by the creation of the account, whatever the order of answers: none stays
\* closed for good (login_dialog core, lock_state, bootstrap_flow).
Holds(a, d, form) ==
  attempt[a].stage # "idle" /\ attempt[a].dialog = d /\ attempt[a].form = form

ScreenHeld ==
  \A d \in Dialogs:
    /\ dialog[d].lockActive =>
         dialog[d].countdown > 0 \/ \E a \in Attempts: Holds(a, d, "credentials")
    /\ dialog[d].page = "pending" => \E a \in Attempts: Holds(a, d, "identity")
=============================================================================
