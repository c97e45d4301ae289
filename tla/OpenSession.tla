---------------------------- MODULE OpenSession ----------------------------
(***************************************************************************)
(* What an open session leaves around: the copies it puts in the system    *)
(* clipboard (sensitive_clipboard.rs, secret_flow.rs) and the report of    *)
(* the security centre (security_center.rs).  Timers, worker threads and   *)
(* other applications run while the session locks, unlocks, is signed out  *)
(* and while mutations change what the vaults hold.                        *)
(*                                                                         *)
(* The contents of all vaults are a revision number.  A copied value is    *)
(* the number of its copy.  The two builds differ in the clipboard: other  *)
(* systems serve the value on demand, so it can be withdrawn; Windows gets *)
(* it at once, so it must be overwritten.                                  *)
(***************************************************************************)
EXTENDS Naturals, FiniteSets

CONSTANTS None,          \* no copy, no report
          Fetches,       \* slots for threads that decrypt a password to copy
          Scans,         \* slots for workers of the security centre
          MaxCopies,     \* bound on copies
          MaxInputs,     \* bound on what the user does
          MaxMutations,  \* bound on what changes the vaults
          MaxErrors      \* bound on failures

\* What a copy is of.
Kinds == {"password", "login", "phrase"}

ASSUME NoneIsNoNumber == None \notin Nat
ASSUME NoneIsNoCopy == None \notin [copy : Nat, kind : Kinds]
ASSUME BoundsAreNumbers ==
    MaxCopies \in Nat /\ MaxInputs \in Nat /\ MaxMutations \in Nat /\ MaxErrors \in Nat

VARIABLES
    windows,      \* the build
    up,           \* the process runs
    session,      \* number of the main window
    key,          \* session_master_key of that window is not empty
    phrase,       \* a dialog shows a recovery phrase
    clip,         \* what the clipboard holds
    local,        \* is_local: what GDK knows of its owner
    focused,      \* a window of the application is active
    alive,        \* copies whose provider still has its text
    copies,       \* Ledger.generation
    pending,      \* Ledger.pending
    timer,        \* copy the armed timer belongs to
    content,      \* copy the state keeps a provider of
    active,       \* copy the indicator shows, with what was copied
    stuck,        \* copies the system refused to take back
    fetch,        \* threads of PasswordCopier
    rev,          \* revision of what the vaults hold
    asked,        \* revision at the last full refresh
    report,       \* revision the report on screen was computed from
    failed,       \* the last analysis failed
    busy,         \* an analysis is running
    armed,        \* the source that starts one in 250 ms is armed
    scan,         \* workers of the security centre
    inputs, mutations, errors

clipboard == <<clip, local, alive, copies, pending, timer, content, active, stuck>>
centre == <<report, failed, busy, armed, scan>>
bounds == <<inputs, mutations, errors>>
vars == <<windows, up, session, key, phrase, focused, clipboard, fetch, rev, asked,
          centre, bounds>>

-----------------------------------------------------------------------------
(* The clipboard. *)

Rest == [stage |-> "idle"]
Free(slots) == {s \in DOMAIN slots : slots[s].stage = "idle"}
Start(slots, thread) == [slots EXCEPT ![CHOOSE s \in Free(slots) : TRUE] = thread]

Text(of) == [of |-> of, copy |-> None]

\* The copy another application would paste now.
Served == IF windows \/ clip.copy \in alive THEN clip.copy ELSE None

\* Writing over the clipboard.  Elsewhere than on Windows only a focused
\* application is heard; Windows may refuse.
Wipe ==
    \/ clip' = Text("empty") /\ (windows \/ focused) /\ UNCHANGED <<stuck, errors>>
    \/ ~windows /\ ~focused /\ UNCHANGED <<clip, stuck, errors>>
    \/ /\ windows
       /\ errors < MaxErrors /\ errors' = errors + 1
       /\ stuck' = stuck \cup ({clip.copy} \ {None})
       /\ UNCHANGED clip

\* The value is withdrawn from its provider; an eager one keeps it.
Expired_Kept(held) == alive
Expired(held) == alive \ {held}

\* Ends the current copy.
ClearNow ==
    /\ timer' = None
    /\ alive' = Expired(content) /\ content' = None
    /\ active' = None
    /\ pending' = FALSE
    /\ IF pending /\ local THEN Wipe ELSE UNCHANGED <<clip, stuck, errors>>
    /\ UNCHANGED <<local, copies>>

\* The new copy replaces the one before it, its timer and its provider.
CopySensitive_OldTimer(kind) ==
    /\ copies < MaxCopies
    /\ copies' = copies + 1
    /\ clip' = [of |-> "copy", copy |-> copies'] /\ local' = TRUE
    /\ alive' = IF windows THEN {} ELSE Expired(content) \cup {copies'}
    /\ content' = copies'
    /\ active' = [copy |-> copies', kind |-> kind]
    /\ pending' = TRUE
    /\ timer' = IF timer = None THEN copies' ELSE timer
    /\ UNCHANGED stuck
CopySensitive(kind) ==
    /\ copies < MaxCopies
    /\ copies' = copies + 1
    /\ clip' = [of |-> "copy", copy |-> copies'] /\ local' = TRUE
    /\ alive' = IF windows THEN {} ELSE Expired(content) \cup {copies'}
    /\ content' = copies'
    /\ active' = [copy |-> copies', kind |-> kind]
    /\ pending' = TRUE
    /\ timer' = copies'
    /\ UNCHANGED stuck

\* A copy, or a clipboard that refuses it.
TryCopy(kind) ==
    \/ CopySensitive(kind) /\ UNCHANGED errors
    \/ errors < MaxErrors /\ errors' = errors + 1 /\ UNCHANGED clipboard

\* Only the timer of the last copy may wipe, and only what is ours.
TimerFires ==
    /\ up
    /\ timer # None
    /\ timer' = None
    /\ alive' = Expired(content) /\ content' = None
    /\ active' = None
    /\ IF pending /\ timer = copies
       THEN /\ pending' = FALSE
            /\ IF local THEN Wipe ELSE UNCHANGED <<clip, stuck, errors>>
       ELSE UNCHANGED <<pending, clip, stuck, errors>>
    /\ UNCHANGED <<local, copies>>
    /\ UNCHANGED <<windows, up, session, key, phrase, focused, fetch, rev, asked, centre,
                   inputs, mutations>>

-----------------------------------------------------------------------------
(* The security centre. *)

Worker == [stage : {"run", "read", "done"}, live : BOOLEAN, found : Nat \cup {None}]

\* Forgets the armed source and the running worker: the generation moves on,
\* so its answer no longer counts.
Stopped(workers) ==
    [s \in Scans |-> IF workers[s].stage = "idle" THEN Rest
                     ELSE [workers[s] EXCEPT !.live = FALSE]]

\* Starts a worker on a copy of the key, unless one is busy.
BeginScan ==
    IF busy
    THEN armed' = FALSE /\ UNCHANGED <<report, failed, busy, scan>>
    ELSE /\ armed' = FALSE
         /\ IF key
            THEN /\ Free(scan) # {}
                 /\ scan' = Start(Stopped(scan), [stage |-> "run", live |-> TRUE, found |-> None])
                 /\ report' = None /\ failed' = FALSE
                 /\ busy' = TRUE
            ELSE /\ scan' = Stopped(scan)
                 /\ UNCHANGED <<report, failed, busy>>

\* Results are dropped at once, the new analysis starts after a pause.
Invalidate(open) ==
    /\ scan' = Stopped(scan)
    /\ busy' = FALSE
    /\ report' = None /\ failed' = FALSE
    /\ armed' = open

-----------------------------------------------------------------------------

Init ==
    /\ windows \in BOOLEAN
    /\ up = TRUE /\ session = 1 /\ key = TRUE /\ phrase = FALSE
    /\ clip = Text("other") /\ local = FALSE /\ focused = TRUE
    /\ alive = {} /\ copies = 0 /\ pending = FALSE
    /\ timer = None /\ content = None /\ active = None /\ stuck = {}
    /\ fetch = [f \in Fetches |-> Rest]
    /\ rev = 0 /\ asked = 0
    /\ report = None /\ failed = FALSE /\ busy = FALSE /\ armed = TRUE
    /\ scan = [s \in Scans |-> Rest]
    /\ inputs = 0 /\ mutations = 0 /\ errors = 0

\* The user acts on the main window of an open session.
Input == up /\ inputs < MaxInputs /\ inputs' = inputs + 1
Acts == key /\ Input

-----------------------------------------------------------------------------
(* Copies. *)

\* The button of a card: a thread decrypts the password on a copy of the key.
StartFetch ==
    /\ Acts
    /\ Free(fetch) # {}
    /\ fetch' = Start(fetch, [stage |-> "run", session |-> session, open |-> key, value |-> FALSE])
    /\ UNCHANGED <<windows, up, session, key, phrase, focused, clipboard, rev, asked, centre,
                   mutations, errors>>

Fetch(f) ==
    /\ fetch[f].stage = "run"
    /\ \/ /\ fetch' = [fetch EXCEPT ![f].stage = "done", ![f].value = TRUE]
          /\ UNCHANGED errors
       \/ /\ errors < MaxErrors /\ errors' = errors + 1
          /\ fetch' = [fetch EXCEPT ![f].stage = "done"]
    /\ UNCHANGED <<windows, up, session, key, phrase, focused, clipboard, rev, asked, centre,
                   inputs, mutations>>

\* Whether the session is open is read when the value arrives; a window that
\* was signed out stays without its key.
CopyDecision_AtStart(f) == fetch[f].value /\ fetch[f].open
CopyDecision(f) == fetch[f].value /\ key /\ fetch[f].session = session

LandFetch(f) ==
    /\ up
    /\ fetch[f].stage = "done"
    /\ fetch' = [fetch EXCEPT ![f] = Rest]
    /\ IF CopyDecision(f) THEN TryCopy("password") ELSE UNCHANGED <<clipboard, errors>>
    /\ UNCHANGED <<windows, up, session, key, phrase, focused, rev, asked, centre,
                   inputs, mutations>>

\* The login is on the card; opening the address copies it too.
CopyLogin ==
    /\ Acts
    /\ TryCopy("login")
    /\ UNCHANGED <<windows, up, session, key, phrase, focused, fetch, rev, asked, centre,
                   mutations>>

\* The export dialog of the profile, or the first sign-in.  Neither looks at the
\* session again once it shows a phrase.
ShowPhrase ==
    /\ Acts
    /\ ~phrase
    /\ phrase' = TRUE
    /\ UNCHANGED <<windows, up, session, key, focused, clipboard, fetch, rev, asked, centre,
                   mutations, errors>>

CopyPhrase ==
    /\ Input
    /\ phrase
    /\ TryCopy("phrase")
    /\ UNCHANGED <<windows, up, session, key, phrase, focused, fetch, rev, asked, centre,
                   mutations>>

ClosePhrase ==
    /\ phrase
    /\ phrase' = FALSE
    /\ ClearNow
    /\ UNCHANGED <<windows, up, session, key, focused, fetch, rev, asked, centre, inputs,
                   mutations>>

\* The indicator of the header.
PressIndicator ==
    /\ Acts
    /\ ClearNow
    /\ UNCHANGED <<windows, up, session, key, phrase, focused, fetch, rev, asked, centre,
                   mutations>>

-----------------------------------------------------------------------------
(* The clipboard belongs to everyone. *)

\* A text of the application itself, which GDK calls local.
CopyPlain ==
    /\ Acts
    /\ clip' = Text("text") /\ local' = TRUE
    /\ UNCHANGED <<alive, copies, pending, timer, content, active, stuck>>
    /\ UNCHANGED <<windows, up, session, key, phrase, focused, fetch, rev, asked, centre,
                   mutations, errors>>

\* Another application copies; GDK learns it with the next event.
OthersCopy ==
    /\ clip.of # "other"
    /\ clip' = Text("other")
    /\ UNCHANGED <<local, alive, copies, pending, timer, content, active, stuck>>
    /\ UNCHANGED <<windows, up, session, key, phrase, focused, fetch, rev, asked, centre,
                   bounds>>

WatchClipboard ==
    /\ up
    /\ clip.of = "other" /\ local
    /\ local' = FALSE
    /\ IF active = None
       THEN UNCHANGED <<alive, pending, timer, content, active>>
       ELSE /\ timer' = None
            /\ alive' = Expired(content) /\ content' = None
            /\ active' = None
            /\ pending' = FALSE
    /\ UNCHANGED <<clip, copies, stuck>>
    /\ UNCHANGED <<windows, up, session, key, phrase, focused, fetch, rev, asked, centre,
                   bounds>>

ChangeFocus ==
    /\ Input
    /\ focused' = ~focused
    /\ UNCHANGED <<windows, up, session, key, phrase, clipboard, fetch, rev, asked, centre,
                   mutations, errors>>

-----------------------------------------------------------------------------
(* The security centre. *)

ArmedFires ==
    /\ up
    /\ armed
    /\ BeginScan
    /\ UNCHANGED <<windows, up, session, key, phrase, focused, clipboard, fetch, rev, asked,
                   bounds>>

\* The refresh button, or a visit of the page without a report.
AskScan ==
    /\ Acts
    /\ ~busy
    /\ BeginScan
    /\ UNCHANGED <<windows, up, session, key, phrase, focused, clipboard, fetch, rev, asked,
                   mutations, errors>>

CancelScan ==
    /\ Acts
    /\ busy
    /\ scan' = Stopped(scan)
    /\ busy' = FALSE /\ armed' = FALSE
    /\ UNCHANGED <<windows, up, session, key, phrase, focused, clipboard, fetch, rev, asked,
                   report, failed, mutations, errors>>

\* The worker lists the vaults, reads and decrypts one after the other: its
\* report is as old as its first read.  It ends early when it is cancelled.
Analyze(s) ==
    /\ scan[s].stage \in {"run", "read"}
    /\ \/ /\ scan[s].live
          /\ scan' = IF scan[s].stage = "run"
                     THEN [scan EXCEPT ![s].stage = "read", ![s].found = rev]
                     ELSE [scan EXCEPT ![s].stage = "done"]
          /\ UNCHANGED errors
       \/ /\ ~scan[s].live
          /\ scan' = [scan EXCEPT ![s].stage = "done", ![s].found = None]
          /\ UNCHANGED errors
       \/ /\ errors < MaxErrors /\ errors' = errors + 1
          /\ scan' = [scan EXCEPT ![s].stage = "done", ![s].found = None]
    /\ UNCHANGED <<windows, up, session, key, phrase, focused, clipboard, fetch, rev, asked,
                   report, failed, busy, armed, inputs, mutations>>

\* Only the worker of the current generation shows its report, and only while
\* there is a key.
AnswerScan_AnyGeneration(s) ==
    /\ up
    /\ scan[s].stage = "done"
    /\ IF key
       THEN /\ scan' = [Stopped(scan) EXCEPT ![s] = Rest]
            /\ busy' = FALSE /\ armed' = FALSE
            /\ report' = scan[s].found
            /\ failed' = (scan[s].found = None)
       ELSE /\ scan' = [scan EXCEPT ![s] = Rest]
            /\ UNCHANGED <<report, failed, busy, armed>>
    /\ UNCHANGED <<windows, up, session, key, phrase, focused, clipboard, fetch, rev, asked,
                   bounds>>
AnswerScan(s) ==
    /\ up
    /\ scan[s].stage = "done"
    /\ IF scan[s].live /\ key
       THEN /\ scan' = [Stopped(scan) EXCEPT ![s] = Rest]
            /\ busy' = FALSE /\ armed' = FALSE
            /\ report' = scan[s].found
            /\ failed' = (scan[s].found = None)
       ELSE /\ scan' = [scan EXCEPT ![s] = Rest]
            /\ UNCHANGED <<report, failed, busy, armed>>
    /\ UNCHANGED <<windows, up, session, key, phrase, focused, clipboard, fetch, rev, asked,
                   bounds>>

\* A save, a deletion, an import, then the refresh it ends with, which comes
\* with its answer and finds the session locked or not.
Mutate ==
    /\ up
    /\ mutations < MaxMutations /\ mutations' = mutations + 1
    /\ rev' = rev + 1
    /\ UNCHANGED <<windows, up, session, key, phrase, focused, clipboard, fetch, asked, centre,
                   inputs, errors>>

RefreshEntries ==
    /\ up
    /\ asked < rev
    /\ asked' = rev
    /\ Invalidate(key)
    /\ UNCHANGED <<windows, up, session, key, phrase, focused, clipboard, fetch, rev, bounds>>

-----------------------------------------------------------------------------
(* The session. *)

\* The lock of the button, of the timer and of the PIN: in one handler the
\* report, the clipboard and the key go.
Lock ==
    /\ Acts
    /\ key' = FALSE
    /\ Invalidate(FALSE)
    /\ ClearNow
    /\ UNCHANGED <<windows, up, session, phrase, focused, fetch, rev, asked, mutations>>

Unlock ==
    /\ up
    /\ ~key
    /\ key' = TRUE
    /\ asked' = rev
    /\ Invalidate(TRUE)
    /\ UNCHANGED <<windows, up, session, phrase, focused, clipboard, fetch, rev, bounds>>

\* Sign-out and a new sign-in: another window, another centre.
SignOut ==
    /\ Acts
    /\ key' = FALSE
    /\ session' = session + 1
    /\ Invalidate(FALSE)
    /\ ClearNow
    /\ UNCHANGED <<windows, up, phrase, focused, fetch, rev, asked, mutations>>

Shutdown ==
    /\ Input
    /\ up' = FALSE
    /\ ClearNow
    /\ UNCHANGED <<windows, session, key, phrase, focused, fetch, rev, asked, centre, mutations>>

\* The panic button asks first, and its question outlives a lock; then the
\* process exits without any of the clean-up of a shutdown but the clipboard's.
Panic ==
    /\ Input
    /\ up' = FALSE
    /\ ClearNow
    /\ UNCHANGED <<windows, session, key, phrase, focused, fetch, rev, asked, centre, mutations>>

-----------------------------------------------------------------------------

Next ==
    \/ \E f \in Fetches : Fetch(f) \/ LandFetch(f)
    \/ \E s \in Scans : Analyze(s) \/ AnswerScan(s)
    \/ StartFetch \/ CopyLogin \/ ShowPhrase \/ CopyPhrase \/ ClosePhrase \/ PressIndicator
    \/ TimerFires
    \/ CopyPlain \/ OthersCopy \/ WatchClipboard \/ ChangeFocus
    \/ ArmedFires \/ AskScan \/ CancelScan
    \/ Mutate \/ RefreshEntries
    \/ Lock \/ Unlock \/ SignOut \/ Shutdown \/ Panic

Spec == Init /\ [][Next]_vars

\* The main loop dispatches timers and answers, and threads end.
Fairness ==
    /\ WF_vars(TimerFires)
    /\ WF_vars(ArmedFires)
    /\ \A s \in Scans : WF_vars(Analyze(s)) /\ WF_vars(AnswerScan(s))
FairSpec == Spec /\ Fairness

-----------------------------------------------------------------------------
(* Properties *)

\* Variables keep their types, and the flags of the centre mean what they say: it
\* is busy exactly while a worker whose answer counts is under way (View::stop).
TypeOK ==
    /\ windows \in BOOLEAN /\ up \in BOOLEAN /\ session \in Nat /\ key \in BOOLEAN
    /\ phrase \in BOOLEAN /\ focused \in BOOLEAN
    /\ clip \in [of : {"other", "text", "empty", "copy"}, copy : 1..copies \cup {None}]
    /\ (clip.of = "copy") = (clip.copy # None) /\ local \in BOOLEAN
    /\ copies \in 0..MaxCopies /\ alive \subseteq 1..copies /\ pending \in BOOLEAN
    /\ timer \in 1..copies \cup {None} /\ content \in 1..copies \cup {None}
    /\ active \in [copy : 1..copies, kind : Kinds] \cup {None}
    /\ stuck \subseteq 1..copies
    /\ fetch \in [Fetches -> [stage : {"run", "done"}, session : Nat, open : BOOLEAN,
                              value : BOOLEAN] \cup {Rest}]
    /\ rev \in Nat /\ asked \in 0..rev
    /\ report \in 0..rev \cup {None} /\ failed \in BOOLEAN
    /\ armed \in BOOLEAN
    /\ scan \in [Scans -> Worker \cup {Rest}]
    /\ busy = \E s \in Scans : scan[s].stage # "idle" /\ scan[s].live
    /\ inputs \in 0..MaxInputs /\ mutations \in 0..MaxMutations /\ errors \in 0..MaxErrors

\* A value that can be pasted has its own timer running and is the one the
\* indicator shows, however copies, clears, locks and other applications
\* alternate; only what Windows refused to give back is left (copy_sensitive,
\* watch_clipboard, Ledger).
ServedIsTimed ==
    Served # None /\ up /\ Served \notin stuck =>
        timer = Served /\ active # None /\ active.copy = Served

\* No password or login can be pasted from a locked or closed session, whatever
\* was being decrypted when it was locked (PasswordCopier::copy, clear_now).
LockedServesNothing ==
    Served # None /\ Served \notin stuck /\ (~key \/ ~up) =>
        active # None /\ active.kind = "phrase"

\* A report on screen was read after everything the last refresh announced, in a
\* session that is open (CenterDeps: generation, invalidate, clear).
ReportFresh == report # None => key /\ report >= asked

\* A timer, a lock or an exit never wipes what another application put there
\* once the application knows of it (take_pending, expire).
OthersKept ==
    [][clip.of = "other" /\ ~local => clip'.of # "empty"]_vars

\* A copied value does not stay: it expires, is replaced or cleared while the
\* process runs (the timer of copy_sensitive).
CopiesExpire == Served # None /\ Served \notin stuck ~> Served = None \/ Served \in stuck \/ ~up

=============================================================================
