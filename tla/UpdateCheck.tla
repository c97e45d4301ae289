---------------------------- MODULE UpdateCheck ----------------------------
(***************************************************************************)
(* The discovery of new releases (ui/updates): the consent kept in a       *)
(* preferences file, the requests to the release page, and the status the  *)
(* banner and the preferences page show.  The file is written in place, so *)
(* a write may fail, or leave it torn, and the process may stop at any     *)
(* time; the clock of the machine may be set back.                         *)
(*                                                                         *)
(* A tag is a member of Tags; which of them parse as stable versions, and  *)
(* which are newer than the installed one, are constants.  The checker has *)
(* its runtime from activation on, before any page exists, so the branches *)
(* for a missing runtime are left out.                                     *)
(***************************************************************************)
EXTENDS Naturals, FiniteSets

CONSTANTS Tags,         \* tags a release may carry
          Stable,       \* those that parse as a version without a prerelease part
          Newer,        \* those above the installed version
          Unset, Torn,   \* no value; a file that does not parse
          Day,          \* DAY, in ticks of the clock
          MaxTime,      \* bound on the clock
          MaxChanges,   \* bound on what the user does to the checker
          MaxFaults     \* bound on failed writes and stops

ASSUME StableNewer == Stable \subseteq Tags /\ Newer \subseteq Stable
ASSUME DayIsTime == Day \in Nat \ {0} /\ MaxTime \in Nat
ASSUME NoValueIsNoValue == Unset \notin Nat

VARIABLES
    up,           \* the process runs
    preferences,  \* the preferences in memory
    file,         \* update_preferences.json
    status,       \* what the pages show of the last check
    generation,
    task,         \* the handle that can abort a request
    dismissed,    \* the banner was put away
    requests,     \* the requests under way, whatever became of their handle
    now,          \* the clock of the machine
    sent,         \* time of the last request, until the clock goes back or the file is lost
    changes, faults

updateVars == <<up, preferences, file, status, generation, task, dismissed, requests,
                now, sent, changes, faults>>

Preferences == [automatic : BOOLEAN \cup {Unset}, last_attempt : 0..MaxTime \cup {Unset},
                latest : Tags \cup {Unset}]
ASSUME NoFileIsNoFile == Unset \notin Preferences \cup {Torn}
Default == [automatic |-> Unset, last_attempt |-> Unset, latest |-> Unset]
Plain == {"Idle", "Checking", "Current", "Unavailable", "StorageError"}
Is(kind) == [kind |-> kind, tag |-> Unset]
Available(tag) == [kind |-> "Available", tag |-> tag]
Statuses == {Is(kind) : kind \in Plain} \cup {Available(tag) : tag \in Tags}

\* What the release page sends back: an HTTP status, a size, a release.
Replies == [success : BOOLEAN, fits : BOOLEAN, draft : BOOLEAN, prerelease : BOOLEAN, tag : Tags]

\* A reply counts only when it is complete, short and a stable release.
parse_release(reply) ==
    IF ~reply.draft /\ ~reply.prerelease /\ reply.tag \in Stable THEN reply.tag ELSE Unset
fetch(reply) == IF reply.success /\ reply.fits THEN parse_release(reply) ELSE Unset
newer(tag) == tag \in Newer

due(p) ==
    /\ p.automatic = TRUE
    /\ p.last_attempt = Unset \/ now >= p.last_attempt + Day

\* What writing `p` over `before` may leave, and whether the write reports success.
save_preferences(p, before) ==
    {<<p, TRUE>>} \cup IF faults < MaxFaults THEN {<<before, FALSE>>, <<Torn, FALSE>>} ELSE {}
Fault(written) == faults' = IF written[2] THEN faults ELSE faults + 1

read_preferences == IF file = Unset THEN Default ELSE file

-----------------------------------------------------------------------------
(* The checker. *)

\* The end of a check that sends nothing.
Quiet(p, s, stored, t, d) ==
    /\ preferences' = p /\ status' = s /\ file' = stored /\ task' = t /\ dismissed' = d
    /\ UNCHANGED <<requests, sent, faults>>

\* Sends a request once the attempt is on record; `p`, `s`, `stored`, `t` and
\* `d` are the preferences, status, file, handle and flag the caller leaves.
check_with_Unrecorded(manual, p, s, stored, t, d, gen) ==
    IF s.kind = "Checking" \/ (~manual /\ ~due(p))
    THEN Quiet(p, s, stored, t, d)
    ELSE LET attempted == [p EXCEPT !.last_attempt = now] IN
         \E written \in save_preferences(attempted, stored) :
            /\ preferences' = attempted
            /\ file' = written[1]
            /\ Fault(written)
            /\ status' = Is("Checking")
            /\ dismissed' = FALSE
            /\ task' = gen
            /\ requests' = requests \cup {[gen |-> gen, manual |-> manual]}
            /\ sent' = now
check_with(manual, p, s, stored, t, d, gen) ==
    IF s.kind = "Checking" \/ (~manual /\ ~due(p))
    THEN Quiet(p, s, stored, t, d)
    ELSE LET attempted == [p EXCEPT !.last_attempt = now] IN
         \E written \in save_preferences(attempted, stored) :
            /\ preferences' = attempted
            /\ file' = written[1]
            /\ Fault(written)
            /\ dismissed' = FALSE
            /\ IF written[2]
               THEN /\ status' = Is("Checking")
                    /\ task' = gen
                    /\ requests' = requests \cup {[gen |-> gen, manual |-> manual]}
                    /\ sent' = now
               ELSE status' = Is("StorageError") /\ task' = t /\ UNCHANGED <<requests, sent>>

\* Records what the user allows; whatever was under way is disowned first.
consent_KeepsChecking(enabled) ==
    LET wanted == [preferences EXCEPT !.automatic = enabled] IN
    /\ generation' = generation + 1
    /\ \E written \in save_preferences(wanted, file) :
        IF ~written[2]
        THEN /\ preferences' = preferences /\ status' = Is("StorageError")
             /\ file' = written[1] /\ task' = Unset /\ dismissed' = FALSE
             /\ Fault(written)
             /\ UNCHANGED <<requests, sent>>
        ELSE check_with(FALSE, wanted, status, written[1], Unset, ~enabled, generation + 1)
consent(enabled) ==
    LET wanted == [preferences EXCEPT !.automatic = enabled]
        settled == IF status.kind \in {"Checking", "StorageError"} THEN Is("Idle") ELSE status
    IN
    /\ generation' = generation + 1
    /\ \E written \in save_preferences(wanted, file) :
        IF ~written[2]
        THEN /\ preferences' = preferences /\ status' = Is("StorageError")
             /\ file' = written[1] /\ task' = Unset /\ dismissed' = FALSE
             /\ Fault(written)
             /\ UNCHANGED <<requests, sent>>
        ELSE IF enabled
             THEN check_with(FALSE, wanted, settled, written[1], Unset, FALSE, generation + 1)
             ELSE Quiet(wanted, settled, written[1], Unset, TRUE)

\* What the user does spends one of the bounded changes.
Changes == up /\ changes < MaxChanges /\ changes' = changes + 1 /\ UNCHANGED <<up, now>>
CheckNow == check_with(TRUE, preferences, status, file, task, dismissed, generation)

-----------------------------------------------------------------------------
(* The process. *)

UpdateInit ==
    /\ up = FALSE
    /\ preferences = Default /\ file = Unset
    /\ status = Is("Idle") /\ generation = 0 /\ task = Unset /\ dismissed = FALSE
    /\ requests = {} /\ sent = Unset
    /\ now = 0 /\ changes = 0 /\ faults = 0

\* The preferences are loaded and the runtime handed over: a file that does not
\* parse stops automatic requests, a newer release seen before is shown again.
initialize ==
    /\ ~up /\ up' = TRUE
    /\ UNCHANGED <<now, changes, generation>>
    /\ IF file = Torn
       THEN /\ preferences' = Default /\ status' = Is("StorageError")
            /\ sent' = Unset
            /\ UNCHANGED <<file, task, dismissed, requests, faults>>
       ELSE LET p == read_preferences
                known == p.automatic = TRUE /\ p.latest \in Stable /\ newer(p.latest)
            IN check_with(FALSE, p, IF known THEN Available(p.latest) ELSE Is("Idle"),
                          file, Unset, FALSE, 0)

\* A stop in the middle of a save leaves a torn file.
Stop ==
    /\ up /\ faults < MaxFaults
    /\ up' = FALSE /\ faults' = faults + 1
    /\ file' \in {file, Torn}
    /\ preferences' = Default /\ status' = Is("Idle") /\ generation' = 0
    /\ task' = Unset /\ dismissed' = FALSE /\ requests' = {}
    /\ UNCHANGED <<now, sent, changes>>

SetClock ==
    /\ now' \in 0..MaxTime /\ now' # now
    /\ sent' = IF now' < now THEN Unset ELSE sent
    /\ UNCHANGED <<up, preferences, file, status, generation, task, dismissed, requests,
                   changes, faults>>

-----------------------------------------------------------------------------
(* The pages. *)

\* The switch of the preferences page shows consent and turns it over.
Toggle == Changes /\ consent(preferences.automatic # TRUE)

\* Its button cannot be pressed while a check is under way.
CheckButton ==
    /\ Changes /\ status.kind # "Checking"
    /\ CheckNow
    /\ UNCHANGED generation

BannerVisible ==
    /\ preferences.automatic = Unset \/ status.kind \in {"Available", "StorageError"}
    /\ ~dismissed

\* The first button asks for consent, opens the release or checks again.
BannerPrimary ==
    /\ Changes /\ BannerVisible
    /\ \/ preferences.automatic = Unset /\ consent(TRUE)
       \/ preferences.automatic # Unset /\ status.kind # "Available" /\ CheckNow
          /\ UNCHANGED generation

\* The second one refuses, or puts the banner away.
BannerSecondary ==
    /\ Changes /\ BannerVisible
    /\ \/ /\ preferences.automatic = Unset /\ status.kind # "StorageError"
          /\ consent(FALSE)
       \/ /\ preferences.automatic # Unset \/ status.kind = "StorageError"
          /\ dismissed' = TRUE
          /\ UNCHANGED <<preferences, file, status, generation, task, requests, sent, faults>>

-----------------------------------------------------------------------------
(* The answer of a request, or the error of its task (Unset), reaches the main  *)
(* loop.  One that a later consent disowned is dropped.                        *)

AnswerRequest(r, tag) ==
    /\ requests' = requests \ {r}
    /\ UNCHANGED <<up, generation, now, sent, changes>>
    /\ IF r.gen # generation
       THEN UNCHANGED <<preferences, file, status, task, dismissed, faults>>
       ELSE /\ task' = Unset
            /\ IF tag = Unset
               THEN /\ status' = Is("Unavailable")
                    /\ UNCHANGED <<preferences, file, dismissed, faults>>
               ELSE \E written \in save_preferences([preferences EXCEPT !.latest = tag], file) :
                    /\ preferences' = [preferences EXCEPT !.latest = tag]
                    /\ file' = written[1]
                    /\ Fault(written)
                    /\ status' = IF ~written[2] THEN Is("StorageError")
                                 ELSE IF newer(tag) THEN Available(tag) ELSE Is("Current")
                    /\ dismissed' = (dismissed /\ written[2])

Answers == \E r \in requests : \E tag \in {fetch(reply) : reply \in Replies} :
                AnswerRequest(r, tag)

UpdateNext ==
    \/ initialize \/ Stop \/ SetClock
    \/ Toggle \/ CheckButton \/ BannerPrimary \/ BannerSecondary
    \/ Answers

\* Every request ends: it has eight seconds, and its task is awaited.
UpdateSpec == UpdateInit /\ [][UpdateNext]_updateVars /\ WF_updateVars(Answers)

-----------------------------------------------------------------------------
(* Properties. *)

\* The variables hold what the code can put there.
UpdateTypeOK ==
    /\ up \in BOOLEAN /\ dismissed \in BOOLEAN
    /\ preferences \in Preferences /\ file \in Preferences \cup {Unset, Torn}
    /\ status \in Statuses
    /\ generation \in Nat /\ task \in Nat \cup {Unset}
    /\ requests \subseteq [gen : Nat, manual : BOOLEAN]
    /\ now \in 0..MaxTime /\ sent \in 0..MaxTime \cup {Unset}
    /\ changes \in Nat /\ faults \in Nat

\* "No request without saved consent": a request nobody clicked for leaves only
\* while the file on disk says yes and remembers this attempt, and not within a
\* day of the request before it, however often the process stops and the consent
\* is withdrawn and given again; a clock set back or a lost file start afresh.
AutomaticEarned ==
    [][\A r \in requests' \ requests :
            ~r.manual =>
                /\ file' \in Preferences /\ file'.automatic = TRUE /\ file'.last_attempt = now
                /\ sent # Unset => now >= sent + Day]_updateVars

\* The page shows a check under way exactly while one request can still end it:
\* a consent withdrawn or given, an answer that comes late and a save that fails
\* leave neither a page that waits for nothing nor a request nobody waits for.
CheckingIsAlive ==
    /\ status.kind = "Checking" <=> \E r \in requests : r.gen = generation
    /\ status.kind = "Checking" <=> task = generation
    /\ Cardinality({r \in requests : r.gen = generation}) <= 1

\* A check that is shown as under way comes to an end.
CheckEnds == (status.kind = "Checking") ~> (status.kind # "Checking")

=============================================================================
