---------------------------- MODULE BackupRestore ----------------------------
(* The database file and what is made of it: the encrypted backup of the     *)
(* profile (recovery_key_export_dialog, backup_application_service,          *)
(* backup_service) and the restore of the sign-in dialog (restore_flow,      *)
(* main.rs, recovery_service), with the process stopping anywhere.           *)
(*                                                                           *)
(* A database is its data (a number, one per write), the password of its     *)
(* account, the phrase its account key is sealed with and the phrase its     *)
(* verifier was built from. A file is what it holds and who created it: a    *)
(* thread that holds it open writes to that file whatever its name is by     *)
(* then, and to no other.                                                    *)
EXTENDS Naturals, FiniteSets

CONSTANTS
  Exporters,    \* threads of an export
  Restorers,    \* threads of a restore
  Targets,      \* paths a backup is written to
  Phrases,      \* recovery phrases
  Passwords,
  Formats,      \* formats of the account met: "account", which the program
                \* writes, and perhaps "legacy"
  None,         \* no file, no phrase, no creator
  Empty,        \* a database with no account
  Torn,         \* a file written in part
  MaxWrites,    \* bound on the writes of data
  MaxStops,     \* bound on the stops of the process
  MaxFailures   \* bound on the storage errors

Database == [data: Nat, password: Passwords, format: Formats,
             sealed: Phrases \union {None}, verifier: Phrases \union {None}]
Backup == [phrase: Phrases, body: Database \union {Empty, Torn}]
Body == Database \union {Empty, Torn}

ASSUME BackupAssumption ==
  /\ None \notin Phrases
  /\ Empty # Torn /\ {Empty, Torn} \cap Database = {}
  /\ \A x \in {None, Empty, Torn}: x \notin Exporters \union Restorers
  /\ "account" \in Formats /\ Formats \subseteq {"legacy", "account"}
  /\ {MaxWrites, MaxStops, MaxFailures} \subseteq Nat
ASSUME NoneIsNoFile ==
  None \notin [by: Exporters \union Restorers \union {None}, body: Body \union Backup]

VARIABLES
  main,       \* the file under the database's name, or None
  old,        \* the database it replaced
  staged,     \* the database a restore prepares
  snap,       \* the snapshot an export reads
  partial,    \* the backups being written, by target
  backup,     \* the backups, by target
  up, pool, session,  \* the process runs, its pool is open, a user is signed in
  exp, res,   \* the export and restore threads
  known,      \* phrases the user has kept
  lastData,   \* data of the last database with an account that was served
  writes, stops, failures

vars == <<main, old, staged, snap, partial, backup, up, pool, session, exp, res,
          known, lastData, writes, stops, failures>>
files == <<main, old, staged>>
exports == <<snap, partial, backup, exp>>
process == <<up, pool, session>>
counts == <<writes, stops, failures>>

File(by, body) == [by |-> by, body |-> body]

\* What a file holds once the thread h has written to the file it created.
Through(file, h, body) ==
  IF file # None /\ file.by = h THEN File(h, body) ELSE file

IdleExport == [stage |-> "idle", target |-> None, phrase |-> None, plain |-> None]
IdleRestore == [stage |-> "idle", target |-> None, phrase |-> None,
                password |-> None, plain |-> None, holds |-> None]

\* The account of a process that runs on a database with one.
Served == up /\ pool /\ main # None /\ main.body \in Database

NewAccount(n, pw, ph, f) ==
  [data |-> n, password |-> pw, format |-> f, sealed |-> ph, verifier |-> ph]

\* A database as the program leaves it: a phrase with its verifier, a verifier
\* alone (older releases), or neither.
Init ==
  /\ \E pw \in Passwords, f \in Formats, ph \in Phrases \union {None},
        whole \in BOOLEAN:
       /\ main \in {None, File(None, [NewAccount(0, pw, ph, f)
                                        EXCEPT !.sealed = IF whole THEN ph ELSE None])}
       /\ known = IF main = None THEN {} ELSE {ph} \ {None}
  /\ old = None /\ staged = None /\ snap = None
  /\ partial = [d \in Targets |-> None]
  /\ backup = [d \in Targets |-> None]
  /\ up = FALSE /\ pool = FALSE /\ session = FALSE
  /\ exp = [e \in Exporters |-> IdleExport]
  /\ res = [r \in Restorers |-> IdleRestore]
  /\ lastData = 0
  /\ writes = 0 /\ stops = 0 /\ failures = 0

----------------------------------------------------------------------------
(* The process.                                                              *)

\* A file a previous process held open is nobody's.
Orphan(file) == IF file = None THEN None ELSE File(None, file.body)

\* A missing database is created; one that cannot be read stops the start.
Start ==
  /\ ~up
  /\ main # None => main.body # Torn
  /\ main' = IF main = None THEN File(None, Empty) ELSE Orphan(main)
  /\ old' = Orphan(old)
  /\ staged' = Orphan(staged)
  /\ up' = TRUE /\ pool' = TRUE
  /\ lastData' = IF main'.body \in Database THEN main'.body.data ELSE lastData
  /\ UNCHANGED <<session, exports, res, known, counts>>

Down ==
  /\ up' = FALSE /\ pool' = FALSE /\ session' = FALSE
  /\ exp' = [e \in Exporters |-> IdleExport]
  /\ res' = [r \in Restorers |-> IdleRestore]

\* The process stops: files stay as they are.
Stop ==
  /\ up
  /\ stops < MaxStops
  /\ stops' = stops + 1
  /\ Down
  /\ UNCHANGED <<files, snap, partial, backup, known, lastData, writes, failures>>

\* The user closes the application with no thread at work.
Quit ==
  /\ up
  /\ \A e \in Exporters: exp[e].stage = "idle"
  /\ \A r \in Restorers: res[r].stage = "idle"
  /\ Down
  /\ UNCHANGED <<files, snap, partial, backup, known, lastData, counts>>

\* The success message is closed: another process is spawned, this one quits.
Restart(r) ==
  /\ res[r].stage = "done"
  /\ Down
  /\ UNCHANGED <<files, snap, partial, backup, known, lastData, counts>>

\* The first administrator of an empty database, with a phrase the user saved.
Bootstrap(pw, ph) ==
  /\ up /\ pool /\ ~session
  /\ main # None /\ main.body = Empty
  /\ writes < MaxWrites
  /\ writes' = writes + 1
  /\ main' = [main EXCEPT !.body = NewAccount(writes', pw, ph, "account")]
  /\ known' = known \union {ph}
  /\ lastData' = writes'
  /\ UNCHANGED <<old, staged, exports, process, res, stops, failures>>

SignIn ==
  /\ Served /\ ~session
  /\ session' = TRUE
  /\ UNCHANGED <<files, exports, up, pool, res, known, lastData, counts>>

SignOut ==
  /\ session
  /\ session' = FALSE
  /\ UNCHANGED <<files, exports, up, pool, res, known, lastData, counts>>

\* Any write of the session: vaults, secrets, profile.
Edit ==
  /\ Served /\ session
  /\ writes < MaxWrites
  /\ writes' = writes + 1
  /\ main' = [main EXCEPT !.body.data = writes']
  /\ lastData' = writes'
  /\ UNCHANGED <<old, staged, exports, process, res, known, stops, failures>>

----------------------------------------------------------------------------
(* Export.                                                                   *)

ExportStep(e, from, to) ==
  /\ exp[e].stage = from
  /\ exp' = [exp EXCEPT ![e].stage = to]

RestOfExport == <<old, staged, process, res, lastData, counts>>

\* Stages between the first file of an export and the end of its thread.
Holding == {"copy", "read", "partial", "fill", "clear", "place", "check"}

ChooseTarget(e, d) ==
  /\ session
  /\ exp[e].stage = "idle"
  /\ exp' = [exp EXCEPT ![e] = [IdleExport EXCEPT !.stage = "load", !.target = d]]
  /\ UNCHANGED <<main, snap, partial, backup, known, RestOfExport>>

\* The verifier decides: type the phrase again, or mint a new one.
LoadVerifier(e) ==
  /\ Served
  /\ exp[e].stage = "load"
  /\ exp' = [exp EXCEPT ![e].stage = IF main.body.verifier = None THEN "warn" ELSE "reentry",
                        ![e].phrase = main.body.verifier]
  /\ UNCHANGED <<main, snap, partial, backup, known, RestOfExport>>

\* A phrase the user kept is checked against the verifier loaded before.
Reenter(e, ph) ==
  /\ ph \in known
  /\ exp[e].stage = "reentry"
  /\ exp' = [exp EXCEPT ![e] = IF ph = exp[e].phrase
                               THEN [@ EXCEPT !.stage = "seal"] ELSE IdleExport]
  /\ UNCHANGED <<main, snap, partial, backup, known, RestOfExport>>

CancelExport(e) ==
  /\ exp[e].stage \in {"warn", "reentry", "newkey", "saved"}
  /\ exp' = [exp EXCEPT ![e] = IdleExport]
  /\ UNCHANGED <<main, snap, partial, backup, known, RestOfExport>>

\* A phrase held nowhere, so that nothing tells it from a random one.
FreshPhrases ==
  Phrases \ (known \union {exp[e].phrase: e \in Exporters}
    \union UNION {{f.body.sealed, f.body.verifier}:
                    f \in {g \in {main, old} \ {None}: g.body \in Database}})

\* The new phrase replaces the seal, then the verifier: two statements.
SealNewPhrase(e, ph) ==
  /\ Served
  /\ exp[e].stage = "warn"
  /\ exp' = [exp EXCEPT ![e].stage = "verifier", ![e].phrase = ph]
  /\ main' = [main EXCEPT !.body.sealed = ph]
  /\ UNCHANGED <<snap, partial, backup, known, RestOfExport>>

StoreVerifier(e) ==
  /\ Served
  /\ ExportStep(e, "verifier", "newkey")
  /\ main' = [main EXCEPT !.body.verifier = exp[e].phrase]
  /\ UNCHANGED <<snap, partial, backup, known, RestOfExport>>

\* The phrase is copied, printed or saved, which enables the confirmation.
SavePhrase(e) ==
  /\ ExportStep(e, "newkey", "saved")
  /\ known' = known \union {exp[e].phrase}
  /\ UNCHANGED <<main, snap, partial, backup, RestOfExport>>

ConfirmNewKey(e) ==
  /\ ExportStep(e, "saved", "seal")
  /\ UNCHANGED <<main, snap, partial, backup, known, RestOfExport>>

\* Variant: the seal is left to the phrase's first use.
Seal_Skipped(e) ==
  /\ Served
  /\ ExportStep(e, "seal", "snapshot")
  /\ UNCHANGED <<main, snap, partial, backup, known, RestOfExport>>

\* ensure_recovery_key: the backup must hold a seal its phrase opens.
Seal(e) ==
  /\ Served
  /\ ExportStep(e, "seal", "snapshot")
  /\ main' = [main EXCEPT !.body.sealed = exp[e].phrase]
  /\ UNCHANGED <<snap, partial, backup, known, RestOfExport>>

\* An earlier snapshot is removed; VACUUM INTO begins a copy of the database as
\* it is now, under the one name all exports use.
BeginSnapshot(e) ==
  /\ Served
  /\ exp[e].stage = "snapshot"
  /\ snap' = File(e, Torn)
  /\ exp' = [exp EXCEPT ![e].stage = "copy", ![e].plain = main.body]
  /\ UNCHANGED <<main, partial, backup, known, RestOfExport>>

EndSnapshot(e) ==
  /\ snap # None
  /\ ExportStep(e, "copy", "read")
  /\ snap' = Through(snap, e, exp[e].plain)
  /\ UNCHANGED <<main, partial, backup, known, RestOfExport>>

\* The snapshot is read by its name. Its header is all that is checked.
ReadSnapshot(e) ==
  /\ exp[e].stage = "read"
  /\ snap # None
  /\ exp' = [exp EXCEPT ![e].stage = "partial", ![e].plain = snap.body]
  /\ UNCHANGED <<main, snap, partial, backup, known, RestOfExport>>

\* write_atomic: a sibling file, emptied, filled, then renamed.
CreatePartial(e) ==
  /\ ExportStep(e, "partial", "fill")
  /\ partial' = [partial EXCEPT ![exp[e].target] = File(e, Torn)]
  /\ UNCHANGED <<main, snap, backup, known, RestOfExport>>

FillPartial(e) ==
  LET d == exp[e].target IN
  /\ ExportStep(e, "fill", "clear")
  /\ partial' = [partial EXCEPT ![d] =
                   Through(@, e, [phrase |-> exp[e].phrase, body |-> exp[e].plain])]
  /\ UNCHANGED <<main, snap, backup, known, RestOfExport>>

ClearTarget(e) ==
  /\ ExportStep(e, "clear", "place")
  /\ backup' = [backup EXCEPT ![exp[e].target] = None]
  /\ UNCHANGED <<main, snap, partial, known, RestOfExport>>

PlaceBackup(e) ==
  LET d == exp[e].target IN
  /\ ExportStep(e, "place", "check")
  /\ partial[d] # None
  /\ backup' = [backup EXCEPT ![d] = partial[d].body]
  /\ partial' = [partial EXCEPT ![d] = None]
  /\ UNCHANGED <<main, snap, known, RestOfExport>>

\* A container opens under the phrase that encrypted it, if it is whole.
Opens(file, ph) == file \in Backup /\ file.phrase = ph

\* What landed on disk must decrypt to what was read; the snapshot goes.
CheckBackup(e) ==
  LET d == exp[e].target
      written == backup[d] IN
  /\ exp[e].stage = "check"
  /\ backup' = [backup EXCEPT ![d] =
                  IF Opens(@, exp[e].phrase) /\ @.body # exp[e].plain THEN None ELSE @]
  /\ snap' = None
  /\ exp' = [exp EXCEPT ![e] = IdleExport]
  /\ UNCHANGED <<main, partial, known, RestOfExport>>

\* An export that met an error: its partial file goes if it could not be
\* placed, and the snapshot with its guard.
ExportFails(e) ==
  LET stage == exp[e].stage IN
  /\ stage \notin {"idle", "warn", "reentry", "newkey", "saved"}
  /\ \/ ~Served /\ stage \in {"load", "verifier", "seal", "snapshot"}
     \/ stage \in {"copy", "read"} /\ snap = None
     \/ stage = "place" /\ partial[exp[e].target] = None
     \/ failures < MaxFailures
  /\ failures' = IF failures < MaxFailures THEN failures + 1 ELSE failures
  /\ partial' = IF stage \in {"fill", "clear", "place"}
                THEN [partial EXCEPT ![exp[e].target] = None] ELSE partial
  /\ snap' = IF stage \in Holding THEN None ELSE snap
  /\ exp' = [exp EXCEPT ![e] = IdleExport]
  /\ UNCHANGED <<files, backup, process, res, known, lastData, writes, stops>>

----------------------------------------------------------------------------
(* Restore.                                                                  *)

RestoreStep(r, from, to) ==
  /\ res[r].stage = from
  /\ res' = [res EXCEPT ![r].stage = to]

RestOfRestore == <<exports, session, known, lastData, writes, stops>>

\* The dialog belongs to the sign-in screen; its thread goes on when the dialog
\* is closed, and the flag that should keep it alone is cleared at once.
Submit(r, d, ph, pw) ==
  /\ up /\ ~session
  /\ res[r].stage = "idle"
  /\ backup[d] # None
  /\ res' = [res EXCEPT ![r] = [IdleRestore EXCEPT !.stage = "clean", !.target = d,
                                  !.phrase = ph, !.password = pw]]
  /\ UNCHANGED <<files, up, pool, failures, RestOfRestore>>

CleanStaging(r) ==
  /\ RestoreStep(r, "clean", "read")
  /\ staged' = None
  /\ UNCHANGED <<main, old, up, pool, failures, RestOfRestore>>

ReadBackup(r) ==
  /\ res[r].stage = "read"
  /\ Opens(backup[res[r].target], res[r].phrase)
  /\ res' = [res EXCEPT ![r].stage = "create", ![r].plain = backup[res[r].target].body]
  /\ UNCHANGED <<files, up, pool, failures, RestOfRestore>>

\* Variant: the import replaces the database instead of a staged one.
CreateStaged_InPlace(r) ==
  /\ RestoreStep(r, "create", "fill")
  /\ main' = File(r, Torn)
  /\ old' = main
  /\ UNCHANGED <<staged, up, pool, failures, RestOfRestore>>

\* replace_existing_database on the staging path: created, then filled.
CreateStaged(r) ==
  /\ RestoreStep(r, "create", "fill")
  /\ staged' = File(r, Torn)
  /\ UNCHANGED <<main, old, up, pool, failures, RestOfRestore>>

\* A write through a handle reaches the file under any name it has by now.
WriteThrough(h, body) ==
  /\ main' = Through(main, h, body)
  /\ old' = Through(old, h, body)
  /\ staged' = Through(staged, h, body)

FillStaged(r) ==
  /\ RestoreStep(r, "fill", "open")
  /\ WriteThrough(r, res[r].plain)
  /\ UNCHANGED <<up, pool, failures, RestOfRestore>>

\* SQLite opens a whole file.
Readable(file) == file # None /\ file.body # Torn

\* The staged database is opened and migrated to the current schema.
OpenStaged(r) ==
  /\ res[r].stage = "open"
  /\ Readable(staged)
  /\ res' = [res EXCEPT ![r].stage = "reset", ![r].plain = staged.body,
                        ![r].holds = staged.by]
  /\ UNCHANGED <<files, up, pool, failures, RestOfRestore>>

\* The one account is reopened: a legacy one holds its key in clear, another
\* one must be sealed with the phrase.
CanReset(body, ph) ==
  /\ body \in Database
  /\ body.format = "legacy" \/ body.sealed = ph

Reset(body, ph, pw) ==
  [body EXCEPT !.password = pw, !.format = "account", !.sealed = ph]

\* Variant: the password is accepted and not stored.
ResetPassword_Unsaved(r) ==
  /\ RestoreStep(r, "reset", "close")
  /\ CanReset(res[r].plain, res[r].phrase)
  /\ UNCHANGED <<files, up, pool, failures, RestOfRestore>>

ResetPassword(r) ==
  /\ RestoreStep(r, "reset", "close")
  /\ CanReset(res[r].plain, res[r].phrase)
  /\ WriteThrough(res[r].holds, Reset(res[r].plain, res[r].phrase, res[r].password))
  /\ UNCHANGED <<up, pool, failures, RestOfRestore>>

ClosePool(r) ==
  /\ RestoreStep(r, "close", "drop")
  /\ pool' = FALSE
  /\ UNCHANGED <<files, up, failures, RestOfRestore>>

\* promote_staged_restore: three file operations.
DropOld(r) ==
  /\ RestoreStep(r, "drop", "rotate")
  /\ old' = None
  /\ UNCHANGED <<main, staged, up, pool, failures, RestOfRestore>>

\* Variant: the database is removed to make room.
Rotate_Removes(r) ==
  /\ RestoreStep(r, "rotate", "place")
  /\ main' = None
  /\ UNCHANGED <<old, staged, up, pool, failures, RestOfRestore>>

Rotate(r) ==
  /\ RestoreStep(r, "rotate", "place")
  /\ main' = None
  /\ old' = IF main = None THEN old ELSE main
  /\ UNCHANGED <<staged, up, pool, failures, RestOfRestore>>

Place(r) ==
  /\ staged # None
  /\ RestoreStep(r, "place", "done")
  /\ main' = staged
  /\ staged' = None
  /\ UNCHANGED <<old, up, pool, failures, RestOfRestore>>

\* The rename failed: the database gets its name back; the pool stays closed.
PlaceFails(r) ==
  /\ res[r].stage = "place"
  /\ staged = None \/ failures < MaxFailures
  /\ failures' = IF staged # None THEN failures + 1 ELSE failures
  /\ IF old # None THEN main' = old /\ old' = None ELSE UNCHANGED <<main, old>>
  /\ res' = [res EXCEPT ![r] = IdleRestore]
  /\ UNCHANGED <<staged, up, pool, RestOfRestore>>

\* A wrong phrase, a backup that cannot be reopened, a missing file, an error.
RestoreFails(r) ==
  LET stage == res[r].stage IN
  /\ stage \in {"clean", "read", "create", "fill", "open", "reset", "drop", "rotate"}
  /\ \/ stage = "read" /\ ~Opens(backup[res[r].target], res[r].phrase)
     \/ stage = "open" /\ ~Readable(staged)
     \/ stage = "reset" /\ ~CanReset(res[r].plain, res[r].phrase)
     \/ failures < MaxFailures
  /\ failures' = IF failures < MaxFailures THEN failures + 1 ELSE failures
  /\ res' = [res EXCEPT ![r] = IdleRestore]
  /\ UNCHANGED <<files, up, pool, RestOfRestore>>

----------------------------------------------------------------------------
Process ==
  \/ Start \/ Stop \/ Quit \/ SignIn \/ SignOut \/ Edit
  \/ \E pw \in Passwords, ph \in FreshPhrases: Bootstrap(pw, ph)

Export(e) ==
  \/ \E d \in Targets: ChooseTarget(e, d)
  \/ LoadVerifier(e) \/ CancelExport(e)
  \/ \E ph \in Phrases: Reenter(e, ph)
  \/ \E ph \in FreshPhrases: SealNewPhrase(e, ph)
  \/ StoreVerifier(e) \/ SavePhrase(e) \/ ConfirmNewKey(e) \/ Seal(e)
  \/ BeginSnapshot(e) \/ EndSnapshot(e) \/ ReadSnapshot(e)
  \/ CreatePartial(e) \/ FillPartial(e) \/ ClearTarget(e) \/ PlaceBackup(e)
  \/ CheckBackup(e) \/ ExportFails(e)

Restore(r) ==
  \/ \E d \in Targets, ph \in Phrases, pw \in Passwords: Submit(r, d, ph, pw)
  \/ CleanStaging(r) \/ ReadBackup(r) \/ CreateStaged(r) \/ FillStaged(r)
  \/ OpenStaged(r) \/ ResetPassword(r) \/ ClosePool(r)
  \/ DropOld(r) \/ Rotate(r) \/ Place(r) \/ PlaceFails(r) \/ RestoreFails(r)
  \/ Restart(r)

Next ==
  \/ Process
  \/ \E e \in Exporters: Export(e)
  \/ \E r \in Restorers: Restore(r)

Spec == Init /\ [][Next]_vars

----------------------------------------------------------------------------
(* Properties.                                                               *)

ExportStages == Holding \union {"idle", "load", "warn", "reentry", "verifier",
                             "newkey", "saved", "seal", "snapshot"}
RestoreStages == {"idle", "clean", "read", "create", "fill", "open", "reset",
                  "close", "drop", "rotate", "place", "done"}
FileOf(creators, bodies) == {None} \union [by: creators \union {None}, body: bodies]

\* Type correctness: what each file may hold, and what the threads carry.
TypeOK ==
  /\ {main, old, staged} \subseteq FileOf(Restorers, Body)
  /\ snap \in FileOf(Exporters, Body)
  /\ partial \in [Targets -> FileOf(Exporters, Backup \union {Torn})]
  /\ backup \in [Targets -> Backup \union {None, Torn}]
  /\ {up, pool, session} \subseteq BOOLEAN
  /\ exp \in [Exporters -> [stage: ExportStages, target: Targets \union {None},
                            phrase: Phrases \union {None}, plain: Body \union {None}]]
  /\ res \in [Restorers -> [stage: RestoreStages, target: Targets \union {None},
                            phrase: Phrases \union {None}, password: Passwords \union {None},
                            plain: Body \union {None}, holds: Restorers \union {None}]]
  /\ known \subseteq Phrases
  /\ lastData \in Nat
  /\ writes \in 0..MaxWrites /\ stops \in 0..MaxStops /\ failures \in 0..MaxFailures

\* A restore is prepared in a separate file and promoted by renames alone:
\* wherever the process stops, neither the database nor the one it replaced is
\* written in part (main.rs promote_staged_restore, backup_service
\* replace_existing_database).
ServedIsWhole == \A f \in {main, old} \ {None}: f.body # Torn

\* The backup under its own name can be restored: it is whole, the user has
\* kept the phrase it is encrypted with, and the phrase reopens the account in
\* it, whatever stops or failures the export met (data.rs run_export,
\* ensure_recovery_key, write_atomic).
BackupRestorable ==
  \A d \in Targets: backup[d] # None =>
    /\ backup[d] \in Backup
    /\ backup[d].phrase \in known
    /\ CanReset(backup[d].body, backup[d].phrase)

\* When the dialog says the database was restored, the file under the
\* database's name is the backup's, opens with the password given, and is
\* sealed with the phrase given (main.rs restore handler).
RestoredOpens ==
  \A r \in Restorers: res[r].stage = "done" =>
    /\ main # None
    /\ main.body = Reset(res[r].plain, res[r].phrase, res[r].password)

\* After a promotion the database this process served is the old one, with its
\* last write: the way back the code keeps (promote_staged_restore).
WayBackKept ==
  \A r \in Restorers: res[r].stage = "done" =>
    /\ old # None
    /\ old.body # Empty => old.body.data = lastData

\* The same whatever happened before: the last database that had an account is
\* the one kept by the promotion.
LastDataKept ==
  \A r \in Restorers: res[r].stage = "done" /\ writes > 0 =>
    /\ old # None /\ old.body # Empty
    /\ old.body.data = lastData
=============================================================================
