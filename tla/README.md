# HeelonVault: formal models

TLA+ models of HeelonVault 2.1.1, checked with TLC and, where it says so, proved with TLAPS.
Paths below are relative to the repository; `core/` stands for
`crates/heelonvault-core/src/`, `app/` for `crates/heelonvault-app/src/`.

## The system

HeelonVault is a local-first desktop secrets manager. `app/` is a GTK4 program, `core/` holds
services over SQLite repositories. There is one process and one SQLite pool, but no single
thread of control: a UI handler copies what it needs (often the session key), starts a
`std::thread` that runs one async operation with `block_on`, and gets the result back on the
GTK main loop through a oneshot channel. Operations on the database therefore interleave at
every `await`, and a result can reach a window, a page or a list that has since been locked,
left or replaced. A stop of the process at any point leaves what SQLite had committed.

### Inventory

| Component | State | Operations | What is hard | What makes it correct |
|---|---|---|---|---|
| Account key hierarchy (`core/services/rekey_service.rs`, `user_service.rs`, `auth_service.rs`, `account_key.rs`, `core/repositories/vault_repository.rs`) | password envelope (database and in-memory copy), vault key envelopes, key shares, TOTP secret, recovery envelopes | sign-in, password change, migration to an account key, legacy re-key, verification | several awaits per operation, two operations at once, a stop anywhere, errors after the commit | one password in force opens everything, before and after any stop |
| Session, auto-lock, PIN (`app/ui/windows/main_window/auto_lock.rs`, `impl_post.rs`, `core/services/pin_cache_service.rs`, PIN dialogs, `app/main.rs`) | session key cell, timer source, armed flag, PIN cache, dialogs on screen, delay in force | activity, lock, sign-out, PIN unlock, fallback, PIN setup, delay choice | callbacks in any order, late thread results, dialogs over dialogs | a locked session holds no key, an abandoned one locks, there is always a way back in |
| Sign-in policy and bootstrap (`core/services/auth_policy_service.rs`, `totp_service.rs`, `admin_service.rs`, `app/ui/dialogs/login_dialog/`) | failures and their time, codes already used, the screen, rows of the first account | attempt, lock, backoff, code check, first account | check and record are separate awaits of concurrent threads; answers and countdowns in any order; a stop between statements | the lock is not overrun, a code opens once, no screen stays closed |
| Address limits (`core/services/ip_rate_limit_service.rs`, `core/repositories/ip_rate_limit_repository.rs`) | one counter per address | attempt, success, clean-up | SELECT, then UPDATE | enough failures in a window hold the address |
| Vault and secret lifecycle (`core/services/secret_service.rs`, `core/repositories/secret_repository.rs`) | vault and secret rows, `deleted_at` | create, update, move, trash, restore, purge, empty | an update is two statements, checks precede writes | a secret is encrypted under the key of the vault it is in; trash only shrinks by request |
| Access and sharing (`core/services/access_control.rs`, `vault_service.rs`, vault, team and user repositories) | users, vaults, shares, teams, the view `accessible_vaults` | decide, open, create, delete, share, revoke | a call reads role, view and envelope separately | an answer is right for what the call met; view, lists and tables agree |
| Backup, restore, recovery (`core/services/backup_service.rs`, `backup_application_service.rs`, `recovery_service.rs`, `app/main.rs`, `restore_flow.rs`, `recovery_key_export_dialog.rs`) | database, staged file, `.bak`, snapshot, backups, phrase, busy flag | export, restore, promotion, password reset | renames with a stop between them, two dialogs | the database is whole, a backup can be restored, there is a way back |
| Main window lists (`app/ui/windows/main_window/window/`, `secret_flow.rs`, `search_filter.rs`) | rows, active vault, page of the list, query | refresh, select, search, create, delete | answers in any order, guards left up, errors | each vault once, the list on screen is the active vault's |
| Entry editor (`app/ui/dialogs/add_edit_dialog*`, `window/editor.rs`) | page, what was read, what was touched | open, load, type, save, delete, leave | the page is filled by two threads and outlived by a third | what is saved is what was shown |
| Open session (`app/ui/sensitive_clipboard.rs`, `secret_flow.rs`) | clipboard, its timer, indicator | copy, clear, lock, exit | timers against later copies and other applications | a copy does not outlive its delay or its session |
| Security centre (`core/services/security_center.rs`, `app/ui/windows/main_window/security_center.rs`) | report, worker, filter | analyse, follow changes, show | workers read vaults one by one while they change | a report that followed every change is exact |
| Profile page (`app/ui/windows/main_window/profile_view/`) | the user's row, form, second factor | save, load, enrol, remove | overlapping threads with the values of their start | the page shows what is stored; address and factor change on proof |
| Import (`core/services/import_service.rs`, `import_progress_dialog.rs`) | counters, progress, critical operations | choose, preview, insert row by row, report | rows fail, the file changes, several at once, the window closes | counts add up, a close waits, the dialog ends |
| URL check (`crates/heelonvault-url-check/`, `app/ui/widgets/url_security.rs`) | text, consent, check under way | type, ask, agree, resolve, connect, cancel | a result after the text changed, mixed addresses | a result is of the text on screen, only public addresses are contacted |
| Updates (`app/ui/updates/`) | consent, preferences file, status | check, agree, withdraw, stop | torn file, clock set back, late answers | no request without consent, "checking" ends |
| Password generator (`core/services/password_service.rs`) | none | generate, validate | modulo bias | every character as likely as another, every class present |

How they meet: the login dialog calls the sign-in policy and the key hierarchy, and hands the
key to a new main window (session). A password change started in that window runs in the key
hierarchy and delivers its key to the session's cell, whatever happened to it. Lists, editor,
import, security centre and profile capture that key when a handler runs and write through the
vault and secret services; what they change comes back to each other as a refresh. A restore
replaces the database under all of them, by a restart.

## Modules

| Module | Component | Run |
|---|---|---|
| `AccountAccess` | abstract: what the owner of an account is promised | |
| `AccountRekey`, `MCAccountRekey` | the key hierarchy; implements `AccountAccess` | `account_format`, `legacy_single`, `legacy_shared`, `rekey_trash` |
| `SessionLock`, `MCSessionLock` | windows, timer, PIN, dialogs, late results | `session_lock` |
| `SecretPromise` | abstract: what a user is promised about secrets | |
| `SecretLifecycle`, `MCSecretLifecycle` | rows of vaults and secrets; implements `SecretPromise` for one save at a time | `secret_lifecycle` |
| `BackupRestore`, `MCBackupRestore` | files of the database, export, restore, recovery reset | `backup_restore` |
| `SignIn`, `MCSignIn` | first account, sign-in screens, attempts, policy, codes | `sign_in` |
| `WorkView`, `MCWorkView` | sidebar and secret list of a main window | `work_view` |
| `OpenSession` | clipboard, and the centre's report against locks | `open_session` |
| `SecurityAudit`, `SearchMatch`, `PasswordGenerator`, `RateLimit`, `EntryEditor`, with `MCEntries` | report and badges, search, generator, address limits, editor page | `entries` |
| `UpdateCheck`, `UrlCheck`, `CsvImport`, `ProfileForm`, `TwoFactor`, `VaultAccess`, side by side in `ProfileParts`, with `MCProfile` | updates, URL check, import, profile page, second factor, access | `profile` |
| `AccountRekeyProofs`, `BackupRestoreProofs`, `OpenSessionProofs` | theorems about the module they are named after | |
| `SecurityProofs` | theorems about `SessionLock` and `SecurityAudit` | |
| `SecretLifecycleProofs` | theorems about `SecretLifecycle` and `EntryEditor` | |
| `SignInProofs` | theorems about `SignIn` and `RateLimit` | |
| `MainWindowProofs` | theorems about `WorkView`, `SearchMatch` and `PasswordGenerator` | |
| `ProfileProofs` | theorems about the modules of `ProfileParts` | |

`MCEntries` and `MCProfile` hold several modules that share no state: a variable `part`, or a
disjunct, chooses which one steps, so that the state spaces are added up and not multiplied.

### AccountRekey

A ciphertext is the key that opens it: `wrap[v] = k` says the key envelope of vault `v`
decrypts under `k` and no other key. That is what AES-GCM under a 256-bit key gives the code,
and the properties tell nothing more apart. `stored` is the `users.password_envelope` column,
`cached` the copy `AuthServiceImpl` keeps; the two differ between a commit and
`upsert_password_envelope`, which is where most of the hazards are.

A login or password change is a thread with a program counter (`rekey[t].stage`) that stops at
each `await` of the code:

    derived -> list -> unwrap -> phrase -> commit -> verify -> cache -> deliver      (change)
    derived -> (rederive -> list -> ... -> deliver)                                  (login)

`ChooseChange` reads the cached envelope a second time, as the code does, and picks
`replace_password`, `migrate_to_account_key` or `rekey_legacy_account`. `UnwrapVault` opens one
vault per step, `ReadTotp` and `ReadPhrase` read the TOTP secret and the recovery material (the count
of secrets that `check_secrets` makes in between changes nothing and is left out), `CommitRewrap` is the one transaction of
`apply_master_key_rotation_atomically`, `Verify` its read-back. `FailRekey` is both the errors
other threads cause (`Mismatch`) and a bounded number of storage errors.

Around it: `Writers` capture the session's key and use it later (create a vault, enrol or drop
TOTP, seal the recovery key), vaults go to the trash and come back, a share is revoked, the
window closes, the process restarts (`Restart` reloads `cached` from `stored` and forgets every
thread).

Bounds: `MaxLogins` (sign-in dialogs in flight; each disables its button), `MaxTrashed`,
`MaxFailures`, and the finite `Keys`. A new key is any key held nowhere (`FreshKeys`), so a key
returns only when nothing can tell it from a new one; three or four keys are enough for no
re-key to starve in the runs of one thread. In `legacy_shared` a third change may have to wait for one;
with four keys and two passwords the run passes too. `SingleAccount` is fixed in a behaviour: no second
account is created while one is open.

### SessionLock

Each action is one callback of the GTK main loop or one step of a background thread. A window is
a record of the cells `build_main_window` creates. Time is a `Tick`: it takes one from each timer
source and ages each PIN cache up to `PinHardTimeout`, where ages stop being told apart.

The modal dialogs take the input of every window (`UsableBy`), so a user can act on a window only
with no PIN or PIN-setup dialog on screen; threads and timers ignore that. `PinFallback` presents
the sign-in screen twice, as the callback does; `Quit` is the process ending and starting again.
`ChangePassword` stands for all of `AccountRekey`: some key is stored, the same (account format)
or another (legacy), and `ChangeDone` writes it to the cells of the window the change came from.
A window value is used again for a new sign-in only when no closure holds it (`Unused`).
`Reset` deals with `PIN_HARD_TIMEOUT` and `DEFAULT_AUTO_LOCK_TIMEOUT_SECS` as one constant: both
are twelve hours.

Bounds: `MaxScreens` (windows and dialogs, checked where a second dialog appears), the sets of
windows, threads and delays. `Delays` in ticks keep the order that matters: shorter than,
and below, the hard timeout of the cache.

### SecretLifecycle

`item[s]` is the row of a secret: its place in life (`deleted_at`, or no row), the vault it is in
(`at`), the vault whose key opens its blob (`under`), a title and a value. Nothing in the schema
ties `under` to `at`; that they agree is what the code has to achieve. A vault is live or in the
trash; its name is its number, because lists are in the order of names.

A save is a thread with a stage per `await`:

    list -> look -> keys -> read -> place -> open -> metadata -> value      (edit that moves)
    list -> look -> open -> metadata [-> value]                             (edit in place)
    open -> insert                                                          (create)
    open -> insert -> insert -> ...                                         (import)

`LookInVault` is one turn of the search loop, `Found` the choice of the target, `OpenVaults` the two
keys of a move, `ReadMoved` and `PlaceMoved` the SELECT and the UPDATE of `move_secret`, and the two
statements of `update_secret` are two actions, for they share no transaction. `EndSave` is an error at
any await (a decrypt that fails is the guard of `ReadMoved` that is not met), and the end of an
import. `Ready` is the button, which is enabled again as soon as the result closure runs.

Vault deletion, restore, purge and "empty trash" are one transaction each. A restore or a purge
comes from a row of the dialog (`listed`), with the vault the row had then. `ResolveVault`,
`OpenAsOwner` and `EmptyVault` are the three awaits of "empty trash"; `open_vault` decrypts the
owner's envelope with the user's key, so it gets nowhere with a vault of others.

`Init` is any database the program can have left: blobs under the key of their vault, no live
secret in a deleted vault. `Restart` drops threads and dialogs and keeps the rows.

### BackupRestore

A database is its data (a number, one per write), the password of its account, the phrase its
account key is sealed with and the phrase its verifier was built from. A file is what it holds and
which thread created it: a thread that keeps a handle open writes to that file under any name it
has by then. Files are `main`, `old` (`.bak`), `staged`, the export's one snapshot `snap`, and per
target a partial file and the backup.

An export goes through the dialogs (verifier, re-entry or a new phrase, its saving and
confirmation), the seal of `ensure_recovery_key`, `VACUUM INTO`, the read of the snapshot by name,
`write_atomic` in four steps and the read-back; `ExportFails` is its clean-up. A restore reads the
backup, creates and fills the staged file, opens and migrates it, resets the password
(`recovery_service.rs`), closes the pool and promotes in three file operations. `Stop` may come
between any two steps; `Start` creates a missing database or refuses an unreadable one.

`LastDataKept` is not in a run: `LostDatabase.cfg` shows that a stop between the two renames, the
empty database of the next start and one more restore leave no copy of the last database that had
data, for the promotion removes the earlier `.bak` first (`app/main.rs:1404`).

### SignIn

Ages and codes are relative to now: a tick is one TOTP step, ages past everything the policy tells
apart are one value (`OldAge`), as are failures past `FailCap`. An attempt is a thread with a stage
per await: `check` (the policy), `derive`, `second` and `code` (the factor), `record` and `reset`,
then the answer to its screen. Pressing Enter in the field of the code reaches the handler even
with the button insensitive, so two attempts of one screen can be in flight. The first account is
made by four statements (`account` counts those that were committed); a stop between them leaves a
database the guard refuses for ever (`admin_service.rs:90`), which the model reaches. A restart
forgets the guard's codes: `CodeOpensOnce` speaks of one process.

### WorkView and OpenSession

In `WorkView` a refresh, a load or a mutation takes a free slot, and its answer is applied by the
main loop. A refresh asked for while one is under way is dropped, as in the code; one whose thread
fails leaves the guard of the sidebar up (`StuckRefresh.cfg` shows it: a vault deleted since it was
listed is enough). Loads carry no generation: `page = "shown"` stands for the list and for the page
that says there are no secrets yet.

In `OpenSession` the contents of the vaults are a revision number, so a report is the revision it
was read from. The clipboard differs in the two builds (`windows`): a provider that can be
withdrawn, or a text that must be overwritten and whose wipe the system may refuse (`stuck`). A
value decrypted before a lock that is undone by the PIN still lands (`secret_flow.rs:476`): the
session is then open. The 150 ms in which Windows' own history could take a copy are left out.

### SecurityAudit, SearchMatch, PasswordGenerator, RateLimit, EntryEditor

`SecurityAudit` has the worker of the centre, which reads the vaults one by one while entries are
edited, moved and removed, and the lists with their badges, which are read by other threads. `owed`
counts changes the page has not followed, so that what is said of a report is said when nothing is
owed; a list is only said to be true when nothing changed since it was read (`since`), because
nothing orders the answers. `security_center.rs:201` says that groups are shown when "every member
of a group is listed"; `GroupsShown.cfg` shows a page that lists some of them.

`SearchMatch` holds one entry against one query; `within_one_edit` is the loop with two indices,
one step per turn, against the definition of an edit. `PasswordGenerator` draws words below
`MaxWord` and reduces them as the code does, so that bias can be seen; its alphabets are small.
`RateLimit` counts an attempt by a SELECT and a later UPDATE or INSERT; overlapping calls lose
counts, which the ghost `raced` excuses in `AddressHeld`.

`EntryEditor` has the access check of the add button, the page, the two threads that fill it, and
saves that outlive it. Several orders that look wrong are as in the code and in the model: a save
pressed before the secret was read sends blank fields; the success of a save of a page that was
left closes the page that replaced it (`window/editor.rs:91`); buttons are enabled again before the
result. The check of fields before a save and the thread of the centre's "edit" are left out.

### UpdateCheck, UrlCheck, CsvImport, ProfileForm, TwoFactor

`UpdateCheck` writes the preferences file in place: a failed write or a stop leaves it torn, which
reads as no consent. `UrlCheck` takes a text for what the parser finds in it and an address for its
block. An origin is a tuple for the five schemes that have one and opaque for the others; a target may
be too long, name port zero, or be a name that is local, rooted or nobody's. An answer longer than
`MAX_DNS_RESULTS` is refused whole, as is one with an address that is not public, and of the others
`MAX_CONNECT_ATTEMPTS` addresses are tried. The addresses of the two refused answers occur in no other,
so that contacting one of them shows. `CsvImport` reads the file for the preview and again for the
import (it may differ by then), inserts row by row with the key copied when the file was chosen,
and counts critical operations for the close request; rows past the limit are dropped silently.

`ProfileForm` has each save as a thread with the values of its start; the ghost `doubt` marks
overlaps, after which the page owes nothing until it is loaded again. A page whose load failed
opens with an empty identity, and the next change of language writes it (`OnlyLanguage.cfg`).
`TwoFactor` identifies a code with the secret it was made from: what is stored must be the secret
that was confirmed, whatever the page drew meanwhile; the ghost `crossed` marks a store and a
removal that overlapped.

### VaultAccess

The tables are `people` (role), `vaults` (owner, `deleted_at`), `shares`, `teams` and `members`;
`accessible_vaults` is the view of migration 0014 over them. A call of the vault service is a
request with a stage per statement: account, row of the view and permission check, then the
envelope, the deletion or the count. It remembers the roles and rights its user had while it ran
(`roles`, `rights`): as the statements share no transaction, an answer can only be right for some
moment of the call, and that is what `AnswersEarned` asks.

The services that share vaults and manage teams and users are not in the repository, so their
statements (`insert_key_share`, `replace_all_key_shares`, `delete_user`, ...) come in any order.
The model shows what these statements do to each other: a rotation writes shares without a role,
so every one becomes `read`; a grant replaces an earlier one, its team included; deleting a team
makes the shares given through it direct ones, which revoking by team no longer finds (migration
0012 gives the column for that purpose); removing a member leaves the shares. An administrator of
the program may delete any vault that is shared with them, whatever the role of the share.

## Runs

| Run | Instance | What it shows |
|---|---|---|
| `account_format` | two re-keys, a writer, two vaults, three passwords, one trashed vault, one storage error, stops anywhere | with an account key nothing ever leaves the key: `EveryVaultOpens`, `OneAccountKey` (window and blobs), and the refinement `AccessKept` |
| `legacy_single` | one thread, the only account, migration | `SettledAtRest`: once nothing runs, session and cache agree with the database; it ends (`RekeyEnds`) |
| `legacy_shared` | two threads of a legacy account next to other accounts, three passwords, a share that may be revoked under them, one storage error, stops anywhere | overlapping changes and sign-ins supersede one another, and still no vault is left under another key than the stored one (`EveryVaultOpens`) |
| `rekey_trash` | one vault in the trash | **violated** `RekeyRewrapsEverything`: vaults are listed from `accessible_vaults`, which has live ones only; a trashed vault keeps its old envelope and is unreadable once restored |
| `session_lock` | one window, a PIN, a change and a delay in flight | `NoStrayTimer`, `WayBackIn`, and `IdleLocks`: a window its user left locks |
| `secret_lifecycle` | one save, an "empty trash" thread, two secrets, a vault of the user and one of others it administers | `ReadableByVaultKey`, `SavedIsStored` (a save reported done is stored) and the refinement `SecretsKept` |
| `backup_restore` | one export, one restore, two phrases, a write, a stop and a failure anywhere | `ServedIsWhole`, `BackupRestorable`, `RestoredOpens`, `WayBackKept` |
| `sign_in` | one screen, two attempts, codes in and out of time, the factor switched, stops | `LockHolds` (overrun by no more than what was in flight), `SignInEarned`, `ScreenHeld`, `CodeOpensOnce` |
| `work_view` | up to three vaults, two refreshes, two loads, one mutation, three inputs, one error | `RowsOnce`, `ListIsActive`, and `LoadingEnds`: no list stays on its loading page |
| `open_session` | two copies, one value being decrypted, two workers, one mutation, one failure, both builds | `ServedIsTimed`, `LockedServesNothing`, `ReportFresh`, and `CopiesExpire` |
| `entries` | three secrets in two vaults and two loaders; every word of four or five letters against every word of three to six; a generator over five characters; two callers of one address; two pages and two saves | `PagesTrue` (report, shield, list and menu), `EditsExact`, `SearchTrue`, `PasswordsEarned`, `AddressHeld`, `SavedAsShown` |
| `profile` | three tags, two days, two faults; fourteen texts, five lookups; two imports of three rows; two saves; two second-factor threads; one call among two statements of other services, and two calls among one | `ChecksTrue`, `AddsUp`, `AccountEarned` (address, second factor, access), `PageTrue`, `AutomaticEarned`, `CloseWaits`, `ProfileEnds` |

Configurations to be run by hand, each of which shows that a property kept in a module is false of
the code (TLC stops with a counterexample):

| Configuration | Module | What it shows |
|---|---|---|
| `RekeyTwice.cfg` | `MCAccountRekey` | `DeliveredKeyOpensVaults`: of two password changes of a legacy account, the first delivers a key the second has replaced |
| `LateKey.cfg` | `MCSessionLock` | `LockedHoldsNoKey`: the result of a password change puts a key in a window locked meanwhile |
| `NeverThenFive.cfg` | `MCSessionLock` | `IdleLocks` with Never among the delays: another delay does not arm the timer before the next sign-in or unlock |
| `LostSecret.cfg` | `MCSecretLifecycle` | `ReadableByVaultKey` with two saves: one that opened the old vault's key writes its blob after the other moved the row |
| `EmptyTrash.cfg` | `MCSecretLifecycle` | `EmptiesTrash`: the dialog lists the trash of all owned vaults, the button empties the first vault of the list |
| `LostDatabase.cfg` | `MCBackupRestore` | `LastDataKept`: see BackupRestore above |
| `StuckRefresh.cfg` | `MCWorkView` | `FlagMeansRefresh`: a refresh that fails leaves the guard of the sidebar up |
| `GroupsShown.cfg` | `MCEntries` | `GroupsWhole`: a page of the report cuts a group in two |
| `OnlyLanguage.cfg` | `ProfileForm` | `OnlyTheLanguage`: after a load that failed, a change of language erases the name |

`BackupRestore` with two exports loses `BackupRestorable` (one snapshot name) and with two restores
`ServedIsWhole` and `RestoredOpens`: the busy flag of the dialog is cleared when the thread starts
and not when it answers (`restore_flow.rs:393`). The run therefore has one of each; add a member to
`Exporters` or `Restorers` in `BackupRestore.cfg` to see either.

Type invariants are proved where there is a theorem (below). Those of `SecurityAudit` (`AuditOK`),
`SearchMatch` (`SearchOK`), `UrlCheck` (`UrlTypeOK`) and `UpdateCheck` (`UpdateTypeOK`) hold in the instances of the runs: put them in the INVARIANTS of the configuration.

### Why the bounds are enough

Two threads per kind are the first number at which one can overtake another, and every hazard of
the list is between two. Two vaults let one be re-keyed, searched or shared and the other not.
Three passwords let a second change start from the password the first one set. The legacy
property that needs the threads apart (`SettledAtRest`) is checked with one thread because with two
it is false of the code (`RekeyTwice.cfg`), and `RekeyEnds` with it. `SecretLifecycle` has one save
because with two `ReadableByVaultKey` and what follows from it are false (`LostSecret.cfg`);
`PurgesOwnTrash` and `HiddenOnlyByLateSave` do not depend on it and are proved for any number.
`Skew = 1` and `ReplayTtl = 3` are the code's constants in TOTP steps; a lock of two failures and
two ticks has an attempt before, at and after it. Three inputs let a user start something, change
their mind, and act on the answer; one error and one stop hit every step once. Words of three to
six letters have an edit at the start, in the middle and at the end; the proof removes the bound. With `MaxWord = 7` a
choice among five leaves a rest, which is what the zone of the generator is about.
`VaultAccess` is explored with one call among two foreign statements and with two calls among one:
longer histories of statements reach the same tables.

`legacy_shared` has no writer and is next to other accounts, so that nothing migrates; both matter. With
a writer (`LegacyShared.cfg` with `Writers = {w1}` and no symmetry) TLC finds a vault created with the
old session key after the re-key that replaced it. In a database of one account (`RekeyTwice.cfg` with
`SingleAccount = TRUE`, `MaxFailures = 1` and `INVARIANT EveryVaultOpens`) it finds a sign-in whose
migration failed, then two overlapping changes of which one migrates while the other stands before
its transaction, and a third that unwraps the key of the first to replace the password. The second
commits its own key, the third stores the superseded one: nothing stored opens the vaults.

Deadlock is checked except where the program really may stop: `work_view`, `open_session`,
`entries` and `profile` bound what the user does, and a behaviour ends when nothing is under way.

### Fairness

Every fairness condition is about a thread or a timer of the program, never about the user, other
applications, writers or stops:

- `AccountRekey!FairSpec`: each thread (every await of a local database call returns).
- `SessionLock!FairSpec`: time, a due timer source, and the thread that reads the delay at sign-in.
- `WorkView!FairSpec`: each refresh and each load, with its answer on the main loop.
- `OpenSession!FairSpec`: the timer of a copy, the 250 ms source of the centre, each worker and its answer.
- `UpdateCheck`, `UrlCheck`: the answer to a request, and every step of a check, which has time limits of its own.
- `CsvImport`: each import's thread, its answer and the pulse of its dialog.

`IdleLocks` is checked with delays other than Never. With Never among them it is false:
`NeverThenFive.cfg`.

## Proofs

All theorems hold for every value of the constants that meets the named assumptions of the
modules: any sets of threads, vaults, passwords, keys, windows, any delays and limits.

`AccountRekeyProofs`

- `TypeCorrect`: `Spec => []TypeOK`. The inductive invariant adds `NewIsKey`: a thread past
  `derived` carries a key in `new`, which `NewEnvelope` stores.
- `AccountVaultsOpen`, `AccountKeyShared`, `AccountKeepsAccess` (account format). `EveryVaultOpens`
  alone is not inductive: a writer may hold another key, a cached envelope may yield one. `OneKey`
  says that every place a key can be read from (cache, threads, writers, session, blobs)
  holds the stored key or nothing, and `AbsentHasNoKey` that a vault never inserted has no
  envelope, so that creating it adds to what opens. The refinement follows: initial states map to
  initial states, every step maps to a step of `AccountAccess` or a stutter.
- `CommittedIsWhole` (both formats, any number of threads; checked by no run): a committed re-key that
  is still the stored one (`CommittedRekeyIsWhole`, which speaks of the stages `verify` and `cache`) has
  every vault it opened under its key. The invariant `WholeInv` says a key newly taken by a re-key is in
  no envelope but those it wrote (`KeyIsolated`), and that the vaults it opened had been inserted
  (`OpenedInserted`), so that no creation replaces their envelope.
- `LegacyVaultsStayTogether`: `EveryVaultOpens` for a legacy account whose re-keys overlap, in any number
  (`Overlapping`: a multi-account database, no writer, an empty trash). The transactions are ordered, and
  whoever commits last must have every envelope under its key. `Gathers` says that from the list on a
  thread has opened or still has to open every vault with an envelope, and that the user's own vaults do
  not lose theirs, so that the transaction writes all there are or, a share being gone, nothing. A vault
  created meanwhile by a writer, or one in the trash, would be in no list, and in a database of one
  account `replace_password` commits without a list; hence the conditions.
- `SettledWhenAlone` (both formats). `AtRest` says of each stage of the thread how far behind the
  database the process may be: the cache between the commit and `upsert_password_envelope`, the
  window until the key is delivered, nothing at any other stage. It holds under `Undisturbed`, and
  each part of that is needed: a second re-key stores another key under the first one's feet
  (`RekeyTwice.cfg`), and after the commit a storage error ends the thread before it has brought the
  cache and the window up to date, as does a share revoked before the vaults are read back.
- `AloneKeepsAccess` (both formats): a re-key that runs alone implements `AccountAccess`, whose
  state is the set of vaults the stored password opens and whether it reads the second factor. In the
  legacy format every change puts another key in the place of the old one, so the invariant follows
  the thread: `KeepsAll` says that from the list to the commit every vault with an envelope is listed
  or opened, that the decision about the TOTP secret fits the secret, and that the stored envelope is
  still a legacy one, which leaves the only account no window and no writer. The transaction is then
  one `ChangePassword` (`RewrapKeepsAll`), and `LoneSucceeds` says that a lone re-key meets no error.
  `Lone` adds two conditions to `Undisturbed`: no vault in the trash (the list of a re-key leaves
  those out: `rekey_trash`), and, next to another account, no writer (a vault created while the
  account is re-keyed keeps the old key).
- `RewrapsAllWhenAlone`: under the same `Lone`, what the comment of `rewrap_account` promises
  (`RekeyRewrapsEverything`) holds in either format. The run `rekey_trash`, which violates it, meets
  every part of `Lone` but the empty trash: the trash is all that the comment overlooks.
- `DeliveredKeyIsCurrent`: in the account format the key a change delivers is the one key there is; in
  the legacy one it is the stored one if re-keys do not overlap (`OneRekeyer`), whatever writers, errors
  and restarts do. `Delivers` says that from the commit on the thread carries the stored key.

`SecurityProofs`: for `SessionLock`, `LockInv` says of each window that an armed auto-lock belongs to a window in
use, a timer source to an armed one, the PIN dialog to a visible one, and that a window in use has its
key; and that with no window on screen a sign-in dialog is. From it `SessionTypeCorrect`,
`NoTimerSurvives` and `AlwaysAWayIn`. `LockTakesTheKey` adds that a window with a key is in use, which
needs `Changers = {}`: `LateKey.cfg` shows why.

For `SecurityAudit` (any entries, vaults, passwords, estimator and loads), `AuditInv` says what the
two readers have seen of the store as it is. While no change is left to follow, the worker of the
centre has a row for each entry of the vaults it opened, in some order, with what is found in it by
itself and one print for each text it could read (`WorkOf`), and a report on screen was made of such a
worker at its end. A load begun after the last change has rows for the first of the entries it
listed and still has the others to read (`Loading`). Nothing is said of a reader that a change has
overtaken: with a change under way the callback is still due (`StoreInv`), and it drops worker and
report and begins another load. That groups are those that share a text (`MatesAre`), that
rows in a list of distinct entries are counted as entries (`CountIs`) and that the verdict of a
password is the one stated on it (`VerdictIs`) are lemmas; `PagesAreTrue` joins them.

`SecretLifecycleProofs`: `LifeInv` gives the rows and saves their types, and says that an "empty trash" thread
past `open_vault` holds a vault of the user. It is enough for `LifeTypeCorrect`, `OnlyOwnTrashDies`
and `OnlySavesHide`, for any number of saves, and for `OneVaultIsEmptied`: to a user who owns one vault
(`OwnsOne`) "empty trash" leaves nothing in the trash (`EmptyTrash.cfg` has two). `ReadableByVaultKey` is not inductive: a move is about
to write a value read earlier under a key opened earlier. `TrackInv` adds what a save knows (`Tracks`):
the secret it searched is, if kept, where it was found, and a value read is still the row's. Other
threads keep it because they change no vault, key or text of a row; another save would not, so
`ReadableOneAtATime`, `SavedOneAtATime`, `MovesOneAtATime` and `PromiseOneAtATime` assume `OneSaver`: all savers are one. `LostSecret.cfg`
shows that the assumption is needed, and the code does not enforce it.

`StoredAsShown` is about the editor, for any number of pages and saves: `PageOK` says that on an open
page every field is as it was read unless the user touched it, and that the chosen pill is the target
of a save; `SaveOK` that a save under way still carries what its page showed at the press.

`SignInProofs` (for any finite set of attempts, any screens, any positive limits, and a memory of
codes that covers the time they are accepted, `ReplayTtl >= 2 * Skew + 1`): the inductive invariant
is one conjunct per question. `AllEarning` says what an attempt has shown at its stage, from which
`SignInIsEarned`; `Boot` that one screen at most creates the account, for one thread at most;
`ScreenHeld` is inductive beside it (`ScreensAreHeld`); `Remembered` that a code spent and in time
stays in the guard for as long, from which `CodesOpenOnce`; `LockInv` that while the account is
locked, the failures recorded since and the attempts past the check are together fewer than the
attempts, from which `LockThatHolds`.

For `RateLimit`, `AddressLimit` rests on `Tallied`, which ties the row to the attempts it has
forgotten: those before the ones it counts are not later than the start of its window, and of those
within a window of the last attempt there are at most as many as two counters can hold between them,
the one before the restart and the one after. `Calling` adds that a call under way read the row as it
still is. The proof found the statement false for `max_attempts = 1`, where the first attempt locks:
`Run` is 2 there, and `2 * max_attempts - 1` otherwise.

`BackupRestoreProofs` (any sets of targets, phrases and passwords): `General` gives the types, what
each thread carries at its stage, and who runs in a process that is up. `ExportInv` says for the
stages of an export which database its snapshot holds and that the phrase it carries resets the
account in it, so that what is written, renamed and read back can be restored; `RestoreInv` says for
the stages of a restore who may still write to the file under each name, and which database each of
them holds. Exports and restores are proved apart: `BackupsCanBeRestored` assumes one export at a
time (`OneExporter`) beside any number of restores, and `ServedStaysWhole`, `RestoredDatabaseOpens`
and `WayBackIsKept` one restore at a time (`OneRestorer`) beside any number of exports. Neither can be
dropped: two exports share the one name of the snapshot, and the dialog lets a second restore start
before the first has answered. `BackupTypeCorrect` needs neither.

`MainWindowProofs`: what is listed, on screen or in flight exists or existed (`ViewTypeCorrect`). There
is one refresh at a time, it holds the guard over an emptied sidebar and its list names no vault
twice (`OneRefresh`), so rows are appended once (`OneRowEach`). A deletion that answers names a vault
that is gone (`JobsKnown`), and only that empties the active vault (`ShownIsActive`). The guard comes down
(`GuardComesDown`) while no statement fails and no vault is being deleted (`Calm`): the thread that
holds it cannot fail, for all it listed is still there to be counted (`WillLower`). `StuckRefresh.cfg`
shows it left up by a failure.

`OneEditDecided` says the loop with two indices answers what the definition of
one edit says, for words of any length. The invariant says what the two indices have passed: with no
edit spent they are equal and the words agree before them (`Agreeing`); with one spent there is a
first difference, after which the words agree as their lengths say (`Differing`). Lemmas on sequences
tie both to the definition.

`SearchIsExact` stands on it: `AskedInv` says that the terms passed are satisfied, and of the term under
comparison that it was not met in part and that none of the words compared so far is near, so that
the early ends of the loops change no answer. That a space after a colon changes no term
(`SpacedAsks`) is proved from the places of the tokens in the two queries.

`GeneratedPasswords`: the zone the generator accepts is a whole number of times the bound, so each
index is given by as many words (`EvenWords`, from division with remainder), and one word at least;
filling adds one character of each class before any other (`Kept_`), and a swap keeps the classes that
are present.

`OpenSessionProofs`: timer, provider, indicator and pending mark are of one copy, the last
(`OneCopy`), and what can be pasted is of that copy (`OnlyOurs`), from which `PastedIsTimed`; without
a key the indicator shows a phrase or nothing (`KeyedCopy`), from which `LockClearsCopies`; a worker
whose answer counts read after the last refresh (`Current`), from which `ReportsAreFresh`.

`ProfileProofs` (any users, vaults, texts, files, limits, threads and bounds). None of the six modules
touches another, so each has its own invariant, and the properties of the run `profile` that join
several follow (`PageShowsStored`, `NothingUnearned`, `ChecksAreTrue`).

- `TwoFactor` (`SecondFactorProved`): a thread that enables carries a secret that was proved, and while
  no two crossed there is one thread, between whose stages page and row differ as `Between` says.
- `ProfileForm` (`AddressVouchedFor`): every address a save carries is earned (`CarriedEarned`); with
  one save under way the form is what that save will make true (`OneSave`). From the latter a change of
  language writes the language only (`LanguageLeavesIdentity`), provided the load did not fail, as it
  has in `OnlyLanguage.cfg`, and no saves overlap.
- `VaultAccess` (`AccessByRight`): a call has on record the role, right and shares its user has now
  (`UpToDate`), each of its stages rests on something on record (`Grounded`), and its answer
  fits what is on record (`Fits`). A created vault takes an identifier no other call creates
  (`CreateAlone`), which keeps the tables whole.
- `UpdateCheck` (`CheckIsAlive`, `RequestsAreEarned`): a page that checks waits for the one request of
  its generation, whose handle it keeps (`Alive`); the last request is on record in memory and on
  disk, unless the file is torn, which reads as no consent (`Recorded`).
- `UrlCheck` (`UrlChecked`): a check of the present turn is the only one and of the text on screen
  (`Present`); what it has left to try came whole from a lookup of public addresses (`ProbeOK`).
- `CsvImport` (`ImportCountsTrue`, `ClosingWaits`): at every stage the rows stored and the rows
  listed as failures are apart, without repetition, and together as many as were read (`Begun`,
  `Summed`); the counter of critical operations is the number of jobs that run. What a file keeps in
  order is a rank of its rows, which needs induction over the naturals: `CountsUp` has it for sets.

Assumptions on constants are named where the constants are declared. Beside the types of sets and
bounds they say that a value that stands for nothing is none of the values it stands beside
(`NoneIsNoFile`, `NoRowIsNoRow`, `NothingIsNoVerdict`, `GoneIsNoRow`, ...), that the policy of an
address has a window no longer than its lock, as the default policy has, and that the words
of the generator are more than its characters (`WordsAreMany`: 2^32 against at most 128).

Only model-checked: liveness (`RekeyEnds`, `IdleLocks`, `LoadingEnds`, `CopiesExpire`,
`ProfileEnds`), which is out of the prover's reach. `CommittedRekeyIsWhole`, and `AccessKept` for a
legacy account, are proved and checked by no run: `account_format` checks the latter in the other
format, under full concurrency.

## Hazards

`PROJECT.json` lists them with their lines and the properties that cover them. A note says what no
property of a run covers: a case the run leaves out, or one in which the code does what it should not,
where a configuration above (or a variation of it that the note names) finds the property violated.

## Not modelled

- Cryptography as bytes, SQLite's own recovery, the operating system's file cache: a committed
  transaction and a rename are taken to survive a stop.
- Audit log: append-only inserts without decisions; where a failed insert fails a call the model
  says so (`InsertVault`).
- GTK widgets, themes, translations, layout, wording, animations, drag and drop of vaults.
- The services behind sharing, teams, users, licences and federation, and the screens that only show
  that the Community build lacks them. `auth_service::create_user` and `change_password` have no
  caller in the repository.
- Scores of single passwords, the PDF of the report, usage counters, login history.

## What is left

Of a legacy re-key under concurrency, `LegacyVaultsStayTogether` settles overlapping re-keys next to
other accounts. Open is which vaults a writer beside it leaves under the old key, and under which
condition a migration that overlaps another change keeps them. Shares revoked while a save runs would need `VaultAccess` and `SecretLifecycle` in one
module.
