---------------------------- MODULE AccountRekey ----------------------------
(***************************************************************************)
(* The key hierarchy of one HeelonVault account while its password is      *)
(* changed or its credentials are migrated.                                *)
(*                                                                         *)
(* One key protects an account: the master key derived from the password   *)
(* (legacy format) or a random account key (current format).  It wraps the *)
(* key of every vault, the TOTP secret and the recovery material.  A       *)
(* password change re-wraps all of that in several awaits, each on a       *)
(* thread of its own, while other threads create vaults, enrol TOTP or     *)
(* seal the recovery key with the key the window held when they started.   *)
(*                                                                         *)
(* A ciphertext is modelled by the key that opens it: wrap[v] = k says the *)
(* stored key envelope of vault v decrypts under k and under no other key. *)
(***************************************************************************)
EXTENDS Naturals, FiniteSets

CONSTANTS
  Rekeyers,      \* threads that run a login or a master-password change
  Writers,       \* threads that create a vault, enrol TOTP or seal the recovery key
  Vaults,        \* vault identifiers
  SharedVaults,  \* those owned by another account and reached through a key share
  Passwords,     \* master passwords
  Keys,          \* derived master keys and random account keys
  None,          \* an absent key, an SQL NULL
  InitialFormat, \* password envelope format of the account at startup
  SingleAccount, \* is this the only account of the database?
  MaxLogins,     \* bound: logins in flight at once, one per login dialog on screen
  MaxTrashed,    \* bound: vault deletions before and in a behaviour
  MaxFailures    \* bound: storage errors met by a re-key in a behaviour

Formats == {"legacy", "account"}

ASSUME VaultsFinite == IsFiniteSet(Vaults)
ASSUME SharedAreVaults == SharedVaults \subseteq Vaults
ASSUME NoneIsNoKey == None \notin Keys
ASSUME FormatAssumption ==
  /\ InitialFormat \in Formats
  /\ SingleAccount \in BOOLEAN
  \* AuthService::create_user refuses a second account next to an account key.
  /\ InitialFormat = "account" => SingleAccount
ASSUME BoundsAreNaturals ==
  MaxLogins \in Nat /\ MaxTrashed \in Nat /\ MaxFailures \in Nat

VARIABLES
  stored,   \* users.password_envelope
  cached,   \* the copy of it AuthServiceImpl keeps in memory
  row,      \* [Vaults -> state of the vaults row: never inserted, live, soft-deleted]
  wrap,     \* [Vaults -> key that opens the account's envelope of the vault, or None]
  totp,     \* key that opens users.totp_secret, or None
  phrase,   \* key that opens users.recovery_phrase_envelope (legacy), or None
  sealed,   \* account key sealed in users.recovery_key_envelope, or None
  session,  \* key held by the open main window, None when signed out
  rekey,    \* [Rekeyers -> progress of the login or password change it runs]
  writer,   \* [Writers -> kind of write in flight and the key it captured]
  trashes,  \* vault deletions, those of earlier sessions included
  failures  \* storage errors so far

blobs == <<totp, phrase, sealed>>
vaults == <<row, wrap, trashes>>
vars == <<stored, cached, row, wrap, totp, phrase, sealed, session, rekey,
          writer, trashes, failures>>

-----------------------------------------------------------------------------
KeyOrNone == Keys \union {None}

(* A decoded password envelope: `password` opens it and yields `key`. *)
Envelope == [format: Formats, password: Passwords, key: Keys]

(* UserEnvelopeChange: what a re-key does to a blob of the users row. *)
Changes == {"keep", "replace", "clear"}

Modes == {"login", "change"}

(* Which routine of rekey_service runs; "none" until it is chosen. *)
Routines == {"none", "replace_password", "migrate", "rekey_legacy"}

(* Where a login or a password change stands:
     derived  the password opened the cached envelope, `old` is its key
     rederive the login found a legacy envelope and derives the key again
     list     the routine is chosen, `new` is the key to wrap under
     unwrap   `todo` are listed vaults not yet opened, `opened` those that were
     phrase   the TOTP secret of the users row is read, the phrase is not
     commit   both are read, nothing is written yet
     verify   the transaction (or the envelope update) is committed
     cache    everything read back opens with `new`
     deliver  the cached envelope is replaced, the result goes to the window
   A change keeps the session of the window that started it: `attached` says
   that window is still the one in use. *)
Stages == {"idle", "derived", "rederive", "list", "unwrap", "phrase", "commit",
           "verify", "cache", "deliver"}

RekeyState ==
  [stage: Stages, mode: Modes, routine: Routines, password: Passwords,
   old: KeyOrNone, new: KeyOrNone, todo: SUBSET Vaults, opened: SUBSET Vaults,
   attached: BOOLEAN, totp: Changes, phrase: Changes, sealed: Changes]

WriteKinds ==
  {"idle", "create_vault", "enable_totp", "disable_totp", "seal_recovery_key"}
WriterState == [kind: WriteKinds, key: KeyOrNone]

TypeOK ==
  /\ stored \in Envelope
  /\ cached \in Envelope
  /\ row \in [Vaults -> {"absent", "live", "trashed"}]
  /\ wrap \in [Vaults -> KeyOrNone]
  /\ totp \in KeyOrNone
  /\ phrase \in KeyOrNone
  /\ sealed \in KeyOrNone
  /\ session \in KeyOrNone
  /\ rekey \in [Rekeyers -> RekeyState]
  /\ writer \in [Writers -> WriterState]
  /\ trashes \in Nat
  /\ failures \in Nat

-----------------------------------------------------------------------------
(* The accessible_vaults view: live vaults the account owns, and live vaults *)
(* it has a key share of.                                                    *)
Accessible ==
  {v \in Vaults : row[v] = "live" /\ (v \in SharedVaults => wrap[v] # None)}

(* The envelope a re-key stores. A legacy envelope holds the derived key     *)
(* itself, an account envelope the account key wrapped by the password.      *)
NewEnvelope(r) ==
  [format   |-> IF r.routine = "rekey_legacy" THEN "legacy" ELSE "account",
   password |-> r.password,
   key      |-> r.new]

(* rewrap_user_blob: absent stays absent; a blob that does not decrypt under *)
(* the old key is cleared.                                                   *)
RewrapBlob(blob, old) ==
  IF blob = None THEN "keep"
  ELSE IF blob = old THEN "replace" ELSE "clear"

Changed(change, blob, new) ==
  CASE change = "keep" -> blob
    [] change = "replace" -> new
    [] change = "clear" -> None

(* A freshly generated key is in no envelope, no window and no thread. *)
KeysInUse ==
  {stored.key, cached.key, totp, phrase, sealed, session}
    \union {wrap[v] : v \in Vaults}
    \union {rekey[t].old : t \in Rekeyers} \union {rekey[t].new : t \in Rekeyers}
    \union {writer[w].key : w \in Writers}
FreshKeys == Keys \ KeysInUse

Idle(r) ==
  [r EXCEPT !.stage = "idle", !.routine = "none", !.old = None, !.new = None,
            !.todo = {}, !.opened = {}, !.attached = FALSE,
            !.totp = "keep", !.phrase = "keep", !.sealed = "keep"]
IdleWriter == [kind |-> "idle", key |-> None]

Init ==
  /\ \E p \in Passwords, k \in Keys :
       /\ stored = [format |-> InitialFormat, password |-> p, key |-> k]
       /\ rekey = [t \in Rekeyers |->
                     [stage |-> "idle", mode |-> "login", routine |-> "none",
                      password |-> p, old |-> None, new |-> None,
                      todo |-> {}, opened |-> {}, attached |-> FALSE,
                      totp |-> "keep", phrase |-> "keep", sealed |-> "keep"]]
       /\ wrap \in [Vaults -> {k, None}]
       /\ totp \in {k, None}
       /\ phrase \in IF InitialFormat = "legacy" THEN {k, None} ELSE {None}
       /\ sealed \in {k, None}
  /\ cached = stored
  /\ row \in [Vaults -> {"absent", "live", "trashed"}]
  /\ \A v \in Vaults : row[v] = "absent" => wrap[v] = None
  /\ session = None
  /\ writer = [w \in Writers |-> IdleWriter]
  /\ trashes = Cardinality({v \in Vaults : row[v] = "trashed"})
  /\ trashes <= MaxTrashed
  /\ failures = 0

-----------------------------------------------------------------------------
LoginsInFlight == {t \in Rekeyers : rekey[t].stage # "idle" /\ rekey[t].mode = "login"}

(* Sign-in. The password opened the cached envelope; `old` is its key. The   *)
(* dialog disables its button until the result is in.                        *)
BeginLogin(t, p) ==
  /\ rekey[t].stage = "idle"
  /\ session = None
  /\ Cardinality(LoginsInFlight) < MaxLogins
  /\ cached.password = p
  /\ rekey' = [rekey EXCEPT ![t] =
       [Idle(@) EXCEPT !.stage = "derived", !.mode = "login",
                       !.password = p, !.old = cached.key]]
  /\ UNCHANGED <<stored, cached, blobs, vaults, session, writer, failures>>

(* change_master_password: the current password opens the cached envelope.  *)
BeginChange(t, current, new) ==
  /\ rekey[t].stage = "idle"
  /\ session # None
  /\ current # new
  /\ cached.password = current
  /\ rekey' = [rekey EXCEPT ![t] =
       [Idle(@) EXCEPT !.stage = "derived", !.mode = "change",
                       !.password = new, !.old = cached.key, !.attached = TRUE]]
  /\ UNCHANGED <<stored, cached, blobs, vaults, session, writer, failures>>

(* Mutation: every change of a single account rotates the key.               *)
ChooseChange_RotatesKey(t) ==
  /\ rekey[t].stage = "derived"
  /\ rekey[t].mode = "change"
  /\ \E k \in FreshKeys :
       rekey' = [rekey EXCEPT ![t].stage = "list", ![t].new = k,
                   ![t].routine = IF SingleAccount THEN "migrate" ELSE "rekey_legacy"]
  /\ UNCHANGED <<stored, cached, blobs, vaults, session, writer, failures>>

(* The routine is chosen from a second read of the cached envelope, which    *)
(* another thread may have replaced since the key was derived.               *)
ChooseChange(t) ==
  /\ rekey[t].stage = "derived"
  /\ rekey[t].mode = "change"
  /\ LET r == rekey[t]
         start(routine, new) ==
           rekey' = [rekey EXCEPT ![t].stage = "list", ![t].routine = routine,
                                  ![t].new = new]
     IN \/ /\ cached.format = "account"
           /\ start("replace_password", r.old)
        \/ /\ cached.format = "legacy"
           /\ \E k \in FreshKeys :
                start(IF SingleAccount THEN "migrate" ELSE "rekey_legacy", k)
  /\ UNCHANGED <<stored, cached, blobs, vaults, session, writer, failures>>

(* The window opened by a login replaces any other: a change started in      *)
(* another window has nowhere to deliver its key.                            *)
Detached == [t \in Rekeyers |-> [rekey[t] EXCEPT !.attached = FALSE]]

OpenWindow(t, key) ==
  /\ session' = key
  /\ rekey' = [Detached EXCEPT ![t] = Idle(@)]

(* upgrade_legacy_credentials has nothing to migrate.                        *)
OpenSession(t) ==
  /\ rekey[t].stage = "derived"
  /\ rekey[t].mode = "login"
  /\ cached.format = "account" \/ ~SingleAccount
  /\ OpenWindow(t, rekey[t].old)
  /\ UNCHANGED <<stored, cached, blobs, vaults, writer, failures>>

(* A legacy envelope of the only account: migrate it at this sign-in.        *)
NeedsMigration(t) ==
  /\ rekey[t].stage = "derived"
  /\ rekey[t].mode = "login"
  /\ cached.format = "legacy"
  /\ SingleAccount
  /\ rekey' = [rekey EXCEPT ![t].stage = "rederive"]
  /\ UNCHANGED <<stored, cached, blobs, vaults, session, writer, failures>>

(* upgrade_legacy_credentials derives the key again, from the envelope the   *)
(* cache holds by now.                                                       *)
Rederive(t) ==
  /\ rekey[t].stage = "rederive"
  /\ cached.password = rekey[t].password
  /\ \E k \in FreshKeys :
       rekey' = [rekey EXCEPT ![t].stage = "list", ![t].routine = "migrate",
                              ![t].old = cached.key, ![t].new = k]
  /\ UNCHANGED <<stored, cached, blobs, vaults, session, writer, failures>>

(* unwrap_accessible_vaults, the list.                                       *)
ListVaults(t) ==
  /\ rekey[t].stage = "list"
  /\ rekey' = [rekey EXCEPT ![t].stage = "unwrap", ![t].todo = Accessible]
  /\ UNCHANGED <<stored, cached, blobs, vaults, session, writer, failures>>

(* Mutation: a vault without an envelope is not skipped.                     *)
UnwrapVault_NeedsEnvelope(t, v) ==
  /\ rekey[t].stage = "unwrap"
  /\ v \in rekey[t].todo
  /\ wrap[v] = rekey[t].old
  /\ rekey' = [rekey EXCEPT ![t].todo = @ \ {v}, ![t].opened = @ \union {v}]
  /\ UNCHANGED <<stored, cached, blobs, vaults, session, writer, failures>>

(* unwrap_accessible_vaults, one vault: without an envelope it is skipped.   *)
UnwrapVault(t, v) ==
  /\ rekey[t].stage = "unwrap"
  /\ v \in rekey[t].todo
  /\ wrap[v] \in {None, rekey[t].old}
  /\ rekey' = [rekey EXCEPT ![t].todo = @ \ {v},
                            ![t].opened = IF wrap[v] = None THEN @ ELSE @ \union {v}]
  /\ UNCHANGED <<stored, cached, blobs, vaults, session, writer, failures>>

(* rewrap_account, get_totp_secret. Before it check_secrets only counts the   *)
(* secrets the opened vaults can read.                                        *)
ReadTotp(t) ==
  /\ rekey[t].stage = "unwrap"
  /\ rekey[t].todo = {}
  /\ rekey[t].routine \in {"migrate", "rekey_legacy"}
  /\ rekey' = [rekey EXCEPT ![t].stage = "phrase",
                            ![t].totp = RewrapBlob(totp, rekey[t].old)]
  /\ UNCHANGED <<stored, cached, blobs, vaults, session, writer, failures>>

(* A migration drops the stored phrase and seals the new key with it, if it  *)
(* still decrypts; the legacy rekey keeps the phrase and leaves the seal.     *)
PhraseChange(r) ==
  IF r.routine = "migrate" THEN "clear" ELSE RewrapBlob(phrase, r.old)
SealedChange(r) ==
  IF r.routine # "migrate" THEN "keep"
  ELSE IF phrase = r.old THEN "replace" ELSE "clear"

(* rewrap_account, get_recovery_phrase_envelope: another await.               *)
ReadPhrase(t) ==
  /\ rekey[t].stage = "phrase"
  /\ rekey' = [rekey EXCEPT ![t].stage = "commit",
                            ![t].phrase = PhraseChange(rekey[t]),
                            ![t].sealed = SealedChange(rekey[t])]
  /\ UNCHANGED <<stored, cached, blobs, vaults, session, writer, failures>>

(* Every key share to update still has its row, or the transaction fails.    *)
SharesExist(r) == \A v \in r.opened \intersect SharedVaults : wrap[v] # None

(* Mutation: an envelope another re-key has replaced since is left alone.    *)
CommitRewrap_IfUnchanged(t) ==
  /\ rekey[t].stage = "commit"
  /\ SharesExist(rekey[t])
  /\ LET r == rekey[t]
     IN /\ stored' = NewEnvelope(r)
        /\ wrap' = [v \in Vaults |->
                       IF v \in r.opened /\ wrap[v] = r.old THEN r.new ELSE wrap[v]]
        /\ totp' = Changed(r.totp, totp, r.new)
        /\ phrase' = Changed(r.phrase, phrase, r.new)
        /\ sealed' = Changed(r.sealed, sealed, r.new)
  /\ rekey' = [rekey EXCEPT ![t].stage = "verify"]
  /\ UNCHANGED <<cached, row, trashes, session, writer, failures>>

(* apply_master_key_rotation_atomically: one transaction, by vault id.       *)
CommitRewrap(t) ==
  /\ rekey[t].stage = "commit"
  /\ SharesExist(rekey[t])
  /\ LET r == rekey[t]
     IN /\ stored' = NewEnvelope(r)
        /\ wrap' = [v \in Vaults |-> IF v \in r.opened THEN r.new ELSE wrap[v]]
        /\ totp' = Changed(r.totp, totp, r.new)
        /\ phrase' = Changed(r.phrase, phrase, r.new)
        /\ sealed' = Changed(r.sealed, sealed, r.new)
  /\ rekey' = [rekey EXCEPT ![t].stage = "verify"]
  /\ UNCHANGED <<cached, row, trashes, session, writer, failures>>

(* replace_password: the account key stays, its password envelope changes.   *)
ReplacePassword(t) ==
  /\ rekey[t].stage = "unwrap"
  /\ rekey[t].todo = {}
  /\ rekey[t].routine = "replace_password"
  /\ stored' = NewEnvelope(rekey[t])
  /\ rekey' = [rekey EXCEPT ![t].stage = "verify"]
  /\ UNCHANGED <<cached, blobs, vaults, session, writer, failures>>

(* verify_stored_envelope and, after a rewrap, verify_vaults.                *)
ReadsBack(r) ==
  /\ stored = NewEnvelope(r)
  /\ r.routine # "replace_password" => \A v \in r.opened : wrap[v] = r.new

Verify(t) ==
  /\ rekey[t].stage = "verify"
  /\ ReadsBack(rekey[t])
  /\ rekey' = [rekey EXCEPT ![t].stage = "cache"]
  /\ UNCHANGED <<stored, cached, blobs, vaults, session, writer, failures>>

(* upsert_password_envelope.                                                 *)
CacheEnvelope(t) ==
  /\ rekey[t].stage = "cache"
  /\ cached' = NewEnvelope(rekey[t])
  /\ rekey' = [rekey EXCEPT ![t].stage = "deliver"]
  /\ UNCHANGED <<stored, blobs, vaults, session, writer, failures>>

(* Mutation: a migrated login opens its window with the key it signed in by. *)
DeliverKey_OfTheLogin(t) ==
  /\ rekey[t].stage = "deliver"
  /\ LET r == rekey[t]
     IN \/ /\ r.mode = "login"
           /\ OpenWindow(t, r.old)
        \/ /\ r.mode = "change"
           /\ session' = IF r.attached THEN r.new ELSE session
           /\ rekey' = [rekey EXCEPT ![t] = Idle(r)]
  /\ UNCHANGED <<stored, cached, blobs, vaults, writer, failures>>

(* The key reaches the window: a login opens one, a change updates its own.  *)
DeliverKey(t) ==
  /\ rekey[t].stage = "deliver"
  /\ LET r == rekey[t]
     IN \/ /\ r.mode = "login"
           /\ OpenWindow(t, r.new)
        \/ /\ r.mode = "change"
           /\ session' = IF r.attached THEN r.new ELSE session
           /\ rekey' = [rekey EXCEPT ![t] = Idle(r)]
  /\ UNCHANGED <<stored, cached, blobs, vaults, writer, failures>>

(* What another thread did makes the step ahead of r return an error.        *)
Mismatch(r) ==
  \/ r.stage = "rederive" /\ cached.password # r.password
  \/ r.stage = "unwrap" /\ \E v \in r.todo : wrap[v] \notin {None, r.old}
  \/ r.stage = "commit" /\ ~SharesExist(r)
  \/ r.stage = "verify" /\ ~ReadsBack(r)

(* An error ends the re-key where it stands; what is committed stays. A      *)
(* failed migration leaves the login with the legacy key.                    *)
FailRekey(t) ==
  /\ rekey[t].stage # "idle"
  /\ \/ Mismatch(rekey[t]) /\ UNCHANGED failures
     \/ ~Mismatch(rekey[t]) /\ failures < MaxFailures /\ failures' = failures + 1
  /\ LET r == rekey[t]
     IN \/ /\ r.mode = "login"
           /\ r.stage \notin {"deliver"}
           /\ OpenWindow(t, r.old)
        \/ /\ r.mode = "change" \/ r.stage = "deliver"
           /\ session' = session
           /\ rekey' = [rekey EXCEPT ![t] = Idle(r)]
  /\ UNCHANGED <<stored, cached, blobs, vaults, writer>>

-----------------------------------------------------------------------------
(* Closing the window signs out. Threads it started go on.                   *)
Logout ==
  /\ session # None
  /\ session' = None
  /\ rekey' = Detached
  /\ UNCHANGED <<stored, cached, blobs, vaults, writer, failures>>

(* A handler copies the session key before its thread starts.                *)
BeginWrite(w, kind) ==
  /\ writer[w].kind = "idle"
  /\ session # None
  /\ kind # "idle"
  /\ writer' = [writer EXCEPT ![w] = [kind |-> kind, key |-> session]]
  /\ UNCHANGED <<stored, cached, blobs, vaults, session, rekey, failures>>

(* create_vault: the row and its envelope are one INSERT.                    *)
InsertVault(w, v) ==
  /\ writer[w].kind = "create_vault"
  /\ v \notin SharedVaults
  /\ row[v] = "absent"
  /\ row' = [row EXCEPT ![v] = "live"]
  /\ wrap' = [wrap EXCEPT ![v] = writer[w].key]
  /\ writer' = [writer EXCEPT ![w] = IdleWriter]
  /\ UNCHANGED <<stored, cached, blobs, trashes, session, rekey, failures>>

(* enable_totp: the secret is encrypted under the copied key.                *)
EnableTotp(w) ==
  /\ writer[w].kind = "enable_totp"
  /\ totp' = writer[w].key
  /\ writer' = [writer EXCEPT ![w] = IdleWriter]
  /\ UNCHANGED <<stored, cached, phrase, sealed, vaults, session, rekey, failures>>

(* ensure_recovery_key before an export, or the provisioning of a phrase.    *)
SealRecoveryKey(w) ==
  /\ writer[w].kind = "seal_recovery_key"
  /\ sealed' = writer[w].key
  /\ writer' = [writer EXCEPT ![w] = IdleWriter]
  /\ UNCHANGED <<stored, cached, totp, phrase, vaults, session, rekey, failures>>

(* disable_totp needs no key.                                                *)
DisableTotp(w) ==
  /\ writer[w].kind = "disable_totp"
  /\ totp' = None
  /\ writer' = [writer EXCEPT ![w] = IdleWriter]
  /\ UNCHANGED <<stored, cached, phrase, sealed, vaults, session, rekey, failures>>

(* delete_vault marks the row; its envelope stays.                           *)
TrashVault(v) ==
  /\ session # None
  /\ row[v] = "live"
  /\ trashes < MaxTrashed
  /\ row' = [row EXCEPT ![v] = "trashed"]
  /\ trashes' = trashes + 1
  /\ UNCHANGED <<stored, cached, blobs, wrap, session, rekey, writer, failures>>

(* restore_secret brings the vault of the restored secret back with it.      *)
UntrashVault(v) ==
  /\ session # None
  /\ row[v] = "trashed"
  /\ row' = [row EXCEPT ![v] = "live"]
  /\ UNCHANGED <<stored, cached, blobs, wrap, trashes, session, rekey, writer, failures>>

(* delete_key_share: the owner of a shared vault takes the share back.       *)
RevokeShare(v) ==
  /\ v \in SharedVaults
  /\ wrap[v] # None
  /\ wrap' = [wrap EXCEPT ![v] = None]
  /\ UNCHANGED <<stored, cached, blobs, row, trashes, session, rekey, writer, failures>>

(* The process stops between any two steps; what is committed is reloaded.   *)
Restart ==
  /\ cached' = stored
  /\ session' = None
  /\ rekey' = [t \in Rekeyers |-> Idle(rekey[t])]
  /\ writer' = [w \in Writers |-> IdleWriter]
  /\ UNCHANGED <<stored, blobs, vaults, failures>>

RekeyStep(t) ==
  \/ ChooseChange(t) \/ OpenSession(t) \/ NeedsMigration(t) \/ Rederive(t)
  \/ ListVaults(t) \/ (\E v \in Vaults : UnwrapVault(t, v))
  \/ ReadTotp(t) \/ ReadPhrase(t) \/ CommitRewrap(t) \/ ReplacePassword(t)
  \/ Verify(t) \/ CacheEnvelope(t) \/ DeliverKey(t) \/ FailRekey(t)

WriterStep(w) ==
  \/ \E v \in Vaults : InsertVault(w, v)
  \/ EnableTotp(w) \/ DisableTotp(w) \/ SealRecoveryKey(w)

Next ==
  \/ \E t \in Rekeyers :
       \/ \E p \in Passwords : BeginLogin(t, p)
       \/ \E current, new \in Passwords : BeginChange(t, current, new)
       \/ RekeyStep(t)
  \/ \E w \in Writers :
       \/ \E kind \in WriteKinds : BeginWrite(w, kind)
       \/ WriterStep(w)
  \/ \E v \in Vaults : TrashVault(v) \/ UntrashVault(v) \/ RevokeShare(v)
  \/ Logout \/ Restart

Spec == Init /\ [][Next]_vars

(* A thread that was started runs on: the operating system schedules it and  *)
(* every await of a local SQLite call returns.                               *)
FairSpec == Spec /\ \A t \in Rekeyers : WF_vars(RekeyStep(t))

-----------------------------------------------------------------------------
(* Every vault envelope of the account, in the trash or not, opens with the  *)
(* key the stored password yields: no password change or migration leaves a  *)
(* vault behind (unwrap_accessible_vaults, apply_master_key_rotation).       *)
EveryVaultOpens == \A v \in Vaults : wrap[v] \in {None, stored.key}

(* The key held by the window is the account's: the window can open vaults,  *)
(* and what it creates stays readable (change_master_password's result).     *)
SessionKeyCurrent == session \in {None, stored.key}

(* "Returns the new master key so the running session can keep opening       *)
(* vaults" (change_master_password): the key on its way to the window that   *)
(* asked for the change is the one the vaults are under.                     *)
DeliveredKeyOpensVaults ==
  \A t \in Rekeyers :
    rekey[t].stage = "deliver" /\ rekey[t].attached => rekey[t].new = stored.key

(* Weaker than SessionKeyCurrent, where a re-key replaces the key: once no   *)
(* re-key has anything left to verify, cache or deliver.                     *)
SessionKeyAtRest ==
  (\A t \in Rekeyers : rekey[t].stage \notin {"verify", "cache", "deliver"})
    => SessionKeyCurrent

(* What is encrypted on the users row opens with the account's key; the      *)
(* sealed recovery key, used only in the account format, is that key.        *)
BlobsReadable ==
  /\ totp \in {None, stored.key}
  /\ stored.format = "account" => sealed \in {None, stored.key}

(* In the account format the key never changes, and whatever holds it holds  *)
(* the right one: the window and the blobs of the users row.                 *)
OneAccountKey == SessionKeyCurrent /\ BlobsReadable

(* Once no re-key is between its commit and upsert_password_envelope, the    *)
(* password that signs in now is the one that will after a restart.          *)
CachedIsStored ==
  (\A t \in Rekeyers : rekey[t].stage \notin {"verify", "cache"}) => cached = stored

(* At rest the running process agrees with the database.                     *)
SettledAtRest == SessionKeyAtRest /\ CachedIsStored

(* A committed rewrap is whole: when upsert_password_envelope publishes the  *)
(* envelope t stored, and if it is still the stored one, all vaults t opened *)
(* are under its new key, whatever other threads committed, created, revoked *)
(* or aborted since (the transaction, verify_vaults).                        *)
Rewrote(t) ==
  /\ rekey[t].stage \in {"verify", "cache"}
  /\ rekey[t].routine \in {"migrate", "rekey_legacy"}
  /\ stored = NewEnvelope(rekey[t])

CommittedRekeyIsWhole ==
  \A t \in Rekeyers : Rewrote(t) =>
    \A v \in rekey[t].opened : wrap[v] \in {None, stored.key}

(* "Rewraps everything `old_key` protects under `new_key`" (rewrap_account): *)
(* after the commit nothing is left under the old key.                       *)
RekeyRewrapsEverything ==
  \A t \in Rekeyers : Rewrote(t) =>
    \A v \in Vaults : wrap[v] # rekey[t].old

(* Every login and password change that started ends, delivered or failed.   *)
RekeyEnds ==
  \A t \in Rekeyers : rekey[t].stage # "idle" ~> rekey[t].stage = "idle"

(* The promise to the owner, whatever happens to the keys.                   *)
Access == INSTANCE AccountAccess WITH
  password <- stored.password,
  opens <- {v \in Vaults : wrap[v] = stored.key},
  secondFactor <- totp = stored.key

AccessKept == Access!Spec
=============================================================================
