------------------------------ MODULE WorkView ------------------------------
(***************************************************************************)
(* The main window of one session at work: the vault list of the sidebar   *)
(* and the secret list of the active vault, each filled by a thread whose  *)
(* answer the GTK main loop applies when it arrives (window/vault_list.rs, *)
(* window/refresh.rs, secret_flow.rs), while vaults and secrets are        *)
(* created, changed and deleted by other threads and the session locks and *)
(* unlocks.                                                                *)
(*                                                                         *)
(* A vault stands for its row, its cards and its key; what its secrets are *)
(* is left out.  Only owned vaults exist: the Community team service       *)
(* shares nothing, so the second list stays empty.  Sign-out and the lock  *)
(* dialogs are in SessionLock; here a lock is the loss of the              *)
(* key and an unlock its return.  The security centre, which a refresh     *)
(* also invalidates, is in OpenSession.                                    *)
(***************************************************************************)
EXTENDS Naturals, Sequences, FiniteSets, Functions

CONSTANTS Vaults,        \* the vaults that can ever exist
          None,          \* no vault, no rows
          Stored,        \* the lists of vaults a session may find
          Refreshes,     \* slots for threads that read the vault list
          Loads,         \* slots for threads that read secrets
          Jobs,          \* slots for threads that create, change or delete
          MaxInputs,     \* bound on what the user does
          MaxErrors      \* bound on storage errors

ASSUME NoneIsNoVault == None \notin Vaults
ASSUME StoredAreLists ==
    \A s \in Stored : s \in Seq(Vaults) /\ \A i, j \in DOMAIN s : s[i] = s[j] => i = j
ASSUME BoundsAreNumbers == MaxInputs \in Nat /\ MaxErrors \in Nat

VARIABLES
    vaults,       \* the live vaults, in the order the repository lists them
    used,         \* the identifiers handed out so far
    key,          \* session_master_key is not empty
    active,       \* active_vault_id
    rows,         \* the rows of my_vaults_list
    picked,       \* the vault of the selected row
    refreshing,   \* refresh_in_progress
    creating,     \* default_vault_creation
    refresh,      \* threads of the vault list
    global,       \* is_global_search
    page,         \* what the secret stack shows
    last,         \* last_loaded
    load,         \* threads of the secret list
    job,          \* mutations under way
    inputs, errors

database == <<vaults, used>>
sidebar == <<rows, picked, refreshing, creating, refresh>>
list == <<global, page, last, load>>
vars == <<database, key, active, sidebar, list, job, inputs, errors>>

-----------------------------------------------------------------------------
(* What the threads carry. *)

Rest == [stage |-> "idle"]
RefreshThread == [stage : {"list", "create", "check", "done", "failed"}, attempt : BOOLEAN,
                  key : BOOLEAN, seen : Seq(Vaults)]
\* The answer of a load: rows of one vault or of all, no vault at all, or the
\* vault it was asked for is not listed any more.
Loaded == [kind : {"rows", "all", "none", "gone"}, vault : Vaults \cup {None}]
LoadThread == [stage : {"run", "done"}, all : BOOLEAN, selected : Vaults \cup {None},
               result : Loaded \cup {None}]
Mutation == [stage : {"run", "done", "failed"}, op : {"create", "delete", "change"},
             vault : Vaults \cup {None}]
Pages == {"blank", "loading", "locked", "unavailable", "none", "gone", "shown"}

Free(slots) == {s \in DOMAIN slots : slots[s].stage = "idle"}
Start(slots, thread) == [slots EXCEPT ![CHOOSE s \in Free(slots) : TRUE] = thread]

\* The first listed vault stands in for one that is not listed.
First(s) == IF s = <<>> THEN None ELSE s[1]

-----------------------------------------------------------------------------
(* Callbacks several handlers end with. *)

\* Asks for the secrets of `a`, or of every vault; without the key the list
\* shows that the session is locked and forgets what was loaded.
Reload(a, all) ==
    IF key
    THEN /\ Free(load) # {}
         /\ load' = Start(load, [stage |-> "run", all |-> all, selected |-> a, result |-> None])
         /\ page' = "loading"
         /\ UNCHANGED last
    ELSE /\ last' = None
         /\ page' = "locked"
         /\ UNCHANGED load

\* Puts a load on screen.  The rows of one vault make it the active one.
Render_KeepsActive(x) ==
    /\ active' = IF x.kind = "gone" THEN None ELSE active
    /\ page' = IF x.kind \in {"rows", "all"} THEN "shown" ELSE x.kind
Render(x) ==
    /\ active' = CASE x.kind = "rows" -> x.vault
                   [] x.kind = "gone" -> None
                   [] OTHER -> active
    /\ page' = IF x.kind \in {"rows", "all"} THEN "shown" ELSE x.kind

\* Empties the sidebar and starts the thread that fills it; a refresh asked for
\* while one is in progress is dropped.
BeginRefresh_Overlapping(open) ==
    /\ Free(refresh) # {}
    /\ refreshing' = TRUE
    /\ rows' = <<>>
    /\ picked' = None
    /\ creating' = (creating \/ open)
    /\ refresh' = Start(refresh, [stage |-> "list", attempt |-> ~creating,
                                  key |-> open /\ ~creating, seen |-> <<>>])
BeginRefresh(open) ==
    IF refreshing
    THEN UNCHANGED sidebar
    ELSE /\ Free(refresh) # {}
         /\ refreshing' = TRUE
         /\ rows' = <<>>
         /\ picked' = None
         /\ creating' = (creating \/ open)
         /\ refresh' = Start(refresh, [stage |-> "list", attempt |-> ~creating,
                                       key |-> open /\ ~creating, seen |-> <<>>])

-----------------------------------------------------------------------------
(* A window as build_main_window leaves it: the refresh of its last line runs,  *)
(* the one asked for when it is presented was dropped.                         *)

Init ==
    /\ vaults \in Stored
    /\ used = Range(vaults)
    /\ key = TRUE
    /\ active = None
    /\ rows = <<>> /\ picked = None
    /\ refreshing = TRUE /\ creating = TRUE
    /\ refresh = Start([r \in Refreshes |-> Rest],
                       [stage |-> "list", attempt |-> TRUE, key |-> TRUE, seen |-> <<>>])
    /\ global = FALSE /\ page = "blank" /\ last = None
    /\ load = [l \in Loads |-> Rest]
    /\ job = [j \in Jobs |-> Rest]
    /\ inputs = 0 /\ errors = 0

\* The user can act: the window of an open session is not covered by a dialog.
Input == key /\ inputs < MaxInputs /\ inputs' = inputs + 1
StorageError == errors < MaxErrors /\ errors' = errors + 1

-----------------------------------------------------------------------------
(* The vault list: its thread and the answer of it. *)

\* list_owned_vaults; a list that is empty is filled by a default vault while
\* the thread has the key.
ListOwned(r) ==
    /\ refresh[r].stage = "list"
    /\ \/ /\ refresh' = [refresh EXCEPT ![r].seen = vaults,
                             ![r].stage = IF vaults = <<>> /\ refresh[r].key
                                          THEN "create" ELSE "check"]
          /\ UNCHANGED errors
       \/ /\ StorageError
          /\ refresh' = [refresh EXCEPT ![r].stage = "failed"]
    /\ UNCHANGED <<database, key, active, rows, picked, refreshing, creating,
                   list, job, inputs>>

\* A row of the accessible_vaults view.
Accessible(v) == v \in Range(vaults)

\* Each listed vault is looked up again, for its count and its shares, then the
\* vaults of others are read: one deleted since it was listed fails them all.
CountAndShares(r) ==
    /\ refresh[r].stage = "check"
    /\ \/ /\ refresh' = [refresh EXCEPT ![r].stage =
                             IF \A v \in Range(refresh[r].seen) : Accessible(v)
                             THEN "done" ELSE "failed"]
          /\ UNCHANGED errors
       \/ /\ StorageError
          /\ refresh' = [refresh EXCEPT ![r].stage = "failed"]
    /\ UNCHANGED <<database, key, active, rows, picked, refreshing, creating,
                   list, job, inputs>>

\* The "perso" vault; a failure is logged and the list read again all the same.
CreateDefault(r) ==
    /\ refresh[r].stage = "create"
    /\ \/ /\ \E v \in Vaults \ used : vaults' = Append(vaults, v) /\ used' = used \cup {v}
          /\ UNCHANGED errors
       \/ StorageError /\ UNCHANGED database
    /\ refresh' = [refresh EXCEPT ![r].stage = "list", ![r].key = FALSE]
    /\ UNCHANGED <<key, active, rows, picked, refreshing, creating, list, job, inputs>>

\* Keeps the active vault if it has a row, else takes the first one.
Selected(listed) == IF active \in Range(listed) THEN active ELSE First(listed)

\* After an error nothing is filled in and the flag stays up.
AnswerRefresh(r) ==
    /\ refresh[r].stage \in {"done", "failed"}
    /\ refresh' = [refresh EXCEPT ![r] = Rest]
    /\ creating' = (creating /\ ~refresh[r].attempt)
    /\ IF refresh[r].stage = "done"
       THEN /\ rows' = rows \o refresh[r].seen
            /\ active' = Selected(rows')
            /\ picked' = active'
            /\ Reload(active', global)
            /\ refreshing' = FALSE
       ELSE UNCHANGED <<rows, active, picked, load, page, last, refreshing>>
    /\ UNCHANGED <<database, key, global, job, inputs, errors>>

-----------------------------------------------------------------------------
(* The secret list. *)

\* What a load finds: with no vault chosen the first one stands in.
Answer(l) ==
    LET v == IF load[l].selected # None THEN load[l].selected ELSE First(vaults)
    IN  [kind |-> CASE load[l].all -> "all"
                    [] v = None -> "none"
                    [] ~Accessible(v) -> "gone"
                    [] OTHER -> "rows",
         vault |-> IF ~load[l].all /\ Accessible(v) THEN v ELSE None]

ReadSecrets(l) ==
    /\ load[l].stage = "run"
    /\ \/ /\ load' = [load EXCEPT ![l].stage = "done", ![l].result = Answer(l)]
          /\ UNCHANGED errors
       \/ /\ StorageError
          /\ load' = [load EXCEPT ![l].stage = "done"]
    /\ UNCHANGED <<database, key, active, sidebar, global, page, last, job, inputs>>

\* Answers are applied as they come, whatever was asked for since.
AnswerLoad_ErrorIgnored(l) ==
    /\ load[l].stage = "done"
    /\ load' = [load EXCEPT ![l] = Rest]
    /\ IF load[l].result = None
       THEN last' = None /\ UNCHANGED <<active, page>>
       ELSE last' = load[l].result /\ Render(load[l].result)
    /\ UNCHANGED <<database, key, sidebar, global, job, inputs, errors>>
AnswerLoad(l) ==
    /\ load[l].stage = "done"
    /\ load' = [load EXCEPT ![l] = Rest]
    /\ IF load[l].result = None
       THEN last' = None /\ page' = "unavailable" /\ UNCHANGED active
       ELSE last' = load[l].result /\ Render(load[l].result)
    /\ UNCHANGED <<database, key, sidebar, global, job, inputs, errors>>

\* A click on the row of another vault.
SelectVault(v) ==
    /\ Input
    /\ v \in Range(rows) /\ v # picked
    /\ picked' = v
    /\ active' = v
    /\ Reload(v, global)
    /\ UNCHANGED <<database, key, rows, refreshing, creating, refresh, global, job, errors>>

\* The search over all vaults, on or off.
ToggleGlobal ==
    /\ Input
    /\ global' = ~global
    /\ Reload(active, global')
    /\ UNCHANGED <<database, key, active, sidebar, job, errors>>

\* Grid or list: the last load in the new layout, or a first load.
SwitchView ==
    /\ Input
    /\ IF last # None
       THEN Render(last) /\ UNCHANGED <<load, last>>
       ELSE Reload(active, global) /\ UNCHANGED active
    /\ UNCHANGED <<database, key, sidebar, global, job, errors>>

-----------------------------------------------------------------------------
(* Mutations: a thread of their own, and a full refresh when it answers. *)

StartJob(op, v) ==
    /\ Input
    /\ Free(job) # {}
    /\ IF op = "delete" THEN v \in Range(rows) ELSE v = None
    /\ job' = Start(job, [stage |-> "run", op |-> op, vault |-> v])
    /\ UNCHANGED <<database, key, active, sidebar, list, errors>>

\* Vaults are deleted into the trash; a deleted one cannot be deleted again.
\* A change is a save, deletion, restore or import of secrets.
RunJob(j) ==
    /\ job[j].stage = "run"
    /\ \/ /\ CASE job[j].op = "create" ->
                    \E v \in Vaults \ used : vaults' = Append(vaults, v) /\ used' = used \cup {v}
               [] job[j].op = "delete" ->
                    /\ \E i \in DOMAIN vaults :
                         /\ vaults[i] = job[j].vault
                         /\ vaults' = SubSeq(vaults, 1, i - 1)
                                        \o SubSeq(vaults, i + 1, Len(vaults))
                    /\ UNCHANGED used
               [] OTHER -> UNCHANGED <<vaults, used>>
          /\ job' = [job EXCEPT ![j].stage = "done"]
          /\ UNCHANGED errors
       \/ /\ job[j].op = "delete" /\ job[j].vault \notin Range(vaults)
          /\ job' = [job EXCEPT ![j].stage = "failed"]
          /\ UNCHANGED <<database, errors>>
       \/ /\ StorageError
          /\ job' = [job EXCEPT ![j].stage = "failed"]
          /\ UNCHANGED database
    /\ UNCHANGED <<key, active, sidebar, list, inputs>>

AnswerJob(j) ==
    /\ job[j].stage \in {"done", "failed"}
    /\ job' = [job EXCEPT ![j] = Rest]
    /\ IF job[j].stage = "done"
       THEN /\ active' = IF job[j].op = "delete" /\ active = job[j].vault THEN None ELSE active
            /\ BeginRefresh(key)
       ELSE UNCHANGED <<active, sidebar>>
    /\ UNCHANGED <<database, key, list, inputs, errors>>

-----------------------------------------------------------------------------
(* Lock and unlock. *)

\* The lock takes the key; the lists stay.
Lock ==
    /\ Input
    /\ key' = FALSE
    /\ UNCHANGED <<database, active, sidebar, list, job, errors>>

Unlock ==
    /\ ~key
    /\ key' = TRUE
    /\ BeginRefresh(TRUE)
    /\ UNCHANGED <<database, active, list, job, inputs, errors>>

-----------------------------------------------------------------------------

Answers ==
    \/ \E r \in Refreshes : ListOwned(r) \/ CreateDefault(r) \/ CountAndShares(r) \/ AnswerRefresh(r)
    \/ \E l \in Loads : ReadSecrets(l) \/ AnswerLoad(l)
    \/ \E j \in Jobs : RunJob(j) \/ AnswerJob(j)

Next ==
    \/ Answers
    \/ \E v \in Vaults : SelectVault(v) \/ StartJob("delete", v)
    \/ \E op \in {"create", "change"} : StartJob(op, None)
    \/ ToggleGlobal \/ SwitchView
    \/ Lock \/ Unlock

Spec == Init /\ [][Next]_vars

\* Threads end and the main loop dispatches what is ready; users owe nothing.
Fairness ==
    /\ \A r \in Refreshes : WF_vars(ListOwned(r) \/ CreateDefault(r) \/ CountAndShares(r) \/ AnswerRefresh(r))
    /\ \A l \in Loads : WF_vars(ReadSecrets(l) \/ AnswerLoad(l))
FairSpec == Spec /\ Fairness

-----------------------------------------------------------------------------
(* Properties *)

\* Variables keep their types, and a vault on screen or active is one that
\* exists or existed (select_active_vault, render_secret_rows).
TypeOK ==
    /\ vaults \in Seq(Vaults) /\ used \in SUBSET Vaults
    /\ Range(vaults) \subseteq used
    /\ key \in BOOLEAN /\ active \in used \cup {None}
    /\ rows \in Seq(Vaults) /\ Range(rows) \subseteq used /\ picked \in Range(rows) \cup {None}
    /\ refreshing \in BOOLEAN /\ creating \in BOOLEAN
    /\ refresh \in [Refreshes -> RefreshThread \cup {Rest}]
    /\ global \in BOOLEAN /\ page \in Pages /\ last \in Loaded \cup {None}
    /\ load \in [Loads -> LoadThread \cup {Rest}]
    /\ job \in [Jobs -> Mutation \cup {Rest}]
    /\ inputs \in 0..MaxInputs /\ errors \in 0..MaxErrors

\* No vault has two rows, however refreshes, mutations and unlocks overlap
\* (vault_list.rs:59, the guard of the refresh).
RowsOnce == \A i, j \in DOMAIN rows : rows[i] = rows[j] => i = j

\* The vault whose secrets are on screen is the one a new secret goes to, in
\* whatever order loads answer; when it is not, that vault was just deleted
\* (render_secret_rows takes over the vault of a late load).
ListIsActive ==
    page = "shown" /\ last # None =>
        (last.kind = "rows" =>
            \/ active = last.vault
            \/ active = None /\ last.vault \notin Range(vaults))

\* The loading page of the secret list gives way to another one, whatever fails
\* and whatever is asked for meanwhile (refresh_secret_flow).
LoadingEnds == page = "loading" ~> page # "loading"

\* The flag of the sidebar is up only while a thread that will lower it runs
\* (vault_list.rs:59).
FlagMeansRefresh == refreshing => \E r \in Refreshes : refresh[r].stage # "idle"

=============================================================================
