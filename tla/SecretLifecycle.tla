--------------------------- MODULE SecretLifecycle ---------------------------
(* The rows of vaults and secrets, and the threads that change them: the     *)
(* saves started by the editor and by an import, the trash dialog, vault     *)
(* deletion.  Every save opens the keys of the vaults it needs, then writes  *)
(* with statements that stand alone; no transaction spans a save.            *)
EXTENDS Naturals

CONSTANTS
  Vaults,     \* vaults the user has access to, in the order of their names
  Owned,      \* those the user owns
  Managed,    \* those of others, shared with the user as an administrator
  Secrets,    \* identifiers of secrets
  Texts,      \* what a dialog can hold: a title and a secret value
  Savers,     \* saves at once
  Emptiers,   \* "empty trash" threads at once
  None

ASSUME VaultsAssumption ==
  /\ Vaults \subseteq Nat /\ Owned \subseteq Vaults /\ Managed \subseteq Vaults \ Owned
  /\ None \notin Vaults \union Texts \union Secrets
  /\ Texts # {}

VARIABLES
  vault,      \* live or in the trash
  item,       \* row of each secret, and whose vault key its blob is under
  save,       \* what each save holds between its awaits
  empty,      \* what each "empty trash" thread holds
  listed      \* rows <<secret, vault>> on screen in the trash dialog

vars == <<vault, item, save, empty, listed>>

Stages == {"idle", "list", "look", "keys", "read", "place", "open", "insert",
           "metadata", "value", "saved"}

Item == [state : {"absent", "live", "trashed", "purged"}, at : Vaults \union {None},
         under : Vaults \union {None}, title : Texts \union {None}, value : Texts \union {None}]

SaveState ==
  [stage : Stages, mode : {"none", "edit", "create", "import"}, secret : Secrets \union {None},
   target : Vaults \union {None}, source : Vaults \union {None}, todo : SUBSET Vaults,
   draft : Texts \union {None}, changed : BOOLEAN, read : Texts \union {None}]

TypeOK ==
  /\ vault \in [Vaults -> {"live", "trashed"}]
  /\ item \in [Secrets -> Item]
  /\ save \in [Savers -> SaveState]
  /\ empty \in [Emptiers -> [stage : {"idle", "open", "empty", "emptied"}, vault : Vaults \union {None}]]
  /\ listed \subseteq Secrets \X Owned

----------------------------------------------------------------------------
NoRow(state) == [state |-> state, at |-> None, under |-> None, title |-> None, value |-> None]

\* A row with its blob encrypted under the key of vault v.
Row(state, v, title, value) ==
  [state |-> state, at |-> v, under |-> v, title |-> title, value |-> value]

NoSave ==
  [stage |-> "idle", mode |-> "none", secret |-> None, target |-> None, source |-> None,
   todo |-> {}, draft |-> None, changed |-> FALSE, read |-> None]

Live(s) == item[s].state = "live"
Kept(s) == item[s].state \in {"live", "trashed"}
Accessible == {v \in Vaults : vault[v] = "live"}
Ready(t) == save[t].stage \in {"idle", "saved"}

\* Any database the program can have left.
Init ==
  /\ vault \in [Vaults -> {"live", "trashed"}]
  /\ item \in [Secrets -> {NoRow("absent"), NoRow("purged")} \union
                 {Row(state, v, title, value) : state \in {"live", "trashed"}, v \in Vaults,
                                                title \in Texts, value \in Texts}]
  /\ \A s \in Secrets : Live(s) => vault[item[s].at] = "live"
  /\ save = [t \in Savers |-> NoSave]
  /\ empty = [e \in Emptiers |-> [stage |-> "idle", vault |-> None]]
  /\ listed = {}

----------------------------------------------------------------------------
(* Saves.                                                                   *)

Goes(t, stage) == save' = [save EXCEPT ![t].stage = stage]

\* The editor was opened on s; by now s may be in the trash or gone.  The
\* target is the vault chosen in it, or None until the secret is loaded; the
\* value is sent only when it changed.
BeginEdit(t, s) ==
  /\ Ready(t) /\ item[s].state # "absent"
  /\ \E target \in Vaults \union {None}, draft \in Texts, changed \in BOOLEAN :
       save' = [save EXCEPT ![t] = [NoSave EXCEPT
                  !.stage = "list", !.mode = "edit", !.secret = s, !.target = target,
                  !.draft = draft, !.changed = changed]]
  /\ UNCHANGED <<vault, item, empty, listed>>

BeginCreate(t) ==
  /\ Ready(t)
  /\ \E target \in Vaults, draft \in Texts :
       save' = [save EXCEPT ![t] = [NoSave EXCEPT
                  !.stage = "open", !.mode = "create", !.target = target, !.draft = draft]]
  /\ UNCHANGED <<vault, item, empty, listed>>

BeginImport(t) ==
  /\ Ready(t)
  /\ \E target \in Accessible, draft \in Texts :
       save' = [save EXCEPT ![t] = [NoSave EXCEPT
                  !.stage = "open", !.mode = "import", !.target = target, !.draft = draft]]
  /\ UNCHANGED <<vault, item, empty, listed>>

ListVaults(t) ==
  /\ save[t].stage = "list"
  /\ save' = [save EXCEPT ![t].stage = "look", ![t].todo = Accessible]
  /\ UNCHANGED <<vault, item, empty, listed>>

\* The vaults of the list are searched in turn for the secret.
Found(t, v) ==
  LET target == IF save[t].target = None THEN v ELSE save[t].target
  IN save' = [save EXCEPT ![t].stage = IF target = v THEN "open" ELSE "keys",
                          ![t].source = v, ![t].target = target, ![t].todo = {}]

LookInVault(t) ==
  /\ save[t].stage = "look"
  /\ \E v \in save[t].todo :
       /\ \A u \in save[t].todo : v <= u
       /\ IF Live(save[t].secret) /\ item[save[t].secret].at = v
          THEN Found(t, v)
          ELSE save' = [save EXCEPT ![t].todo = @ \ {v}]
  /\ UNCHANGED <<vault, item, empty, listed>>

\* The keys of the two vaults of a move.
OpenVaults(t) ==
  /\ save[t].stage = "keys"
  /\ {save[t].source, save[t].target} \subseteq Accessible
  /\ Goes(t, "read")
  /\ UNCHANGED <<vault, item, empty, listed>>

\* The secret may have got to its target already; otherwise its blob must
\* open with the key of the vault it was found in.
ReadMoved(t) ==
  LET s == save[t].secret
  IN /\ save[t].stage = "read"
     /\ Live(s)
     /\ \/ /\ item[s].at = save[t].target
           /\ Goes(t, "open")
        \/ /\ item[s].at # save[t].target
           /\ item[s].under = save[t].source
           /\ save' = [save EXCEPT ![t].stage = "place", ![t].read = item[s].value]
     /\ UNCHANGED <<vault, item, empty, listed>>

\* Mutation: the row changes vault and its blob is left as it is.
PlaceMoved_RowOnly(t) ==
  LET s == save[t].secret
  IN /\ save[t].stage = "place"
     /\ Live(s)
     /\ item' = [item EXCEPT ![s].at = save[t].target]
     /\ Goes(t, "open")
     /\ UNCHANGED <<vault, empty, listed>>

PlaceMoved(t) ==
  LET s == save[t].secret
      v == save[t].target
  IN /\ save[t].stage = "place"
     /\ Live(s)
     /\ item' = [item EXCEPT ![s].at = v, ![s].under = v, ![s].value = save[t].read]
     /\ Goes(t, "open")
     /\ UNCHANGED <<vault, empty, listed>>

\* The last vault key a save opens.  A new secret in a vault of others needs
\* the administrator role; an import does not ask.
OpenTarget(t) ==
  /\ save[t].stage = "open"
  /\ save[t].target \in Accessible
  /\ save[t].mode = "create" => save[t].target \in Owned \union Managed
  /\ Goes(t, IF save[t].mode = "edit" THEN "metadata" ELSE "insert")
  /\ UNCHANGED <<vault, item, empty, listed>>

\* An import inserts one row after another with the key it opened once.
InsertSecret(t, s) ==
  /\ save[t].stage = "insert"
  /\ item[s].state = "absent"
  /\ item' = [item EXCEPT ![s] = Row("live", save[t].target, save[t].draft, save[t].draft)]
  /\ save' = [save EXCEPT ![t].secret = s,
                          ![t].stage = IF save[t].mode = "import" THEN "insert" ELSE "saved"]
  /\ UNCHANGED <<vault, empty, listed>>

\* Mutation: the UPDATE does not ask for a live row.
SaveMetadata_AnyRow(t) ==
  LET s == save[t].secret
  IN /\ save[t].stage = "metadata"
     /\ Kept(s)
     /\ item' = [item EXCEPT ![s].title = save[t].draft]
     /\ Goes(t, IF save[t].changed THEN "value" ELSE "saved")
     /\ UNCHANGED <<vault, empty, listed>>

SaveMetadata(t) ==
  LET s == save[t].secret
  IN /\ save[t].stage = "metadata"
     /\ Live(s)
     /\ item' = [item EXCEPT ![s].title = save[t].draft]
     /\ Goes(t, IF save[t].changed THEN "value" ELSE "saved")
     /\ UNCHANGED <<vault, empty, listed>>

SaveValue(t) ==
  LET s == save[t].secret
  IN /\ save[t].stage = "value"
     /\ Live(s)
     /\ item' = [item EXCEPT ![s].value = save[t].draft, ![s].under = save[t].target]
     /\ Goes(t, "saved")
     /\ UNCHANGED <<vault, empty, listed>>

\* An error at any await, or an import past its last row.
EndSave(t) ==
  /\ ~Ready(t)
  /\ save' = [save EXCEPT ![t] = NoSave]
  /\ UNCHANGED <<vault, item, empty, listed>>

----------------------------------------------------------------------------
(* Trash.                                                                   *)

SoftDelete(s) ==
  /\ Live(s)
  /\ item' = [item EXCEPT ![s].state = "trashed"]
  /\ UNCHANGED <<vault, save, empty, listed>>

\* One transaction: the vault and the live secrets in it.
DeleteVault(v) ==
  /\ v \in Owned \union Managed
  /\ v \in Accessible
  /\ vault' = [vault EXCEPT ![v] = "trashed"]
  /\ item' = [s \in Secrets |-> IF Live(s) /\ item[s].at = v
                                THEN [item[s] EXCEPT !.state = "trashed"] ELSE item[s]]
  /\ UNCHANGED <<save, empty, listed>>

InTrash(s, v) == item[s].state = "trashed" /\ item[s].at = v

\* The dialog lists the trash of the user's own vaults, deleted ones too.
Trashed == {row \in Secrets \X Owned : InTrash(row[1], row[2])}

RefreshTrash ==
  /\ listed' = Trashed
  /\ UNCHANGED <<vault, item, save, empty>>

\* Both buttons use the vault of the row, as it was when the row was listed.
Restore(s, v) ==
  /\ <<s, v>> \in listed
  /\ InTrash(s, v)
  /\ vault' = [vault EXCEPT ![v] = "live"]
  /\ item' = [item EXCEPT ![s].state = "live"]
  /\ UNCHANGED <<save, empty, listed>>

Purge(s, v) ==
  /\ <<s, v>> \in listed
  /\ InTrash(s, v)
  /\ item' = [item EXCEPT ![s] = NoRow("purged")]
  /\ UNCHANGED <<vault, save, empty, listed>>

\* "Empty trash" works on the first vault of the list.
ResolveVault(e) ==
  /\ empty[e].stage \in {"idle", "emptied"}
  /\ \E v \in Accessible :
       /\ \A u \in Accessible : v <= u
       /\ empty' = [empty EXCEPT ![e] = [stage |-> "open", vault |-> v]]
  /\ UNCHANGED <<vault, item, save, listed>>

\* open_vault asks for the owner's envelope, which only the owner's key opens.
OpenAsOwner(e) ==
  /\ empty[e].stage = "open"
  /\ empty[e].vault \in Accessible \intersect Owned
  /\ empty' = [empty EXCEPT ![e].stage = "empty"]
  /\ UNCHANGED <<vault, item, save, listed>>

\* Mutation: the DELETE does not ask for deleted rows.
EmptyVault_LiveToo(e) ==
  /\ empty[e].stage = "empty"
  /\ item' = [s \in Secrets |->
                IF item[s].at = empty[e].vault THEN NoRow("purged") ELSE item[s]]
  /\ empty' = [empty EXCEPT ![e].stage = "emptied"]
  /\ UNCHANGED <<vault, save, listed>>

EmptyVault(e) ==
  /\ empty[e].stage = "empty"
  /\ item' = [s \in Secrets |->
                IF InTrash(s, empty[e].vault) THEN NoRow("purged") ELSE item[s]]
  /\ empty' = [empty EXCEPT ![e].stage = "emptied"]
  /\ UNCHANGED <<vault, save, listed>>

EndEmpty(e) ==
  /\ empty[e].stage \in {"open", "empty"}
  /\ empty' = [empty EXCEPT ![e] = [stage |-> "idle", vault |-> None]]
  /\ UNCHANGED <<vault, item, save, listed>>

\* The process stops: what the database has is kept, threads and rows are not.
Restart ==
  /\ save' = [t \in Savers |-> NoSave]
  /\ empty' = [e \in Emptiers |-> [stage |-> "idle", vault |-> None]]
  /\ listed' = {}
  /\ UNCHANGED <<vault, item>>

SaveStep(t) ==
  \/ BeginCreate(t) \/ BeginImport(t) \/ ListVaults(t) \/ LookInVault(t)
  \/ OpenVaults(t) \/ ReadMoved(t) \/ PlaceMoved(t) \/ OpenTarget(t)
  \/ SaveMetadata(t) \/ SaveValue(t) \/ EndSave(t)
  \/ \E s \in Secrets : BeginEdit(t, s) \/ InsertSecret(t, s)

TrashStep ==
  \/ \E s \in Secrets : SoftDelete(s)
  \/ \E s \in Secrets, v \in Vaults : Restore(s, v) \/ Purge(s, v)
  \/ \E v \in Vaults : DeleteVault(v)
  \/ RefreshTrash

EmptyStep(e) == ResolveVault(e) \/ OpenAsOwner(e) \/ EmptyVault(e) \/ EndEmpty(e)

Next ==
  \/ \E t \in Savers : SaveStep(t)
  \/ TrashStep
  \/ \E e \in Emptiers : EmptyStep(e)
  \/ Restart

Spec == Init /\ [][Next]_vars

----------------------------------------------------------------------------
(* Properties.                                                              *)

Readable(s) == item[s].under = item[s].at

\* The blob of every secret, in the trash or not, is encrypted under the key of
\* the vault its row is in: a move re-encrypts, and a save that follows a move
\* of its own uses the key of the new vault.
ReadableByVaultKey == \A s \in Secrets : Kept(s) => Readable(s)

\* When the editor reports a saved secret, that secret is live, in the vault
\* chosen, readable, with the title sent and with the value sent if it changed,
\* whatever the trash did while the save ran.
SavedIsStored ==
  [][\A t \in Savers :
       save[t].stage # "saved" /\ save'[t].stage = "saved" =>
         LET row == item'[save'[t].secret]
         IN /\ row.state = "live" /\ row.at = save[t].target /\ row.under = row.at
            /\ row.title = save[t].draft
            /\ save[t].changed => row.value = save[t].draft]_vars

\* A secret that changes vault keeps its value, its title and its life: the blob
\* written at the end of a move says what the secret says at that moment.
MoveKeepsText ==
  [][\A s \in Secrets :
       Kept(s) /\ item'[s].at \notin {item[s].at, None} =>
         /\ item'[s].value = item[s].value /\ item'[s].title = item[s].title
         /\ item'[s].state = item[s].state]_vars

\* A live secret in a deleted vault: no list of the program shows it.
Hidden(s) == Live(s) /\ vault[item[s].at] = "trashed"

\* Deleting vaults, restoring, purging, emptying and restarts, in any order and
\* from rows listed long ago, never hide a secret; only a save that was past its
\* check of the vault can.
HiddenOnlyByLateSave ==
  [][\A s \in Secrets :
       ~Hidden(s) /\ Hidden(s)' =>
         \E t \in Savers : save[t].stage \in {"insert", "place"} /\ save'[t] # save[t]]_vars

\* What is destroyed was in the trash, in a vault of the user: neither a stale row
\* of the trash dialog nor the vault picked by "empty trash" reaches others.
PurgesOwnTrash ==
  [][\A s \in Secrets :
       Kept(s) /\ ~Kept(s)' => item[s].state = "trashed" /\ item[s].at \in Owned]_vars

\* Together: each secret says what was last saved until its trash is emptied.
Promise == INSTANCE SecretPromise WITH
  state <- [s \in Secrets |-> item[s].state],
  text <- [s \in Secrets |-> IF Readable(s) THEN item[s].value ELSE None],
  Nothing <- None

SecretsKept == Promise!Spec

\* "Empty trash" leaves nothing in the trash the dialog shows.
EmptiesTrash ==
  [][\A e \in Emptiers :
       empty[e].stage = "empty" /\ empty'[e].stage = "emptied" => Trashed' = {}]_vars
=============================================================================
