---------------------------- MODULE EntryEditor ----------------------------
(***************************************************************************)
(* The editor page of the main window (window/editor.rs,                   *)
(* add_edit_dialog.rs and its included body): the add button asks for      *)
(* access to the active vault before the page opens; an open page is       *)
(* filled by two threads, one that lists the vaults and, for an existing   *)
(* secret, one that loads it; a save or a deletion is a thread that        *)
(* outlives the page.  Any of them may answer in any order, while vaults   *)
(* are deleted and the session locks.                                      *)
(*                                                                         *)
(* One secret can be edited.  Its login, URL, notes, tags and the like are *)
(* its "details".  The statements of a save are in SecretLifecycle, here   *)
(* it is one step.                                                         *)
(***************************************************************************)
EXTENDS Naturals, Sequences

CONSTANTS
    Ordered,      \* the vaults, in the order of their names
    Typed,        \* details and values
    Blank,        \* an empty field
    Nowhere,      \* no vault, no secret
    Savings,      \* slots for threads that save or delete
    MaxOpened,    \* bound on the pages opened
    MaxActs       \* bound on what the user does

Places == {Ordered[n] : n \in DOMAIN Ordered}

ASSUME NowhereIsNothing == Nowhere \notin Places /\ Blank \notin Typed
ASSUME ActsAssumption == MaxOpened \in Nat /\ MaxActs \in Nat

VARIABLES
    live,       \* the vaults that are not deleted
    row,        \* the secret, or nothing once it is deleted
    created,    \* the vault of a secret just created, until its answer
    open,       \* session_master_key is not empty
    shows,      \* show_passwords_in_edit
    active,     \* active_vault_id
    editing,    \* the editor page is in front
    opened,     \* pages opened so far
    filled,     \* the page that was opened last
    adding,     \* the thread of the add button
    choices,    \* the thread that lists the vaults for the page
    loading,    \* the thread that loads the secret for the page
    saves,     \* the threads that save or delete
    acts

editorVars == <<live, row, created, open, shows, active, editing, opened, filled, adding,
                choices, loading, saves, acts>>
pageVars == <<editing, opened, filled, choices, loading>>

Quiet == [stage |-> "idle"]
Listing == SelectSeq(Ordered, LAMBDA v : v \in live)
Foremost(s) == IF s = <<>> THEN Nowhere ELSE s[1]
Has(v) == v \in live

NoForm == [mode |-> "none", vault |-> Nowhere, source |-> Nowhere, target |-> Nowhere,
           pill |-> Nowhere, pills |-> {}, read |-> Nowhere, snapshot |-> Blank,
           details |-> Blank, value |-> Blank, touched |-> {}]

EditorInit ==
    /\ live = Places
    /\ row \in [at : Places, details : Typed, value : Typed]
    /\ created = Nowhere
    /\ open = TRUE
    /\ shows \in BOOLEAN
    /\ active \in Places \cup {Nowhere}
    /\ editing = FALSE /\ opened = 0 /\ filled = NoForm
    /\ adding = Quiet /\ choices = Quiet /\ loading = Quiet
    /\ saves = [s \in Savings |-> Quiet]
    /\ acts = 0

Act == open /\ acts < MaxActs /\ acts' = acts + 1

-----------------------------------------------------------------------------
(* The page opens. *)

\* The threads of a page that is left, or replaced, answer to widgets nobody sees.
Leave == editing' = FALSE /\ filled' = NoForm /\ choices' = Quiet /\ loading' = Quiet

\* Without the key nothing opens.
Launch(mode, v) ==
    IF open
    THEN /\ opened < MaxOpened /\ opened' = opened + 1
         /\ editing' = TRUE
         /\ filled' = [NoForm EXCEPT !.mode = mode, !.vault = v]
         /\ choices' = [stage |-> "run"]
         /\ loading' = IF mode = "edit" THEN [stage |-> "run"] ELSE Quiet
    ELSE UNCHANGED pageVars

\* The button of the secret on its card or in the security centre.
EditSecret ==
    /\ Act /\ ~editing
    /\ Launch("edit", Nowhere)
    /\ UNCHANGED <<live, row, created, open, shows, active, adding, saves>>

\* Without an active vault the page opens at once.
PressAdd ==
    /\ Act /\ ~editing
    /\ IF active = Nowhere
       THEN Launch("create", Nowhere) /\ UNCHANGED adding
       ELSE /\ adding = Quiet
            /\ adding' = [stage |-> "run", vault |-> active]
            /\ UNCHANGED pageVars
    /\ UNCHANGED <<live, row, created, open, shows, active, saves>>

\* get_vault_access_for_user, or a storage error.
CheckAccess ==
    /\ adding.stage = "run"
    /\ \E granted \in {Has(adding.vault), FALSE} :
           adding' = [stage |-> "done", vault |-> adding.vault, granted |-> granted]
    /\ UNCHANGED <<live, row, created, open, shows, active, pageVars, saves, acts>>

\* The answer opens a page for the vault of the press, whatever is in front.
LandAdd ==
    /\ adding.stage = "done"
    /\ adding' = Quiet
    /\ IF adding.granted THEN Launch("in", adding.vault) ELSE UNCHANGED pageVars
    /\ UNCHANGED <<live, row, created, open, shows, active, saves, acts>>

-----------------------------------------------------------------------------
(* The page is filled. *)

ListChoices ==
    /\ choices.stage = "run"
    /\ \/ choices' = [stage |-> "done", found |-> Listing]
       \/ choices' = Quiet
    /\ UNCHANGED <<live, row, created, open, shows, active, editing, opened, filled, adding,
                   loading, saves, acts>>

\* The pills are built again; until the secret is loaded the first is chosen.
Pills(found, target) ==
    filled' = [filled EXCEPT !.target = target,
                         !.pills = {found[n] : n \in DOMAIN found},
                         !.pill = IF \E n \in DOMAIN found : found[n] = target
                                  THEN target ELSE Nowhere]
LandChoices_Resets ==
    /\ choices.stage = "done"
    /\ choices' = Quiet
    /\ Pills(choices.found, Foremost(choices.found))
    /\ UNCHANGED <<live, row, created, open, shows, active, editing, opened, adding,
                   loading, saves, acts>>
LandChoices ==
    /\ choices.stage = "done"
    /\ choices' = Quiet
    /\ Pills(choices.found, IF filled.source = Nowhere THEN Foremost(choices.found)
                            ELSE filled.target)
    /\ UNCHANGED <<live, row, created, open, shows, active, editing, opened, adding,
                   loading, saves, acts>>

\* The vaults are searched for the secret; its value is read if it is to be shown.
LoadSecret ==
    /\ loading.stage = "run"
    /\ \E read \in {row, Nowhere} :
           loading' = [stage |-> "done", read |-> read, pills |-> live]
    /\ UNCHANGED <<live, row, created, open, shows, active, editing, opened, filled, adding,
                   choices, saves, acts>>

\* What was typed before is overwritten; after an error the page stays as it is.
LandSecret ==
    /\ loading.stage = "done"
    /\ loading' = Quiet
    /\ IF loading.read = Nowhere
       THEN UNCHANGED filled
       ELSE filled' = [filled EXCEPT
                !.source = loading.read.at, !.target = loading.read.at,
                !.pill = loading.read.at, !.pills = loading.pills,
                !.read = loading.read, !.details = loading.read.details,
                !.value = IF shows THEN loading.read.value ELSE @,
                !.snapshot = IF shows THEN loading.read.value ELSE Blank,
                !.touched = IF shows THEN {} ELSE @ \cap {"value"}]
    /\ UNCHANGED <<live, row, created, open, shows, active, editing, opened, adding,
                   choices, saves, acts>>

Type(field, text) ==
    /\ Act /\ editing
    /\ filled' = [filled EXCEPT ![field] = text, !.touched = @ \cup {field}]
    /\ UNCHANGED <<live, row, created, open, shows, active, editing, opened, adding,
                   choices, loading, saves>>

PickPill(v) ==
    /\ Act /\ editing
    /\ v \in filled.pills
    /\ filled' = [filled EXCEPT !.target = v, !.pill = v,
                              !.touched = @ \cup {"vault"}]
    /\ UNCHANGED <<live, row, created, open, shows, active, editing, opened, adding,
                   choices, loading, saves>>

-----------------------------------------------------------------------------
(* The page is saved, or left. *)

\* A value that is as it was loaded is not sent.
Sent == IF filled.mode = "edit" /\ filled.value = filled.snapshot THEN Blank ELSE filled.value

\* A new secret of the add button goes to the vault of the press; the pills are
\* not asked.
PressSave(s) ==
    /\ Act /\ editing
    /\ saves[s] = Quiet
    /\ filled.mode # "edit" => filled.value # Blank
    /\ saves' = [saves EXCEPT ![s] =
           [stage |-> "run", op |-> filled.mode,
            to |-> IF filled.mode = "in" THEN filled.vault ELSE filled.target,
            details |-> filled.details, value |-> Sent,
            pressed |-> [pill |-> filled.pill, vault |-> filled.vault, read |-> filled.read,
                      touched |-> filled.touched]]]
    /\ UNCHANGED <<live, row, created, open, shows, active, pageVars, adding>>

PressDelete(s) ==
    /\ Act /\ editing /\ filled.mode = "edit"
    /\ saves[s] = Quiet
    /\ saves' = [saves EXCEPT ![s] = [stage |-> "run", op |-> "delete"]]
    /\ UNCHANGED <<live, row, created, open, shows, active, pageVars, adding>>

RunCreate(s) ==
    LET to == IF saves[s].to = Nowhere THEN Foremost(Listing) ELSE saves[s].to
    IN  /\ saves[s].op \in {"create", "in"}
        /\ Has(to)
        /\ created' = to
        /\ UNCHANGED row

RunEdit(s) ==
    LET to == IF saves[s].to = Nowhere THEN row.at ELSE saves[s].to
    IN  /\ saves[s].op = "edit"
        /\ row # Nowhere /\ Has(to)
        /\ row' = [at |-> to, details |-> saves[s].details,
                   value |-> IF saves[s].value = Blank THEN row.value ELSE saves[s].value]
        /\ UNCHANGED created

RunDelete(s) ==
    /\ saves[s].op = "delete"
    /\ row # Nowhere /\ row' = Nowhere
    /\ UNCHANGED created

\* Any of them may fail.
RunSaving(s) ==
    /\ saves[s].stage = "run"
    /\ \/ /\ RunCreate(s) \/ RunEdit(s) \/ RunDelete(s)
          /\ saves' = [saves EXCEPT ![s] = [stage |-> "saved"]]
       \/ /\ saves' = [saves EXCEPT ![s] = [stage |-> "failed"]]
          /\ UNCHANGED <<row, created>>
    /\ UNCHANGED <<live, open, shows, active, pageVars, adding, acts>>

\* The answer of a success leaves the editor, also when another page is in it.
LandSaving(s) ==
    /\ saves[s].stage \in {"saved", "failed"}
    /\ saves' = [saves EXCEPT ![s] = Quiet]
    /\ IF saves[s].stage = "saved" THEN Leave ELSE UNCHANGED <<editing, filled, choices, loading>>
    /\ created' = Nowhere
    /\ UNCHANGED <<live, row, open, shows, active, opened, adding, acts>>

Back ==
    /\ Act /\ editing
    /\ Leave
    /\ UNCHANGED <<live, row, created, open, shows, active, opened, adding, saves>>

-----------------------------------------------------------------------------
(* Around the page. *)

ChooseRow(v) ==
    /\ Act /\ ~editing
    /\ Has(v)
    /\ active' = v
    /\ UNCHANGED <<live, row, created, open, shows, pageVars, adding, saves>>

RemoveVault(v) ==
    /\ Act
    /\ Has(v)
    /\ live' = live \ {v}
    /\ row' = IF row # Nowhere /\ row.at = v THEN Nowhere ELSE row
    /\ active' = IF active = v THEN Nowhere ELSE active
    /\ UNCHANGED <<created, open, shows, pageVars, adding, saves>>

LockOrUnlock ==
    /\ acts < MaxActs /\ acts' = acts + 1
    /\ open' = ~open
    /\ UNCHANGED <<live, row, created, shows, active, pageVars, adding, saves>>

EditorNext ==
    \/ EditSecret \/ PressAdd \/ CheckAccess \/ LandAdd
    \/ ListChoices \/ LandChoices \/ LoadSecret \/ LandSecret
    \/ \E field \in {"details", "value"}, text \in Typed : Type(field, text)
    \/ \E v \in Places : PickPill(v) \/ ChooseRow(v) \/ RemoveVault(v)
    \/ \E s \in Savings : PressSave(s) \/ PressDelete(s) \/ RunSaving(s) \/ LandSaving(s)
    \/ Back \/ LockOrUnlock

EditorSpec == EditorInit /\ [][EditorNext]_editorVars

-----------------------------------------------------------------------------
(* Properties. *)

\* A save stores what its page showed when it was pressed, in whatever order the
\* page was filled and whatever other pages save: a new secret of the add button
\* in the vault of the press, any other one in the vault of the pill.  Once the
\* secret was read, what the user left alone keeps what was read, its vault too,
\* and a value left alone keeps what is stored, shown or not
\* (build_inline_body.inc:569, 934).
SavedAsShown ==
    [][\A s \in Savings :
         LET save == saves[s]
             at == IF save.op = "edit" THEN row'.at ELSE created'
         IN  save.stage = "run" /\ saves'[s].stage = "saved" /\ save.op # "delete" =>
               /\ save.op = "in" => at = save.pressed.vault
               /\ save.op # "in" /\ save.pressed.pill # Nowhere => at = save.pressed.pill
               /\ save.op = "edit" /\ save.pressed.read # Nowhere =>
                    /\ "vault" \notin save.pressed.touched => at = save.pressed.read.at
                    /\ "details" \notin save.pressed.touched =>
                           row'.details = save.pressed.read.details
                    /\ "value" \notin save.pressed.touched => row'.value = row.value]_editorVars

=============================================================================
