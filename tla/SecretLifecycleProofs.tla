------------------------ MODULE SecretLifecycleProofs -------------------------
(***************************************************************************)
(* Proofs about SecretLifecycle, for any sets of vaults, secrets, texts    *)
(* and threads; where it is said so, for one save at a time.  Then about   *)
(* EntryEditor, the page those saves start from.                           *)
(***************************************************************************)
EXTENDS SecretLifecycle, EntryEditor, TLAPS

(* A kept row is in a vault and says something; the others hold nothing.     *)
Whole(made) ==
  /\ made.state \in {"live", "trashed"} => made.at \in Vaults /\ made.value \in Texts
  /\ made.state \notin {"live", "trashed"} => made = NoRow(made.state)

Searching == {"list", "look"}
Moving == {"keys", "read", "place"}
Updating == {"metadata", "value"}

(* What a save has read and chosen by the time it reaches a stage.           *)
Sane(sv) ==
  /\ sv.stage \notin {"idle", "saved"} => sv.draft \in Texts
  /\ sv.stage \in Searching \union Moving \union Updating => sv.mode = "edit"
  /\ sv.mode = "edit" => sv.secret \in Secrets
  /\ sv.stage \in Moving \union Updating \union {"open", "insert"} => sv.target \in Vaults
  /\ sv.stage \in Moving => sv.source \in Vaults /\ sv.source # sv.target
  /\ sv.stage = "place" => sv.read \in Texts
  /\ sv.stage = "insert" => sv.mode # "edit"

LifeInv ==
  /\ TypeOK
  /\ \A s \in Secrets : Whole(item[s])
  /\ \A t \in Savers : Sane(save[t])
  /\ \A t \in Savers : save[t].secret \in Secrets => item[save[t].secret].state # "absent"
  /\ \A e \in Emptiers : empty[e].stage = "empty" => empty[e].vault \in Owned

-----------------------------------------------------------------------------
(* A step of one save that leaves the rows alone.                            *)
LEMMA OneSave ==
  ASSUME LifeInv, NEW t \in Savers, NEW sv \in SaveState, Sane(sv),
         sv.secret \in Secrets => item[sv.secret].state # "absent",
         save' = [save EXCEPT ![t] = sv],
         UNCHANGED <<vault, item, empty, listed>>
  PROVE  LifeInv'
<1>1. save \in [Savers -> SaveState]
  BY DEF LifeInv, TypeOK
<1>2. save' \in [Savers -> SaveState] /\ \A u \in Savers : save'[u] = IF u = t THEN sv ELSE save[u]
  BY <1>1
<1>3. QED
  BY <1>2 DEF LifeInv, TypeOK, Whole, Kept, Live

(* A step that gives one secret a new row, which keeps its place in life or  *)
(* leaves the absent for good.                                               *)
LEMMA OneRow ==
  ASSUME LifeInv, NEW s \in Secrets, NEW made \in Item, Whole(made),
         made.state # "absent",
         item' = [item EXCEPT ![s] = made]
  PROVE  /\ item' \in [Secrets -> Item]
         /\ \A u \in Secrets : Whole(item'[u])
         /\ \A u \in Secrets : item[u].state # "absent" => item'[u].state # "absent"
         /\ item'[s] = made
         /\ \A u \in Secrets \ {s} : item'[u] = item[u]
<1>1. item \in [Secrets -> Item]
  BY DEF LifeInv, TypeOK
<1>2. item' \in [Secrets -> Item] /\ \A u \in Secrets : item'[u] = IF u = s THEN made ELSE item[u]
  BY <1>1
<1>3. QED
  BY <1>2 DEF LifeInv

(* The steps of a save that write nothing.                                   *)
LEMMA ReadingKeeps ==
  ASSUME LifeInv, NEW t \in Savers,
         \/ BeginCreate(t) \/ BeginImport(t) \/ ListVaults(t) \/ LookInVault(t)
         \/ OpenVaults(t) \/ ReadMoved(t) \/ OpenTarget(t) \/ EndSave(t)
         \/ \E s \in Secrets : BeginEdit(t, s)
  PROVE  LifeInv'
<1> USE VaultsAssumption
<1>1. /\ save \in [Savers -> SaveState] /\ save[t] \in SaveState /\ Sane(save[t])
      /\ save[t].secret \in Secrets => item[save[t].secret].state # "absent"
      /\ item \in [Secrets -> Item]
  BY DEF LifeInv, TypeOK
<1>2. NoSave \in SaveState /\ Sane(NoSave) /\ NoSave.secret \notin Secrets
  BY DEF NoSave, SaveState, Stages, Sane, Searching, Moving, Updating
<1>3. CASE BeginCreate(t) \/ BeginImport(t)
  <2>1. PICK target \in Vaults, draft \in Texts, mode \in {"create", "import"} :
             save' = [save EXCEPT ![t] = [NoSave EXCEPT
                        !.stage = "open", !.mode = mode, !.target = target, !.draft = draft]]
    BY <1>3 DEF BeginCreate, BeginImport, Accessible
  <2> DEFINE sv == [NoSave EXCEPT !.stage = "open", !.mode = mode, !.target = target,
                                  !.draft = draft]
  <2>2. sv \in SaveState /\ Sane(sv) /\ sv.secret \notin Secrets
    BY DEF NoSave, SaveState, Stages, Sane, Searching, Moving, Updating
  <2>3. QED
    BY <1>3, <2>1, <2>2, OneSave DEF BeginCreate, BeginImport
<1>4. CASE ListVaults(t)
  <2> DEFINE sv == [save[t] EXCEPT !.stage = "look", !.todo = Accessible]
  <2>1. sv \in SaveState /\ Sane(sv) /\ sv.secret = save[t].secret
    BY <1>1, <1>4 DEF ListVaults, SaveState, Stages, Sane, Searching, Moving, Updating, Accessible
  <2>2. save' = [save EXCEPT ![t] = sv]
    BY <1>4 DEF ListVaults
  <2>3. QED
    BY <1>1, <1>4, <2>1, <2>2, OneSave DEF ListVaults
<1>5. CASE LookInVault(t)
  <2>1. PICK v \in save[t].todo :
             IF Live(save[t].secret) /\ item[save[t].secret].at = v
             THEN Found(t, v) ELSE save' = [save EXCEPT ![t].todo = @ \ {v}]
    BY <1>5 DEF LookInVault
  <2>2. v \in Vaults
    BY <1>1 DEF SaveState
  <2>3. CASE Found(t, v)
    <3> DEFINE target == IF save[t].target = None THEN v ELSE save[t].target
               sv == [save[t] EXCEPT !.stage = IF target = v THEN "open" ELSE "keys",
                                     !.source = v, !.target = target, !.todo = {}]
    <3>1. target \in Vaults
      BY <1>1, <2>2 DEF SaveState
    <3>2. save' = [save EXCEPT ![t] = sv]
      BY <2>3 DEF Found
    <3> HIDE DEF target
    <3>3. sv \in SaveState /\ Sane(sv) /\ sv.secret = save[t].secret
      BY <1>1, <1>5, <2>2, <3>1
         DEF LookInVault, SaveState, Stages, Sane, Searching, Moving, Updating
    <3>4. QED
      BY <1>1, <1>5, <3>2, <3>3, OneSave DEF LookInVault
  <2>4. CASE save' = [save EXCEPT ![t].todo = @ \ {v}]
    <3> DEFINE sv == [save[t] EXCEPT !.todo = @ \ {v}]
    <3>1. sv \in SaveState /\ Sane(sv) /\ sv.secret = save[t].secret
      BY <1>1 DEF SaveState, Sane
    <3>2. QED
      BY <1>1, <1>5, <2>4, <3>1, OneSave DEF LookInVault
  <2>5. QED
    BY <2>1, <2>3, <2>4
<1>6. CASE OpenVaults(t) \/ OpenTarget(t) \/ (ReadMoved(t) /\ Goes(t, "open"))
  <2>1. PICK stage \in {"read", "metadata", "insert", "open"} :
             /\ Goes(t, stage)
             /\ stage = "read" => save[t].stage = "keys"
             /\ stage = "open" => save[t].stage = "read"
             /\ stage = "metadata" => save[t].stage = "open" /\ save[t].mode = "edit"
             /\ stage = "insert" => save[t].stage = "open" /\ save[t].mode # "edit"
    BY <1>6 DEF OpenVaults, OpenTarget, ReadMoved
  <2> DEFINE sv == [save[t] EXCEPT !.stage = stage]
  <2>2. sv \in SaveState /\ Sane(sv) /\ sv.secret = save[t].secret
    BY <1>1, <2>1 DEF SaveState, Stages, Sane, Searching, Moving, Updating
  <2>3. save' = [save EXCEPT ![t] = sv]
    BY <2>1 DEF Goes
  <2>4. QED
    BY <1>1, <1>6, <2>2, <2>3, OneSave DEF OpenVaults, OpenTarget, ReadMoved
<1>7. CASE ReadMoved(t) /\ ~Goes(t, "open")
  <2> DEFINE s == save[t].secret
             sv == [save[t] EXCEPT !.stage = "place", !.read = item[s].value]
  <2>1. save[t].stage = "read" /\ Live(s) /\ save' = [save EXCEPT ![t] = sv]
    BY <1>7 DEF ReadMoved
  <2>2. s \in Secrets /\ item[s].value \in Texts
    BY <1>1, <2>1 DEF LifeInv, Whole, Live, Sane, Moving
  <2>3. sv \in SaveState /\ Sane(sv) /\ sv.secret = save[t].secret
    BY <1>1, <2>1, <2>2 DEF SaveState, Stages, Sane, Searching, Moving, Updating
  <2>4. QED
    BY <1>1, <1>7, <2>1, <2>3, OneSave DEF ReadMoved
<1>8. CASE EndSave(t)
  BY <1>2, <1>8, OneSave DEF EndSave
<1>9. ASSUME NEW s \in Secrets, BeginEdit(t, s)
      PROVE  LifeInv'
  <2>1. PICK target \in Vaults \union {None}, draft \in Texts, changed \in BOOLEAN :
             save' = [save EXCEPT ![t] = [NoSave EXCEPT
                        !.stage = "list", !.mode = "edit", !.secret = s, !.target = target,
                        !.draft = draft, !.changed = changed]]
    BY <1>9 DEF BeginEdit
  <2> DEFINE sv == [NoSave EXCEPT !.stage = "list", !.mode = "edit", !.secret = s,
                      !.target = target, !.draft = draft, !.changed = changed]
  <2>2. sv \in SaveState /\ Sane(sv) /\ sv.secret = s
    BY DEF NoSave, SaveState, Stages, Sane, Searching, Moving, Updating
  <2>3. QED
    BY <1>9, <2>1, <2>2, OneSave DEF BeginEdit
<1>10. QED
  BY <1>3, <1>4, <1>5, <1>6, <1>7, <1>8, <1>9 DEF ReadMoved

(* The row a writing step of a save leaves, and what the save then holds.    *)
LEMMA WritingKeeps ==
  ASSUME LifeInv, NEW t \in Savers,
         \/ PlaceMoved(t) \/ SaveMetadata(t) \/ SaveValue(t)
         \/ \E s \in Secrets : InsertSecret(t, s)
  PROVE  LifeInv'
<1> USE VaultsAssumption
<1>1. /\ save \in [Savers -> SaveState] /\ save[t] \in SaveState /\ Sane(save[t])
      /\ item \in [Secrets -> Item]
  BY DEF LifeInv, TypeOK
<1>2. SUFFICES ASSUME NEW s \in Secrets, NEW made \in Item, Whole(made), made.state # "absent",
                      item' = [item EXCEPT ![s] = made],
                      NEW sv \in SaveState, Sane(sv),
                      sv.secret = s \/ sv.secret = save[t].secret,
                      save' = [save EXCEPT ![t] = sv],
                      UNCHANGED <<vault, empty, listed>>
               PROVE  LifeInv'
  <2>1. CASE PlaceMoved(t) \/ SaveMetadata(t) \/ SaveValue(t)
    <3> DEFINE s == save[t].secret
    <3>1. s \in Secrets /\ Live(s)
      BY <1>1, <2>1 DEF PlaceMoved, SaveMetadata, SaveValue, Sane, Moving, Updating
    <3>2. item[s] \in Item /\ Whole(item[s]) /\ item[s].state = "live"
      BY <1>1, <3>1 DEF LifeInv, Live
    <3>3. CASE PlaceMoved(t)
      <4> DEFINE made == [item[s] EXCEPT !.at = save[t].target, !.under = save[t].target,
                                        !.value = save[t].read]
                 sv == [save[t] EXCEPT !.stage = "open"]
      <4>1. made \in Item /\ Whole(made) /\ made.state # "absent"
        BY <1>1, <3>2, <3>3 DEF PlaceMoved, Item, Whole, Sane, Moving
      <4>2. sv \in SaveState /\ Sane(sv) /\ sv.secret = s
        BY <1>1, <3>3 DEF PlaceMoved, SaveState, Stages, Sane, Searching, Moving, Updating
      <4>3. /\ item' = [item EXCEPT ![s] = made] /\ save' = [save EXCEPT ![t] = sv]
            /\ UNCHANGED <<vault, empty, listed>>
        BY <3>3 DEF PlaceMoved, Goes
      <4>4. QED
        BY <1>2, <3>1, <4>1, <4>2, <4>3
    <3>4. CASE SaveMetadata(t)
      <4> DEFINE made == [item[s] EXCEPT !.title = save[t].draft]
                 sv == [save[t] EXCEPT !.stage = IF save[t].changed THEN "value" ELSE "saved"]
      <4>1. made \in Item /\ Whole(made) /\ made.state # "absent"
        BY <1>1, <3>2, <3>4 DEF SaveMetadata, Item, Whole, Sane
      <4>2. sv \in SaveState /\ Sane(sv) /\ sv.secret = s
        BY <1>1, <3>4 DEF SaveMetadata, SaveState, Stages, Sane, Searching, Moving, Updating
      <4>3. /\ item' = [item EXCEPT ![s] = made] /\ save' = [save EXCEPT ![t] = sv]
            /\ UNCHANGED <<vault, empty, listed>>
        BY <3>4 DEF SaveMetadata, Goes
      <4>4. QED
        BY <1>2, <3>1, <4>1, <4>2, <4>3
    <3>5. CASE SaveValue(t)
      <4> DEFINE made == [item[s] EXCEPT !.value = save[t].draft, !.under = save[t].target]
                 sv == [save[t] EXCEPT !.stage = "saved"]
      <4>1. made \in Item /\ Whole(made) /\ made.state # "absent"
        BY <1>1, <3>2, <3>5 DEF SaveValue, Item, Whole, Sane, Updating
      <4>2. sv \in SaveState /\ Sane(sv) /\ sv.secret = s
        BY <1>1, <3>5 DEF SaveValue, SaveState, Stages, Sane, Searching, Moving, Updating
      <4>3. /\ item' = [item EXCEPT ![s] = made] /\ save' = [save EXCEPT ![t] = sv]
            /\ UNCHANGED <<vault, empty, listed>>
        BY <3>5 DEF SaveValue, Goes
      <4>4. QED
        BY <1>2, <3>1, <4>1, <4>2, <4>3
    <3>6. QED
      BY <2>1, <3>3, <3>4, <3>5
  <2>2. ASSUME NEW s \in Secrets, InsertSecret(t, s)
        PROVE  LifeInv'
    <3> DEFINE made == Row("live", save[t].target, save[t].draft, save[t].draft)
               sv == [save[t] EXCEPT !.secret = s,
                        !.stage = IF save[t].mode = "import" THEN "insert" ELSE "saved"]
    <3>1. made \in Item /\ Whole(made) /\ made.state # "absent"
      BY <1>1, <2>2 DEF InsertSecret, Row, Item, Whole, Sane
    <3>2. sv \in SaveState /\ Sane(sv) /\ sv.secret = s
      BY <1>1, <2>2 DEF InsertSecret, SaveState, Stages, Sane, Searching, Moving, Updating
    <3>3. /\ item' = [item EXCEPT ![s] = made] /\ save' = [save EXCEPT ![t] = sv]
          /\ UNCHANGED <<vault, empty, listed>>
      BY ZenonT(60), <2>2 DEF InsertSecret
    <3>4. QED
      BY <1>2, <3>1, <3>2, <3>3
  <2>3. QED
    BY <2>1, <2>2
<1>3. /\ item' \in [Secrets -> Item]
      /\ \A u \in Secrets : Whole(item'[u])
      /\ \A u \in Secrets : item[u].state # "absent" => item'[u].state # "absent"
      /\ item'[s] = made
  BY <1>2, OneRow
<1>4. save' \in [Savers -> SaveState] /\ \A u \in Savers : save'[u] = IF u = t THEN sv ELSE save[u]
  BY <1>1, <1>2
<1>5. \A u \in Savers : save'[u].secret \in Secrets => item'[save'[u].secret].state # "absent"
  BY <1>2, <1>3, <1>4 DEF LifeInv
<1>6. QED
  BY <1>2, <1>3, <1>4, <1>5 DEF LifeInv, TypeOK

(* Rows that go to the trash, come back or are destroyed.                    *)
LEMMA RowsKeep ==
  ASSUME LifeInv,
         vault' \in [Vaults -> {"live", "trashed"}],
         item' \in [Secrets -> Item],
         \A s \in Secrets : item'[s] = item[s] \/ item'[s] = NoRow("purged")
            \/ /\ item[s].state \in {"live", "trashed"}
               /\ \E state \in {"live", "trashed"} : item'[s] = [item[s] EXCEPT !.state = state],
         empty' \in [Emptiers -> [stage : {"idle", "open", "empty", "emptied"},
                                  vault : Vaults \union {None}]],
         \A e \in Emptiers : empty'[e].stage = "empty" => empty'[e].vault \in Owned,
         listed' \subseteq Secrets \X Owned,
         save' = save
  PROVE  LifeInv'
<1>1. \A s \in Secrets : Whole(item'[s]) /\ (item[s].state # "absent" => item'[s].state # "absent")
  <2>1. TAKE s \in Secrets
  <2>2. item[s] \in Item /\ Whole(item[s])
    BY DEF LifeInv, TypeOK
  <2>3. CASE item'[s] = item[s]
    BY <2>2, <2>3
  <2>4. CASE item'[s] = NoRow("purged")
    BY <2>4 DEF NoRow, Whole
  <2>5. ASSUME NEW state \in {"live", "trashed"}, item[s].state \in {"live", "trashed"},
               item'[s] = [item[s] EXCEPT !.state = state]
        PROVE  Whole(item'[s]) /\ item'[s].state # "absent"
    BY <2>2, <2>5 DEF Whole, Item
  <2>6. QED
    BY <2>3, <2>4, <2>5
<1>2. QED
  BY <1>1 DEF LifeInv, TypeOK

(* A destroyed row is a row.                                                 *)
LEMMA NoRowType == NoRow("purged") \in Item
BY DEF NoRow, Item

(* Deleting, restoring, purging and listing keep the invariant: they move    *)
(* rows along and change no blob.                                            *)
LEMMA TrashKeeps ==
  ASSUME LifeInv, TrashStep PROVE LifeInv'
<1> USE VaultsAssumption
<1>1. /\ vault \in [Vaults -> {"live", "trashed"}] /\ item \in [Secrets -> Item]
      /\ listed \subseteq Secrets \X Owned
      /\ empty \in [Emptiers -> [stage : {"idle", "open", "empty", "emptied"},
                                vault : Vaults \union {None}]]
      /\ \A e \in Emptiers : empty[e].stage = "empty" => empty[e].vault \in Owned
  BY DEF LifeInv, TypeOK
<1>2. \A s \in Secrets, state \in {"live", "trashed"} : [item[s] EXCEPT !.state = state] \in Item
  BY <1>1 DEF Item
<1>3. ASSUME NEW s \in Secrets, SoftDelete(s) PROVE LifeInv'
  <2>1. item' = [item EXCEPT ![s] = [item[s] EXCEPT !.state = "trashed"]]
    BY <1>3 DEF SoftDelete
  <2>2. item' \in [Secrets -> Item]
    BY <1>1, <1>2, <2>1
  <2>3. QED
    BY <1>1, <1>3, <2>1, <2>2, RowsKeep DEF SoftDelete, Live
<1>4. ASSUME NEW s \in Secrets, NEW v \in Vaults, Restore(s, v) PROVE LifeInv'
  <2>1. item' = [item EXCEPT ![s] = [item[s] EXCEPT !.state = "live"]]
    BY <1>4 DEF Restore
  <2>2. item' \in [Secrets -> Item]
    BY <1>1, <1>2, <2>1
  <2>3. vault' \in [Vaults -> {"live", "trashed"}]
    BY <1>1, <1>4 DEF Restore
  <2>4. QED
    BY <1>1, <1>4, <2>1, <2>2, <2>3, RowsKeep DEF Restore, InTrash
<1>5. ASSUME NEW s \in Secrets, NEW v \in Vaults, Purge(s, v) PROVE LifeInv'
  BY <1>1, <1>5, RowsKeep, NoRowType DEF Purge
<1>6. ASSUME NEW v \in Vaults, DeleteVault(v) PROVE LifeInv'
  <2>1. \A s \in Secrets :
           \/ item'[s] = item[s]
           \/ Live(s) /\ item'[s] = [item[s] EXCEPT !.state = "trashed"]
    BY <1>6 DEF DeleteVault
  <2>2. \A s \in Secrets : item'[s] \in Item
    BY ZenonT(120), <1>1, <1>2, <2>1
  <2>3. item' \in [Secrets -> Item]
    BY <1>6, <2>2 DEF DeleteVault
  <2>4. vault' \in [Vaults -> {"live", "trashed"}]
    BY <1>1, <1>6 DEF DeleteVault
  <2>5. QED
    BY <1>1, <1>6, <2>1, <2>3, <2>4, RowsKeep DEF DeleteVault, Live
<1>7. CASE RefreshTrash
  BY <1>1, <1>7, RowsKeep DEF RefreshTrash, Trashed
<1>8. QED
  BY <1>3, <1>4, <1>5, <1>6, <1>7 DEF TrashStep

(* So does an "empty trash" thread, which only gets past open_vault with a   *)
(* vault of the user.                                                        *)
LEMMA EmptyKeeps ==
  ASSUME LifeInv, NEW e \in Emptiers, EmptyStep(e) PROVE LifeInv'
<1> USE VaultsAssumption
<1>1. /\ vault \in [Vaults -> {"live", "trashed"}] /\ item \in [Secrets -> Item]
      /\ listed \subseteq Secrets \X Owned
      /\ empty \in [Emptiers -> [stage : {"idle", "open", "empty", "emptied"},
                                vault : Vaults \union {None}]]
      /\ \A x \in Emptiers : empty[x].stage = "empty" => empty[x].vault \in Owned
  BY DEF LifeInv, TypeOK
<1>2. CASE ResolveVault(e) \/ EndEmpty(e)
  BY <1>1, <1>2, RowsKeep DEF ResolveVault, EndEmpty, Accessible
<1>3. CASE OpenAsOwner(e)
  <2>1. empty' = [empty EXCEPT ![e] = [empty[e] EXCEPT !.stage = "empty"]]
    BY <1>3 DEF OpenAsOwner
  <2>2. empty[e].vault \in Owned
    BY <1>3 DEF OpenAsOwner
  <2>3. \A x \in Emptiers : empty'[x].stage = "empty" => empty'[x].vault \in Owned
    <3>1. TAKE x \in Emptiers
    <3>2. CASE x = e
      BY <1>1, <2>1, <2>2, <3>2
    <3>3. CASE x # e
      BY <1>1, <2>1, <3>3
    <3>4. QED
      BY <3>2, <3>3
  <2>4. empty' \in [Emptiers -> [stage : {"idle", "open", "empty", "emptied"},
                                vault : Vaults \union {None}]]
    BY <1>1, <2>1
  <2>5. QED
    BY <1>1, <1>3, <2>3, <2>4, RowsKeep DEF OpenAsOwner
<1>4. CASE EmptyVault(e)
  <2>1. \A s \in Secrets : item'[s] = item[s] \/ item'[s] = NoRow("purged")
    BY <1>4 DEF EmptyVault
  <2>2. item' \in [Secrets -> Item]
    BY <1>1, <1>4, NoRowType DEF EmptyVault
  <2>3. /\ empty' \in [Emptiers -> [stage : {"idle", "open", "empty", "emptied"},
                                   vault : Vaults \union {None}]]
        /\ \A x \in Emptiers : empty'[x].stage = "empty" => empty'[x].vault \in Owned
    <3>1. empty' = [empty EXCEPT ![e] = [empty[e] EXCEPT !.stage = "emptied"]]
      BY <1>4 DEF EmptyVault
    <3>2. [empty[e] EXCEPT !.stage = "emptied"] \in
            [stage : {"idle", "open", "empty", "emptied"}, vault : Vaults \union {None}]
      BY <1>1
    <3>3. [empty[e] EXCEPT !.stage = "emptied"].stage # "empty"
      BY <1>1
    <3>4. \A x \in Emptiers : empty'[x] = IF x = e THEN [empty[e] EXCEPT !.stage = "emptied"]
                                             ELSE empty[x]
      BY <1>1, <3>1
    <3>5. QED
      BY <1>1, <3>1, <3>2, <3>3, <3>4
  <2>4. QED
    BY <1>1, <1>4, <2>1, <2>2, <2>3, RowsKeep DEF EmptyVault
<1>5. QED
  BY <1>2, <1>3, <1>4 DEF EmptyStep

(* What the database can hold when the process starts.                       *)
LEMMA InitLife == Init => LifeInv
<1> USE VaultsAssumption
<1> SUFFICES ASSUME Init PROVE LifeInv
  OBVIOUS
<1>1. \A s \in Secrets : item[s] \in Item /\ Whole(item[s])
  BY DEF Init, Item, Row, NoRow, Whole
<1>2. item \in [Secrets -> Item]
  BY <1>1 DEF Init
<1>3. NoSave \in SaveState /\ Sane(NoSave) /\ NoSave.secret \notin Secrets
  BY DEF NoSave, SaveState, Stages, Sane, Searching, Moving, Updating
<1>4. QED
  BY <1>1, <1>2, <1>3 DEF Init, LifeInv, TypeOK

(* Every step of the program keeps the invariant.                            *)
LEMMA NextLife == LifeInv /\ [Next]_vars => LifeInv'
<1> USE VaultsAssumption
<1> SUFFICES ASSUME LifeInv, [Next]_vars PROVE LifeInv'
  OBVIOUS
<1>1. ASSUME NEW t \in Savers, SaveStep(t) PROVE LifeInv'
  BY <1>1, ReadingKeeps, WritingKeeps DEF SaveStep
<1>2. CASE TrashStep
  BY <1>2, TrashKeeps
<1>3. ASSUME NEW e \in Emptiers, EmptyStep(e) PROVE LifeInv'
  BY <1>3, EmptyKeeps
<1>4. CASE Restart
  <2>1. NoSave \in SaveState /\ Sane(NoSave) /\ NoSave.secret \notin Secrets
    BY DEF NoSave, SaveState, Stages, Sane, Searching, Moving, Updating
  <2>2. item' = item /\ vault' = vault
    BY <1>4 DEF Restart
  <2>3. QED
    BY <1>4, <2>1, <2>2 DEF Restart, LifeInv, TypeOK
<1>5. CASE UNCHANGED vars
  BY <1>5 DEF vars, LifeInv, TypeOK
<1>6. QED
  BY <1>1, <1>2, <1>3, <1>4, <1>5 DEF Next

(* What every reachable database, save and "empty trash" thread satisfies.   *)
THEOREM LifeInvariant == Spec => []LifeInv
BY InitLife, NextLife, PTL DEF Spec

(* Rows, saves, threads and the rows on screen stay in their types.          *)
THEOREM LifeTypeCorrect == Spec => []TypeOK
<1>1. LifeInv => TypeOK
  BY DEF LifeInv
<1>2. QED
  BY <1>1, LifeInvariant, PTL

-----------------------------------------------------------------------------
(* The rows a step may touch, for the action properties.                     *)

(* A step of a save leaves every other secret alone and keeps its own.       *)
LEMMA SaveTouches ==
  ASSUME LifeInv, NEW t \in Savers, SaveStep(t), NEW s \in Secrets
  PROVE  /\ vault' = vault
         /\ \/ item'[s] = item[s]
            \/ /\ Live(s) /\ item'[s].state = "live" /\ item'[s].at = item[s].at
               /\ s = save[t].secret
            \/ /\ Live(s) /\ item'[s].state = "live"
               /\ save[t].stage = "place" /\ save'[t].stage = "open"
            \/ /\ item[s].state = "absent" /\ item'[s].state = "live"
               /\ save[t].stage = "insert" /\ save'[t].secret = s
<1>1. item \in [Secrets -> Item] /\ save \in [Savers -> SaveState] /\ item[s] \in Item
  BY DEF LifeInv, TypeOK
<1>2. CASE PlaceMoved(t)
  BY <1>1, <1>2 DEF PlaceMoved, Live, Goes, Item, SaveState
<1>3. CASE SaveMetadata(t)
  BY <1>1, <1>3 DEF SaveMetadata, Live, Item
<1>4. CASE SaveValue(t)
  BY <1>1, <1>4 DEF SaveValue, Live, Item
<1>5. ASSUME NEW u \in Secrets, InsertSecret(t, u)
      PROVE  /\ vault' = vault
             /\ \/ item'[s] = item[s]
                \/ /\ item[s].state = "absent" /\ item'[s].state = "live"
                   /\ save[t].stage = "insert" /\ save'[t].secret = s
  BY <1>1, <1>5 DEF InsertSecret, Row, SaveState
<1>6. CASE \/ BeginCreate(t) \/ BeginImport(t) \/ ListVaults(t) \/ LookInVault(t)
           \/ OpenVaults(t) \/ ReadMoved(t) \/ OpenTarget(t) \/ EndSave(t)
           \/ \E u \in Secrets : BeginEdit(t, u)
  BY <1>6 DEF BeginCreate, BeginImport, ListVaults, LookInVault, OpenVaults, ReadMoved,
              OpenTarget, EndSave, BeginEdit
<1>7. QED
  BY <1>2, <1>3, <1>4, <1>5, <1>6 DEF SaveStep

(* What the trash dialog and vault deletion do to one secret.                *)
LEMMA TrashTouches ==
  ASSUME LifeInv, TrashStep, NEW s \in Secrets
  PROVE  \/ item'[s] = item[s]
         \/ item[s].state = "live" /\ item'[s] = [item[s] EXCEPT !.state = "trashed"]
         \/ item[s].state = "trashed" /\ item'[s] = [item[s] EXCEPT !.state = "live"]
         \/ /\ item[s].state = "trashed" /\ item[s].at \in Owned
            /\ item'[s] = NoRow("purged")
<1>1. item \in [Secrets -> Item] /\ listed \subseteq Secrets \X Owned
  BY DEF LifeInv, TypeOK
<1>2. ASSUME NEW u \in Secrets, SoftDelete(u)
      PROVE  \/ item'[s] = item[s]
             \/ item[s].state = "live" /\ item'[s] = [item[s] EXCEPT !.state = "trashed"]
  <2>1. item' = [item EXCEPT ![u] = [item[u] EXCEPT !.state = "trashed"]] /\ Live(u)
    BY <1>2 DEF SoftDelete
  <2>2. QED
    BY <1>1, <2>1 DEF Live
<1>3. ASSUME NEW u \in Secrets, NEW v \in Vaults, Restore(u, v)
      PROVE  \/ item'[s] = item[s]
             \/ item[s].state = "trashed" /\ item'[s] = [item[s] EXCEPT !.state = "live"]
  <2>1. item' = [item EXCEPT ![u] = [item[u] EXCEPT !.state = "live"]] /\ InTrash(u, v)
    BY <1>3 DEF Restore
  <2>2. QED
    BY <1>1, <2>1 DEF InTrash
<1>4. ASSUME NEW u \in Secrets, NEW v \in Vaults, Purge(u, v)
      PROVE  \/ item'[s] = item[s]
             \/ /\ item[s].state = "trashed" /\ item[s].at \in Owned
                /\ item'[s] = NoRow("purged")
  <2>1. item' = [item EXCEPT ![u] = NoRow("purged")] /\ InTrash(u, v) /\ v \in Owned
    BY <1>1, <1>4 DEF Purge
  <2>2. QED
    BY <1>1, <2>1 DEF InTrash
<1>5. ASSUME NEW v \in Vaults, DeleteVault(v)
      PROVE  \/ item'[s] = item[s]
             \/ item[s].state = "live" /\ item'[s] = [item[s] EXCEPT !.state = "trashed"]
  BY <1>5 DEF DeleteVault, Live
<1>6. CASE RefreshTrash
  BY <1>6 DEF RefreshTrash
<1>7. QED
  BY <1>2, <1>3, <1>4, <1>5, <1>6 DEF TrashStep

(* "Empty trash" leaves a secret alone or destroys it from the trash of one  *)
(* of the user's vaults.                                                     *)
LEMMA EmptyTouches ==
  ASSUME LifeInv, NEW e \in Emptiers, EmptyStep(e), NEW s \in Secrets
  PROVE  /\ vault' = vault
         /\ \/ item'[s] = item[s]
            \/ /\ item[s].state = "trashed" /\ item[s].at \in Owned
               /\ item'[s] = NoRow("purged")
<1>1. CASE EmptyVault(e)
  BY <1>1 DEF EmptyVault, LifeInv, InTrash
<1>2. CASE ResolveVault(e) \/ OpenAsOwner(e) \/ EndEmpty(e)
  BY <1>2 DEF ResolveVault, OpenAsOwner, EndEmpty
<1>3. QED
  BY <1>1, <1>2 DEF EmptyStep

(* Whatever saves, stale rows of the trash dialog and "empty trash" threads  *)
(* do at once, only rows of the trash of the user's own vaults are deleted.  *)
THEOREM OnlyOwnTrashDies == Spec => PurgesOwnTrash
<1>1. ASSUME LifeInv, [Next]_vars, NEW s \in Secrets, Kept(s), ~Kept(s)'
      PROVE  item[s].state = "trashed" /\ item[s].at \in Owned
  <2>1. item[s] \in Item /\ item[s].state \in {"live", "trashed"}
    BY <1>1 DEF LifeInv, TypeOK, Kept
  <2>2. item'[s].state \notin {"live", "trashed"}
    BY <1>1 DEF Kept
  <2>3. ASSUME NEW t \in Savers, SaveStep(t) PROVE FALSE
    BY <1>1, <2>1, <2>2, <2>3, SaveTouches
  <2>4. CASE TrashStep
    BY <1>1, <2>1, <2>2, <2>4, TrashTouches DEF Item
  <2>5. CASE \E e \in Emptiers : EmptyStep(e)
    BY <1>1, <2>1, <2>2, <2>5, EmptyTouches
  <2>6. CASE Restart \/ UNCHANGED vars
    BY <2>1, <2>2, <2>6 DEF Restart, vars
  <2>7. QED
    BY <1>1, <2>3, <2>4, <2>5, <2>6 DEF Next
<1>2. LifeInv /\ [Next]_vars =>
        [\A s \in Secrets : Kept(s) /\ ~Kept(s)' => item[s].state = "trashed" /\ item[s].at \in Owned]_vars
  BY <1>1
<1>3. QED
  BY <1>2, LifeInvariant, PTL DEF Spec, PurgesOwnTrash

(* A user who never made a second vault: the default one is theirs.          *)
OwnsOne == \A v, w \in Owned : v = w

(* To a user who owns one vault, "empty trash" empties all the dialog shows, *)
(* whatever saves, stale rows and other such threads do beside it: the vault *)
(* it resolved is the owned one or nothing is emptied.                       *)
THEOREM OneVaultIsEmptied == OwnsOne => (Spec => EmptiesTrash)
<1> SUFFICES ASSUME OwnsOne PROVE Spec => EmptiesTrash
  OBVIOUS
<1>1. ASSUME LifeInv, [Next]_vars, NEW e \in Emptiers,
             empty[e].stage = "empty", empty'[e].stage = "emptied"
      PROVE  Trashed' = {}
  <2>1. empty \in [Emptiers -> [stage : {"idle", "open", "empty", "emptied"},
                                vault : Vaults \union {None}]]
    BY <1>1 DEF LifeInv, TypeOK
  <2>2. empty' # empty
    BY <1>1
  <2>3. ASSUME NEW t \in Savers, SaveStep(t) PROVE empty' = empty
    BY <2>3 DEF SaveStep, BeginCreate, BeginImport, ListVaults, LookInVault, OpenVaults,
                ReadMoved, PlaceMoved, OpenTarget, SaveMetadata, SaveValue, EndSave, BeginEdit,
                InsertSecret
  <2>4. ASSUME TrashStep PROVE empty' = empty
    BY <2>4 DEF TrashStep, SoftDelete, Restore, Purge, DeleteVault, RefreshTrash
  <2>5. ~Restart
    BY <1>1 DEF Restart
  <2>6. PICK f \in Emptiers : EmptyStep(f)
    BY <1>1, <2>2, <2>3, <2>4, <2>5 DEF Next, vars
  <2>7. EmptyVault(e)
    <3>1. ~ResolveVault(f) \/ f # e
      BY <1>1 DEF ResolveVault
    <3>2. ~OpenAsOwner(f)
      BY <1>1, <2>1 DEF OpenAsOwner
    <3>3. ~ResolveVault(f)
      BY <1>1, <2>1, <3>1 DEF ResolveVault
    <3>4. ~EndEmpty(f)
      BY <1>1, <2>1 DEF EndEmpty
    <3>5. EmptyVault(f)
      BY <2>6, <3>2, <3>3, <3>4 DEF EmptyStep
    <3>6. f = e
      BY <1>1, <2>1, <3>5 DEF EmptyVault
    <3> QED
      BY <3>5, <3>6
  <2>8. empty[e].vault \in Owned
    BY <1>1 DEF LifeInv
  <2>9. ASSUME NEW s \in Secrets, NEW v \in Owned PROVE ~InTrash(s, v)'
    <3>1. v = empty[e].vault
      BY <2>8, <2>9 DEF OwnsOne
    <3>2. item'[s] = IF InTrash(s, v) THEN NoRow("purged") ELSE item[s]
      BY <2>7, <3>1 DEF EmptyVault
    <3> QED
      BY <3>2 DEF InTrash, NoRow
  <2> QED
    BY <2>9 DEF Trashed
<1>2. LifeInv /\ [Next]_vars =>
        [\A e \in Emptiers :
           empty[e].stage = "empty" /\ empty'[e].stage = "emptied" => Trashed' = {}]_vars
  BY <1>1
<1>3. QED
  BY <1>2, LifeInvariant, PTL DEF Spec, EmptiesTrash

(* A live secret ends up in a deleted vault by a write of a save and by      *)
(* nothing else: the two transactions, deletion of a vault with its secrets  *)
(* and return of a secret with its vault, leave none there.                  *)
THEOREM OnlySavesHide == Spec => HiddenOnlyByLateSave
<1>1. ASSUME LifeInv, [Next]_vars, NEW s \in Secrets, ~Hidden(s), Hidden(s)'
      PROVE  \E t \in Savers : save[t].stage \in {"insert", "place"} /\ save'[t] # save[t]
  <2>1. /\ item[s] \in Item /\ Whole(item[s]) /\ item \in [Secrets -> Item]
        /\ vault \in [Vaults -> {"live", "trashed"}]
        /\ save \in [Savers -> SaveState]
    BY <1>1 DEF LifeInv, TypeOK
  <2>2. item'[s].state = "live" /\ vault'[item'[s].at] = "trashed"
    BY <1>1 DEF Hidden, Live
  <2>3. item[s].state = "live" => vault[item[s].at] # "trashed"
    BY <1>1 DEF Hidden, Live
  <2>4. ASSUME NEW t \in Savers, SaveStep(t)
        PROVE  save[t].stage \in {"insert", "place"} /\ save'[t] # save[t]
    <3>1. \/ save[t].stage = "place" /\ save'[t].stage = "open"
          \/ /\ item[s].state = "absent" /\ save[t].stage = "insert"
             /\ save'[t].secret = s
      BY <1>1, <2>2, <2>3, <2>4, SaveTouches DEF Live
    <3>2. item[s].state = "absent" => save[t].secret # s
      BY <1>1 DEF LifeInv
    <3>3. QED
      BY <3>1, <3>2
  <2>5. ASSUME NEW v \in Vaults, DeleteVault(v) PROVE FALSE
    <3>1. item'[s] = item[s] /\ item[s].state = "live" /\ item[s].at # v
      BY <2>1, <2>2, <2>5 DEF DeleteVault, Live, Item
    <3>2. item[s].at \in Vaults
      BY <2>1, <3>1 DEF Whole
    <3>3. vault'[item[s].at] = vault[item[s].at]
      BY <2>1, <2>5, <3>1, <3>2 DEF DeleteVault
    <3>4. QED
      BY <2>2, <2>3, <3>1, <3>3
  <2>6. ASSUME NEW u \in Secrets, NEW v \in Vaults, Restore(u, v) PROVE FALSE
    <3>1. /\ item' = [item EXCEPT ![u] = [item[u] EXCEPT !.state = "live"]]
          /\ vault' = [vault EXCEPT ![v] = "live"] /\ item[u].at = v
      BY <2>6 DEF Restore, InTrash
    <3>2. CASE s = u
      BY <2>1, <2>2, <3>1, <3>2 DEF Item
    <3>3. CASE s # u
      <4>1. item'[s] = item[s] /\ item[s].at \in Vaults
        BY <2>1, <2>2, <3>1, <3>3 DEF Whole
      <4>2. QED
        BY <2>1, <2>2, <2>3, <3>1, <4>1
    <3>4. QED
      BY <3>2, <3>3
  <2>7. ASSUME \/ \E u \in Secrets : SoftDelete(u) \/ \E v \in Vaults : Purge(u, v)
               \/ RefreshTrash
        PROVE  FALSE
    <3>1. vault' = vault
      BY <2>7 DEF SoftDelete, Purge, RefreshTrash
    <3>2. item'[s] = item[s] \/ item'[s].state # "live"
      <4>1. ASSUME NEW u \in Secrets, SoftDelete(u) PROVE item'[s] = item[s] \/ item'[s].state # "live"
        <5>1. item' = [item EXCEPT ![u] = [item[u] EXCEPT !.state = "trashed"]]
          BY <4>1 DEF SoftDelete
        <5>2. QED
          BY <2>1, <5>1 DEF Item
      <4>2. ASSUME NEW u \in Secrets, NEW v \in Vaults, Purge(u, v)
            PROVE  item'[s] = item[s] \/ item'[s].state # "live"
        BY <2>1, <4>2 DEF Purge, NoRow
      <4>3. QED
        BY <2>7, <4>1, <4>2 DEF RefreshTrash
    <3>3. QED
      BY <2>2, <2>3, <3>1, <3>2
  <2>8. ASSUME NEW e \in Emptiers, EmptyStep(e) PROVE FALSE
    <3>1. NoRow("purged").state # "live"
      BY DEF NoRow
    <3>2. QED
      BY <1>1, <2>2, <2>3, <2>8, <3>1, EmptyTouches
  <2>9. CASE Restart \/ UNCHANGED vars
    BY <2>2, <2>3, <2>9 DEF Restart, vars
  <2>10. QED
    BY <1>1, <2>4, <2>5, <2>6, <2>7, <2>8, <2>9 DEF Next, TrashStep
<1>2. LifeInv /\ [Next]_vars =>
        [\A s \in Secrets : ~Hidden(s) /\ Hidden(s)' =>
           \E t \in Savers : save[t].stage \in {"insert", "place"} /\ save'[t] # save[t]]_vars
  BY <1>1
<1>3. QED
  BY <1>2, LifeInvariant, PTL DEF Spec, HiddenOnlyByLateSave

-----------------------------------------------------------------------------
(* One save at a time: what it read of its secret is still so when it        *)
(* writes, although the secret may go to the trash and come back meanwhile.  *)

OneSaver == \A t, u \in Savers : t = u

Tracks(t) ==
  LET s == save[t].secret
  IN Kept(s) =>
       /\ save[t].stage \in Moving => item[s].at = save[t].source
       /\ save[t].stage = "place" => save[t].read = item[s].value
       /\ save[t].stage = "open" /\ save[t].mode = "edit" => item[s].at = save[t].target
       /\ save[t].stage \in Updating => item[s].at = save[t].target
       /\ save[t].stage = "value" => item[s].title = save[t].draft

TrackInv ==
  /\ LifeInv
  /\ \A s \in Secrets : Kept(s) => Readable(s)
  /\ \A t \in Savers : save[t].stage \in Searching \union Moving \union Updating \union {"open"}
                          /\ save[t].mode = "edit" => Tracks(t)

(* Steps of others: rows keep their vault, text and key, or are gone.        *)
LEMMA OthersTrack ==
  ASSUME TrackInv, LifeInv',
         \A t \in Savers : save'[t] = save[t] \/ save'[t] = NoSave,
         \A s \in Secrets :
            \/ item'[s] = item[s]
            \/ item'[s] = NoRow("purged")
            \/ Kept(s) /\ \E state \in {"live", "trashed"} :
                              item'[s] = [item[s] EXCEPT !.state = state]
  PROVE  TrackInv'
<1>1. \A s \in Secrets : Kept(s)' =>
         /\ Kept(s)
         /\ item'[s].at = item[s].at /\ item'[s].under = item[s].under
         /\ item'[s].title = item[s].title /\ item'[s].value = item[s].value
  <2>1. TAKE s \in Secrets
  <2>2. item[s] \in Item
    BY DEF TrackInv, LifeInv, TypeOK
  <2>3. CASE item'[s] = item[s]
    BY <2>3 DEF Kept
  <2>4. CASE item'[s] = NoRow("purged")
    BY <2>4 DEF Kept, NoRow
  <2>5. ASSUME NEW state \in {"live", "trashed"}, Kept(s),
               item'[s] = [item[s] EXCEPT !.state = state]
        PROVE  /\ Kept(s)
               /\ item'[s].at = item[s].at /\ item'[s].under = item[s].under
               /\ item'[s].title = item[s].title /\ item'[s].value = item[s].value
    BY <2>2, <2>5 DEF Item
  <2>6. QED
    BY <2>3, <2>4, <2>5
<1>2. \A s \in Secrets : Kept(s)' => Readable(s)'
  BY <1>1 DEF TrackInv, Readable
<1>3. ASSUME NEW t \in Savers, save'[t].mode = "edit",
             save'[t].stage \in Searching \union Moving \union Updating \union {"open"}
      PROVE  Tracks(t)'
  <2>1. save'[t] = save[t]
    BY <1>3 DEF NoSave
  <2>2. Tracks(t) /\ save[t].secret \in Secrets
    BY <1>3, <2>1 DEF TrackInv, LifeInv, Sane
  <2>3. QED
    BY <1>1, <2>1, <2>2 DEF Tracks
<1>4. QED
  BY <1>2, <1>3 DEF TrackInv

(* Steps of the save, the only one.                                          *)
LEMMA SaveTracks ==
  ASSUME OneSaver, TrackInv, LifeInv', NEW t \in Savers, SaveStep(t)
  PROVE  TrackInv'
<1> USE VaultsAssumption
<1> DEFINE s == save[t].secret
<1>1. /\ save \in [Savers -> SaveState] /\ save[t] \in SaveState /\ Sane(save[t])
      /\ item \in [Secrets -> Item]
      /\ \A u \in Secrets : Kept(u) => Readable(u)
      /\ \A u \in Savers : u = t
  BY DEF TrackInv, LifeInv, TypeOK, OneSaver
<1>2. save[t].stage \in Searching \union Moving \union Updating \union {"open"}
        /\ save[t].mode = "edit" => Tracks(t) /\ s \in Secrets
  BY <1>1 DEF TrackInv, Sane
<1> DEFINE Goal == /\ \A u \in Secrets : Kept(u)' => Readable(u)'
                   /\ save'[t].mode = "edit"
                        /\ save'[t].stage \in Searching \union Moving \union Updating \union {"open"}
                        => Tracks(t)'
<1>3. SUFFICES Goal
  <2>1. ASSUME Goal, NEW u \in Savers,
               save'[u].stage \in Searching \union Moving \union Updating \union {"open"},
               save'[u].mode = "edit"
        PROVE  Tracks(u)'
    <3>1. u = t
      BY <1>1
    <3>2. QED
      BY <2>1, <3>1 DEF Tracks
  <2>2. QED
    BY <2>1 DEF TrackInv
<1>4. CASE BeginCreate(t) \/ BeginImport(t) \/ EndSave(t)
  <2>1. item' = item
    BY <1>4 DEF BeginCreate, BeginImport, EndSave
  <2>2. save'[t].mode # "edit"
    <3>1. CASE EndSave(t)
      BY <1>1, <3>1 DEF EndSave, NoSave
    <3>2. CASE BeginCreate(t) \/ BeginImport(t)
      <4>1. PICK target \in Vaults, draft \in Texts, mode \in {"create", "import"} :
                 save' = [save EXCEPT ![t] = [NoSave EXCEPT
                            !.stage = "open", !.mode = mode, !.target = target, !.draft = draft]]
        BY <3>2 DEF BeginCreate, BeginImport, Accessible
      <4>2. QED
        BY <1>1, <4>1 DEF NoSave
    <3>3. QED
      BY <1>4, <3>1, <3>2
  <2>3. QED
    BY <1>1, <2>1, <2>2 DEF Kept, Readable
<1>5. ASSUME NEW u \in Secrets, BeginEdit(t, u)
      PROVE  /\ save'[t].stage = "list" /\ item' = item
  BY <1>1, <1>5 DEF BeginEdit, NoSave
<1>6. CASE ListVaults(t)
  BY <1>1, <1>6 DEF ListVaults, Tracks, Kept, Readable, Moving, Updating, SaveState
<1>7. CASE LookInVault(t)
  <2>1. PICK v \in save[t].todo :
             IF Live(s) /\ item[s].at = v
             THEN Found(t, v) ELSE save' = [save EXCEPT ![t].todo = @ \ {v}]
    BY <1>7 DEF LookInVault
  <2>2. item' = item /\ save[t].stage = "look"
    BY <1>7 DEF LookInVault
  <2>3. CASE Live(s) /\ item[s].at = v
    <3> DEFINE target == IF save[t].target = None THEN v ELSE save[t].target
    <3>1. /\ save'[t].stage = IF target = v THEN "open" ELSE "keys"
          /\ save'[t].source = v /\ save'[t].target = target /\ save'[t].secret = s
      BY <1>1, <2>1, <2>3 DEF Found, SaveState
    <3>2. QED
      BY <1>1, <2>2, <2>3, <3>1 DEF Tracks, Kept, Readable, Moving, Updating
  <2>4. CASE ~(Live(s) /\ item[s].at = v)
    <3>1. save'[t].stage = "look" /\ save'[t].secret = s
      BY <1>1, <2>1, <2>2, <2>4 DEF SaveState
    <3>2. QED
      BY <1>1, <2>2, <3>1 DEF Tracks, Kept, Readable, Moving, Updating
  <2>5. QED
    BY <2>3, <2>4
<1>8. CASE OpenVaults(t)
  <2>1. /\ save'[t].stage = "read" /\ save'[t].source = save[t].source /\ save'[t].secret = s
        /\ item' = item /\ save[t].stage = "keys"
    BY <1>1, <1>8 DEF OpenVaults, Goes, SaveState
  <2>2. save[t].mode = "edit" /\ Tracks(t)
    BY <1>1, <1>2, <2>1 DEF Sane, Moving
  <2>3. QED
    BY <1>1, <2>1, <2>2 DEF Tracks, Kept, Readable, Moving, Updating
<1>9. CASE ReadMoved(t)
  <2>1. /\ item' = item /\ save[t].stage = "read" /\ Live(s)
        /\ save'[t].secret = s /\ save'[t].source = save[t].source
        /\ save'[t].target = save[t].target
        /\ \/ item[s].at = save[t].target /\ save'[t].stage = "open"
           \/ save'[t].stage = "place" /\ save'[t].read = item[s].value
    BY <1>1, <1>9 DEF ReadMoved, Goes, SaveState
  <2>2. save[t].mode = "edit" /\ Tracks(t)
    BY <1>1, <1>2, <2>1 DEF Sane, Moving
  <2>3. QED
    BY <1>1, <2>1, <2>2 DEF Tracks, Kept, Readable, Live, Moving, Updating
<1>10. CASE PlaceMoved(t)
  <2>1. /\ save'[t].stage = "open" /\ save'[t].secret = s /\ save'[t].target = save[t].target
        /\ save[t].stage = "place" /\ s \in Secrets
    BY <1>1, <1>10 DEF PlaceMoved, Goes, SaveState, Sane, Moving
  <2>2. /\ item'[s].at = save[t].target /\ item'[s].under = save[t].target
        /\ \A u \in Secrets \ {s} : item'[u] = item[u]
    BY <1>1, <1>10, <2>1 DEF PlaceMoved, Item
  <2>3. QED
    BY <1>1, <2>1, <2>2 DEF Tracks, Kept, Readable, Moving, Updating
<1>11. CASE OpenTarget(t)
  <2>1. /\ item' = item /\ save[t].stage = "open" /\ save'[t].mode = save[t].mode
        /\ save'[t].secret = s /\ save'[t].target = save[t].target
        /\ save'[t].stage = IF save[t].mode = "edit" THEN "metadata" ELSE "insert"
    BY <1>1, <1>11 DEF OpenTarget, Goes, SaveState
  <2>2. QED
    BY <1>1, <1>2, <2>1 DEF Tracks, Kept, Readable, Moving, Updating
<1>12. CASE SaveMetadata(t)
  <2>1. /\ save[t].stage = "metadata" /\ save[t].mode = "edit" /\ s \in Secrets /\ Tracks(t)
        /\ Live(s)
    BY <1>1, <1>2, <1>12 DEF SaveMetadata, Sane, Updating
  <2>2. /\ save'[t].secret = s /\ save'[t].target = save[t].target
        /\ save'[t].draft = save[t].draft
        /\ save'[t].stage \in {"value", "saved"}
    BY <1>1, <1>12 DEF SaveMetadata, Goes, SaveState
  <2>3. /\ item'[s].title = save[t].draft /\ item'[s].at = item[s].at
        /\ item'[s].under = item[s].under
        /\ \A u \in Secrets \ {s} : item'[u] = item[u]
    BY <1>1, <1>12, <2>1 DEF SaveMetadata, Item
  <2>4. QED
    BY <1>1, <2>1, <2>2, <2>3 DEF Tracks, Kept, Readable, Live, Moving, Updating
<1>13. CASE SaveValue(t)
  <2>1. /\ save[t].stage = "value" /\ save[t].mode = "edit" /\ s \in Secrets /\ Tracks(t)
        /\ Live(s)
    BY <1>1, <1>2, <1>13 DEF SaveValue, Sane, Updating
  <2>2. save'[t].stage = "saved"
    BY <1>1, <1>13 DEF SaveValue, Goes, SaveState
  <2>3. /\ item'[s].under = save[t].target /\ item'[s].at = item[s].at
        /\ \A u \in Secrets \ {s} : item'[u] = item[u]
    BY <1>1, <1>13, <2>1 DEF SaveValue, Item
  <2>4. item[s].at = save[t].target
    BY <2>1 DEF Tracks, Kept, Live, Updating
  <2>5. QED
    BY <1>1, <2>2, <2>3, <2>4 DEF Kept, Readable, Searching, Moving, Updating
<1>14. ASSUME NEW u \in Secrets, InsertSecret(t, u)
       PROVE  /\ \A x \in Secrets : Kept(x)' => Readable(x)'
              /\ save'[t].stage \in {"insert", "saved"}
  BY <1>1, <1>14 DEF InsertSecret, Row, Kept, Readable, SaveState
<1>15. ASSUME NEW u \in Secrets, BeginEdit(t, u)
       PROVE  Goal
  BY <1>1, <1>5, <1>15 DEF Tracks, Kept, Readable, Moving, Updating
<1>16. ASSUME NEW u \in Secrets, InsertSecret(t, u)
       PROVE  Goal
  BY <1>14, <1>16 DEF Searching, Moving, Updating
<1>17. QED
  BY <1>3, <1>4, <1>6, <1>7, <1>8, <1>9, <1>10, <1>11, <1>12, <1>13, <1>15, <1>16 DEF SaveStep

(* A consistent database with no save running meets the tracking invariant.  *)
LEMMA InitTracks == Init => TrackInv
<1> SUFFICES ASSUME Init PROVE TrackInv
  OBVIOUS
<1>1. \A s \in Secrets : Kept(s) => Readable(s)
  BY DEF Init, Row, NoRow, Kept, Readable
<1>2. \A t \in Savers : save[t].mode # "edit"
  BY DEF Init, NoSave
<1>3. QED
  BY <1>1, <1>2, InitLife DEF TrackInv

(* With at most one save every step keeps what the save read of its secret.  *)
LEMMA NextTracks ==
  ASSUME OneSaver PROVE TrackInv /\ [Next]_vars => TrackInv'
<1> SUFFICES ASSUME TrackInv, [Next]_vars PROVE TrackInv'
  OBVIOUS
<1>1. LifeInv /\ LifeInv'
  BY NextLife DEF TrackInv
<1>2. ASSUME NEW t \in Savers, SaveStep(t) PROVE TrackInv'
  BY <1>1, <1>2, SaveTracks
<1>3. CASE TrashStep
  <2>1. save' = save
    BY <1>3 DEF TrashStep, SoftDelete, Restore, Purge, DeleteVault, RefreshTrash
  <2>2. \A s \in Secrets :
            \/ item'[s] = item[s]
            \/ item'[s] = NoRow("purged")
            \/ Kept(s) /\ \E state \in {"live", "trashed"} :
                              item'[s] = [item[s] EXCEPT !.state = state]
    BY <1>1, <1>3, TrashTouches DEF Kept
  <2>3. QED
    BY <1>1, <2>1, <2>2, OthersTrack
<1>4. ASSUME NEW e \in Emptiers, EmptyStep(e) PROVE TrackInv'
  <2>1. save' = save
    BY <1>4 DEF EmptyStep, ResolveVault, OpenAsOwner, EmptyVault, EndEmpty
  <2>2. \A s \in Secrets : item'[s] = item[s] \/ item'[s] = NoRow("purged")
    BY <1>1, <1>4, EmptyTouches
  <2>3. QED
    BY <1>1, <2>1, <2>2, OthersTrack
<1>5. CASE Restart \/ UNCHANGED vars
  BY <1>1, <1>5, OthersTrack DEF Restart, vars
<1>6. QED
  BY <1>2, <1>3, <1>4, <1>5 DEF Next

(* With one save at a time the blob of every kept secret is encrypted under  *)
(* the key of its vault, through moves, trash, restores and stops anywhere.  *)
THEOREM ReadableOneAtATime ==
  ASSUME OneSaver PROVE Spec => []ReadableByVaultKey
<1>1. TrackInv => ReadableByVaultKey
  BY DEF TrackInv, ReadableByVaultKey
<1>2. QED
  BY <1>1, InitTracks, NextTracks, PTL DEF Spec

(* A save reported as done is stored, whatever the trash did meanwhile.      *)
THEOREM SavedOneAtATime ==
  ASSUME OneSaver PROVE Spec => SavedIsStored
<1> DEFINE Stored(t) ==
      LET made == item'[save'[t].secret]
      IN /\ made.state = "live" /\ made.at = save[t].target /\ made.under = made.at
         /\ made.title = save[t].draft
         /\ save[t].changed => made.value = save[t].draft
<1>1. ASSUME TrackInv, [Next]_vars, NEW t \in Savers,
             save[t].stage # "saved", save'[t].stage = "saved"
      PROVE  Stored(t)
  <2>1. /\ save \in [Savers -> SaveState] /\ save[t] \in SaveState /\ Sane(save[t])
        /\ item \in [Secrets -> Item] /\ \A s \in Secrets : Kept(s) => Readable(s)
    BY <1>1 DEF TrackInv, LifeInv, TypeOK
  <2>2. save[t].mode = "edit" /\ save[t].stage \in Updating =>
           Tracks(t) /\ save[t].secret \in Secrets
    BY <1>1, <2>1 DEF TrackInv, Sane
  <2>3. NoSave.stage = "idle"
    BY DEF NoSave
  <2>4. ASSUME NEW u \in Savers, SaveStep(u) PROVE u = t /\ SaveStep(t)
    BY <2>4 DEF OneSaver
  <2>5. CASE SaveMetadata(t)
    <3> DEFINE s == save[t].secret
    <3>1. s \in Secrets /\ Live(s) /\ Tracks(t) /\ save[t].stage = "metadata" /\ ~save[t].changed
      BY <1>1, <2>1, <2>2, <2>5 DEF SaveMetadata, Sane, Updating, Goes
    <3>2. /\ item'[s].title = save[t].draft /\ item'[s].at = item[s].at
          /\ item'[s].under = item[s].under /\ item'[s].state = "live"
          /\ save'[t].secret = s
      BY <2>1, <2>5, <3>1 DEF SaveMetadata, Item, Live, Goes, SaveState
    <3>3. item[s].at = save[t].target /\ item[s].under = item[s].at
      BY <2>1, <3>1 DEF Tracks, Kept, Live, Updating, Readable
    <3>4. QED
      BY <3>1, <3>2, <3>3
  <2>6. CASE SaveValue(t)
    <3> DEFINE s == save[t].secret
    <3>1. s \in Secrets /\ Live(s) /\ Tracks(t) /\ save[t].stage = "value"
      BY <1>1, <2>1, <2>2, <2>6 DEF SaveValue, Sane, Updating
    <3>2. /\ item'[s].title = item[s].title /\ item'[s].at = item[s].at
          /\ item'[s].under = save[t].target /\ item'[s].state = "live"
          /\ item'[s].value = save[t].draft /\ save'[t].secret = s
      BY <2>1, <2>6, <3>1 DEF SaveValue, Item, Live, Goes, SaveState
    <3>3. item[s].at = save[t].target /\ item[s].title = save[t].draft
      BY <3>1 DEF Tracks, Kept, Live, Updating
    <3>4. QED
      BY <3>2, <3>3
  <2>7. ASSUME NEW s \in Secrets, InsertSecret(t, s) PROVE Stored(t)
    <3>1. /\ item'[s] = Row("live", save[t].target, save[t].draft, save[t].draft)
          /\ save'[t].secret = s
      BY <2>1, <2>7 DEF InsertSecret, SaveState
    <3>2. QED
      BY <3>1 DEF Row
  <2>8. CASE \/ BeginCreate(t) \/ BeginImport(t) \/ ListVaults(t) \/ LookInVault(t)
             \/ OpenVaults(t) \/ ReadMoved(t) \/ PlaceMoved(t) \/ OpenTarget(t) \/ EndSave(t)
             \/ \E s \in Secrets : BeginEdit(t, s)
    <3>1. save'[t].stage # "saved"
      <4>1. CASE BeginCreate(t) \/ BeginImport(t) \/ EndSave(t) \/ \E s \in Secrets : BeginEdit(t, s)
        <5>1. CASE BeginCreate(t) \/ BeginImport(t)
          BY <2>1, <5>1 DEF BeginCreate, BeginImport, NoSave
        <5>2. ASSUME NEW s \in Secrets, BeginEdit(t, s) PROVE save'[t].stage # "saved"
          BY <2>1, <5>2 DEF BeginEdit, NoSave
        <5>3. CASE EndSave(t)
          BY <2>1, <5>3 DEF EndSave, NoSave
        <5>4. QED
          BY <4>1, <5>1, <5>2, <5>3
      <4>2. CASE LookInVault(t)
        BY <1>1, <2>1, <4>2 DEF LookInVault, Found, SaveState
      <4>3. CASE ListVaults(t) \/ OpenVaults(t) \/ ReadMoved(t) \/ PlaceMoved(t) \/ OpenTarget(t)
        BY <2>1, <4>3 DEF ListVaults, OpenVaults, ReadMoved, PlaceMoved, OpenTarget, Goes, SaveState
      <4>4. QED
        BY <2>8, <4>1, <4>2, <4>3
    <3>2. QED
      BY <1>1, <3>1
  <2>9. CASE TrashStep \/ UNCHANGED vars \/ \E e \in Emptiers : EmptyStep(e)
    <3>1. save' = save
      BY <2>9 DEF vars, TrashStep, SoftDelete, Restore, Purge, DeleteVault, RefreshTrash,
                  EmptyStep, ResolveVault, OpenAsOwner, EmptyVault, EndEmpty
    <3>2. QED
      BY <1>1, <3>1
  <2>10. CASE Restart
    BY <1>1, <2>3, <2>10 DEF Restart
  <2>11. QED
    BY <1>1, <2>4, <2>5, <2>6, <2>7, <2>8, <2>9, <2>10 DEF Next, SaveStep
<1>2. TrackInv /\ [Next]_vars =>
        [\A t \in Savers : save[t].stage # "saved" /\ save'[t].stage = "saved" => Stored(t)]_vars
  BY <1>1
<1>3. QED
  BY <1>2, InitTracks, NextTracks, PTL DEF Spec, SavedIsStored

(* What one move writes is what the row holds.                               *)
LEMMA PlaceKeepsText ==
  ASSUME OneSaver, TrackInv, NEW t \in Savers, PlaceMoved(t), NEW s \in Secrets
  PROVE  /\ item'[s].value = item[s].value /\ item'[s].title = item[s].title
         /\ item'[s].state = item[s].state
         /\ Readable(s) => Readable(s)'
<1>1. /\ save[t] \in SaveState /\ Sane(save[t]) /\ item \in [Secrets -> Item]
      /\ save[t].stage = "place" /\ Live(save[t].secret)
  BY DEF TrackInv, LifeInv, TypeOK, PlaceMoved
<1>2. save[t].secret \in Secrets /\ Tracks(t)
  BY <1>1 DEF TrackInv, Sane, Moving
<1>3. save[t].read = item[save[t].secret].value
  BY <1>1, <1>2 DEF Tracks, Kept, Live
<1>4. QED
  BY ZenonT(120), <1>1, <1>2, <1>3 DEF PlaceMoved, Item, Readable

(* Moving a secret changes nothing of what it says.                          *)
THEOREM MovesOneAtATime ==
  ASSUME OneSaver PROVE Spec => MoveKeepsText
<1>1. ASSUME TrackInv, [Next]_vars, NEW s \in Secrets,
             Kept(s), item'[s].at \notin {item[s].at, None}
      PROVE  /\ item'[s].value = item[s].value /\ item'[s].title = item[s].title
             /\ item'[s].state = item[s].state
  <2>1. LifeInv /\ item \in [Secrets -> Item] /\ item[s] \in Item /\ item[s].state # "absent"
    BY <1>1 DEF TrackInv, LifeInv, TypeOK, Kept
  <2>2. NoRow("purged").at = None
    BY DEF NoRow
  <2>3. ASSUME NEW t \in Savers, SaveStep(t) PROVE PlaceMoved(t)
    <3>1. ASSUME SaveMetadata(t) \/ SaveValue(t) PROVE FALSE
      <4>1. item'[s].at = item[s].at
        BY <2>1, <3>1 DEF SaveMetadata, SaveValue, Item
      <4>2. QED
        BY <1>1, <4>1
    <3>2. ASSUME NEW u \in Secrets, InsertSecret(t, u) PROVE FALSE
      <4>1. item'[s] = item[s]
        BY <2>1, <3>2 DEF InsertSecret
      <4>2. QED
        BY <1>1, <4>1
    <3>3. item' # item
      BY <1>1
    <3>4. QED
      BY <2>3, <3>1, <3>2, <3>3
         DEF SaveStep, BeginCreate, BeginImport, ListVaults, LookInVault, OpenVaults, ReadMoved,
             OpenTarget, EndSave, BeginEdit
  <2>4. ASSUME TrashStep PROVE FALSE
    BY ZenonT(120), <1>1, <2>1, <2>2, <2>4, TrashTouches DEF Item
  <2>5. ASSUME NEW e \in Emptiers, EmptyStep(e) PROVE FALSE
    BY <1>1, <2>1, <2>2, <2>5, EmptyTouches
  <2>6. CASE Restart \/ UNCHANGED vars
    BY <1>1, <2>6 DEF Restart, vars
  <2>7. QED
    BY <1>1, <2>3, <2>4, <2>5, <2>6, PlaceKeepsText DEF Next
<1>2. TrackInv /\ [Next]_vars =>
        [\A s \in Secrets :
           Kept(s) /\ item'[s].at \notin {item[s].at, None} =>
             /\ item'[s].value = item[s].value /\ item'[s].title = item[s].title
             /\ item'[s].state = item[s].state]_vars
  BY <1>1
<1>3. QED
  BY <1>2, InitTracks, NextTracks, PTL DEF Spec, MoveKeepsText

-----------------------------------------------------------------------------
(* The rows implement the promise.                                           *)

(* What a secret says to whoever can open its vault.                         *)
Says(s) == IF Readable(s) THEN item[s].value ELSE None

(* A step that keeps what every secret says and its place in life.           *)
LEMMA SaysTheSame ==
  ASSUME \A s \in Secrets : item'[s].state = item[s].state /\ Says(s)' = Says(s)
  PROVE  [Promise!Next]_(Promise!promise)
BY DEF Promise!promise, Says

(* A save that writes what a secret says.                                    *)
LEMMA SaysNew ==
  ASSUME NEW s \in Secrets, item[s].state \in {"absent", "live"}, item'[s].state = "live",
         Says(s)' \in Texts,
         \A u \in Secrets \ {s} : item'[u] = item[u]
  PROVE  Promise!Next
<1>1. \A u \in Secrets \ {s} : Says(u)' = Says(u)
  BY DEF Says, Readable
<1>2. Promise!Save(s)
  BY <1>1 DEF Promise!Save, Says
<1>3. QED
  BY <1>2 DEF Promise!Next

(* Secrets that go to the trash or come back.                                *)
LEMMA SaysElsewhere ==
  ASSUME item \in [Secrets -> Item], NEW S \in SUBSET Secrets, NEW from, NEW to,
         <<from, to>> \in {<<"live", "trashed">>, <<"trashed", "live">>},
         \A s \in S : item[s].state = from /\ item'[s] = [item[s] EXCEPT !.state = to],
         \A s \in Secrets \ S : item'[s] = item[s]
  PROVE  Promise!Next
<1>1. \A s \in Secrets : Says(s)' = Says(s)
  <2>1. TAKE s \in Secrets
  <2>2. item[s] \in Item
    OBVIOUS
  <2>3. CASE s \in S
    <3>1. item'[s] = [item[s] EXCEPT !.state = to]
      BY <2>3
    <3>2. item'[s].at = item[s].at /\ item'[s].under = item[s].under /\ item'[s].value = item[s].value
      BY <2>2, <3>1 DEF Item
    <3>3. QED
      BY <3>2 DEF Says, Readable
  <2>4. CASE s \notin S
    BY <2>4 DEF Says, Readable
  <2>5. QED
    BY <2>3, <2>4
<1>2. \A s \in S : item'[s].state = to
  BY DEF Item
<1>3. Promise!Advance(S, from, to)
  BY <1>2 DEF Promise!Advance
<1>4. UNCHANGED [s \in Secrets |-> Says(s)]
  BY <1>1
<1>5. Promise!Trash(S) \/ Promise!Restore(S)
  BY <1>3, <1>4 DEF Promise!Trash, Promise!Restore, Says
<1>6. QED
  BY <1>5 DEF Promise!Next

(* Secrets that are destroyed.                                               *)
LEMMA SaysNothing ==
  ASSUME NEW S \in SUBSET Secrets,
         \A s \in S : item[s].state = "trashed" /\ item'[s] = NoRow("purged"),
         \A s \in Secrets \ S : item'[s] = item[s]
  PROVE  Promise!Next
<1>1. \A s \in S : item'[s].state = "purged" /\ Says(s)' = None
  BY DEF NoRow, Says, Readable
<1>2. \A s \in Secrets \ S : Says(s)' = Says(s)
  BY DEF Says, Readable
<1>3. Promise!Advance(S, "trashed", "purged")
  BY <1>1 DEF Promise!Advance
<1>4. Promise!Purge(S)
  BY <1>1, <1>2, <1>3 DEF Promise!Purge, Says
<1>5. QED
  BY <1>4 DEF Promise!Next

(* A step of the only save changes what one live or new secret says, or      *)
(* nothing.                                                                  *)
LEMMA SaveImplements ==
  ASSUME OneSaver, TrackInv, NEW t \in Savers, SaveStep(t)
  PROVE  [Promise!Next]_(Promise!promise)
<1>1. /\ save[t] \in SaveState /\ Sane(save[t]) /\ item \in [Secrets -> Item]
      /\ \A u \in Secrets : Kept(u) => Readable(u)
  BY DEF TrackInv, LifeInv, TypeOK
<1>2. CASE PlaceMoved(t)
  <2>1. \A u \in Secrets : Readable(u) /\ Readable(u)'
    <3>1. \A u \in Secrets : ~Kept(u) => Readable(u)
      BY <1>1 DEF TrackInv, LifeInv, Whole, Kept, NoRow, Readable
    <3>2. QED
      BY <1>1, <1>2, <3>1, PlaceKeepsText
  <2>2. \A u \in Secrets : item'[u].state = item[u].state /\ Says(u)' = Says(u)
    BY <1>2, <2>1, PlaceKeepsText DEF Says
  <2>3. QED
    BY <2>2, SaysTheSame
<1>3. CASE SaveMetadata(t)
  <2>1. \A u \in Secrets : /\ item'[u].state = item[u].state /\ item'[u].at = item[u].at
                            /\ item'[u].under = item[u].under /\ item'[u].value = item[u].value
    BY <1>1, <1>3 DEF SaveMetadata, Item
  <2>2. QED
    BY <2>1, SaysTheSame DEF Says, Readable
<1>4. CASE SaveValue(t)
  <2>1. PICK u \in Secrets : u = save[t].secret
    BY <1>1, <1>4 DEF SaveValue, Sane, Updating
  <2>2. Live(u) /\ Tracks(t) /\ save[t].stage = "value" /\ save[t].draft \in Texts
    BY <1>1, <1>4, <2>1 DEF SaveValue, Sane, Updating, TrackInv
  <2>3. item[u].at = save[t].target
    BY <2>1, <2>2 DEF Tracks, Kept, Live, Updating
  <2>4. /\ item'[u].state = "live" /\ item'[u].at = item[u].at
        /\ item'[u].under = save[t].target /\ item'[u].value = save[t].draft
        /\ \A x \in Secrets \ {u} : item'[x] = item[x]
    BY <1>1, <1>4, <2>1, <2>2 DEF SaveValue, Item, Live
  <2>5. Says(u)' \in Texts
    BY <2>2, <2>3, <2>4 DEF Says, Readable
  <2>6. QED
    BY <2>2, <2>4, <2>5, SaysNew DEF Live
<1>5. ASSUME NEW u \in Secrets, InsertSecret(t, u)
      PROVE  Promise!Next
  <2>1. /\ item'[u] = Row("live", save[t].target, save[t].draft, save[t].draft)
        /\ \A x \in Secrets \ {u} : item'[x] = item[x]
        /\ item[u].state = "absent" /\ save[t].draft \in Texts
    BY <1>1, <1>5 DEF InsertSecret, Sane
  <2>2. item'[u].state = "live" /\ Says(u)' \in Texts
    BY <2>1 DEF Row, Says, Readable
  <2>3. QED
    BY <2>1, <2>2, SaysNew
<1>6. CASE item' = item
  BY <1>6, SaysTheSame DEF Says, Readable
<1>7. QED
  BY <1>2, <1>3, <1>4, <1>5, <1>6
     DEF SaveStep, BeginCreate, BeginImport, ListVaults, LookInVault, OpenVaults, ReadMoved,
         OpenTarget, EndSave, BeginEdit

(* Every step of the program is a step of the promise or none.               *)
LEMMA NextImplements ==
  ASSUME OneSaver, TrackInv, [Next]_vars
  PROVE  [Promise!Next]_(Promise!promise)
<1>1. item \in [Secrets -> Item] /\ LifeInv
  BY DEF TrackInv, LifeInv, TypeOK
<1>2. ASSUME NEW t \in Savers, SaveStep(t) PROVE [Promise!Next]_(Promise!promise)
  BY <1>2, SaveImplements
<1>3. ASSUME NEW s \in Secrets, SoftDelete(s) PROVE Promise!Next
  <2>1. item' = [item EXCEPT ![s] = [item[s] EXCEPT !.state = "trashed"]] /\ item[s].state = "live"
    BY <1>3 DEF SoftDelete, Live
  <2>2. /\ item'[s] = [item[s] EXCEPT !.state = "trashed"]
        /\ \A u \in Secrets \ {s} : item'[u] = item[u]
    BY <1>1, <2>1
  <2> DEFINE S == {s}
  <2>3. /\ \A u \in S : item[u].state = "live" /\ item'[u] = [item[u] EXCEPT !.state = "trashed"]
        /\ \A u \in Secrets \ S : item'[u] = item[u]
        /\ S \in SUBSET Secrets
    BY <2>1, <2>2
  <2> HIDE DEF S
  <2>4. QED
    BY <1>1, <2>3, SaysElsewhere
<1>4. ASSUME NEW s \in Secrets, NEW v \in Vaults, Restore(s, v) PROVE Promise!Next
  <2>1. item' = [item EXCEPT ![s] = [item[s] EXCEPT !.state = "live"]] /\ item[s].state = "trashed"
    BY <1>4 DEF Restore, InTrash
  <2>2. /\ item'[s] = [item[s] EXCEPT !.state = "live"]
        /\ \A u \in Secrets \ {s} : item'[u] = item[u]
    BY <1>1, <2>1
  <2> DEFINE S == {s}
  <2>3. /\ \A u \in S : item[u].state = "trashed" /\ item'[u] = [item[u] EXCEPT !.state = "live"]
        /\ \A u \in Secrets \ S : item'[u] = item[u]
        /\ S \in SUBSET Secrets
    BY <2>1, <2>2
  <2> HIDE DEF S
  <2>4. QED
    BY SMTT(60), <1>1, <2>3, SaysElsewhere
<1>5. ASSUME NEW s \in Secrets, NEW v \in Vaults, Purge(s, v) PROVE Promise!Next
  <2>1. /\ item[s].state = "trashed" /\ item'[s] = NoRow("purged")
        /\ \A u \in Secrets \ {s} : item'[u] = item[u]
    BY <1>1, <1>5 DEF Purge, InTrash
  <2> DEFINE S == {s}
  <2>2. /\ \A u \in S : item[u].state = "trashed" /\ item'[u] = NoRow("purged")
        /\ \A u \in Secrets \ S : item'[u] = item[u]
        /\ S \in SUBSET Secrets
    BY <2>1
  <2> HIDE DEF S
  <2>3. QED
    BY <2>2, SaysNothing
<1>6. ASSUME NEW v \in Vaults, DeleteVault(v) PROVE Promise!Next
  <2> DEFINE S == {s \in Secrets : item[s].state = "live" /\ item[s].at = v}
  <2>1. /\ \A s \in S : item[s].state = "live" /\ item'[s] = [item[s] EXCEPT !.state = "trashed"]
        /\ \A s \in Secrets \ S : item'[s] = item[s]
    BY <1>6 DEF DeleteVault, Live
  <2>2. S \in SUBSET Secrets
    OBVIOUS
  <2> HIDE DEF S
  <2>3. QED
    BY <1>1, <2>1, <2>2, SaysElsewhere
<1>7. ASSUME NEW e \in Emptiers, EmptyVault(e) PROVE Promise!Next
  <2> DEFINE S == {s \in Secrets : InTrash(s, empty[e].vault)}
  <2>1. /\ \A s \in S : item[s].state = "trashed" /\ item'[s] = NoRow("purged")
        /\ \A s \in Secrets \ S : item'[s] = item[s]
    BY <1>7 DEF EmptyVault, InTrash
  <2>2. S \in SUBSET Secrets
    OBVIOUS
  <2> HIDE DEF S
  <2>3. QED
    BY <2>1, <2>2, SaysNothing
<1>8. CASE item' = item
  BY <1>8, SaysTheSame DEF Says, Readable
<1>9. CASE RefreshTrash \/ Restart \/ UNCHANGED vars
           \/ \E e \in Emptiers : ResolveVault(e) \/ OpenAsOwner(e) \/ EndEmpty(e)
  BY <1>8, <1>9 DEF RefreshTrash, Restart, vars, ResolveVault, OpenAsOwner, EndEmpty
<1>10. QED
  BY <1>2, <1>3, <1>4, <1>5, <1>6, <1>7, <1>9 DEF Next, TrashStep, EmptyStep

(* With one save at a time the rows keep the promise of SecretPromise.       *)
THEOREM PromiseOneAtATime ==
  ASSUME OneSaver PROVE Spec => SecretsKept
<1>1. Init => Promise!Init
  <2> SUFFICES ASSUME Init PROVE Promise!Init
    OBVIOUS
  <2>1. \A s \in Secrets : item[s].state \in {"absent", "live", "trashed", "purged"}
    BY InitLife DEF LifeInv, TypeOK, Item
  <2>2. \A s \in Secrets : Says(s) \in Texts \union {None}
    BY InitLife DEF LifeInv, TypeOK, Item, Says
  <2>3. QED
    BY <2>1, <2>2 DEF Promise!Init, Says
<1>2. TrackInv /\ [Next]_vars => [Promise!Next]_(Promise!promise)
  BY NextImplements
<1>3. QED
  BY <1>1, <1>2, InitTracks, NextTracks, PTL DEF Spec, SecretsKept, Promise!Spec

-----------------------------------------------------------------------------
(* EntryEditor: the page from which secrets are saved.                        *)

Page(f) ==
  [mode |-> f.mode, vault |-> f.vault, source |-> f.source, target |-> f.target,
   pill |-> f.pill, pills |-> f.pills, read |-> f.read, snapshot |-> f.snapshot,
   details |-> f.details, value |-> f.value, touched |-> f.touched]

\* What was read of a secret, or nothing.
Known(x) == x # Nowhere => x.at \in Places

\* What the user left alone is as it was read; before that the fields are blank.  The
\* pill that is chosen is the vault the page stands for.
PageOK(f, shown) ==
  /\ f = Page(f)
  /\ f.mode = "in" => f.vault # Nowhere
  /\ f.pill # Nowhere => f.target = f.pill
  /\ f.read = Nowhere <=> f.source = Nowhere
  /\ f.read # Nowhere =>
       /\ f.source = f.read.at
       /\ "vault" \notin f.touched => f.target = f.source
       /\ "details" \notin f.touched => f.details = f.read.details
  /\ "value" \notin f.touched => f.value = f.snapshot
  /\ ~shown => f.snapshot = Blank

\* A save carries what its page showed.
SaveOK(x) ==
  x.stage = "run" /\ x.op # "delete" =>
    /\ x.op = "in" => x.to # Nowhere /\ x.to = x.pressed.vault
    /\ x.op # "in" /\ x.pressed.pill # Nowhere => x.to = x.pressed.pill
    /\ x.op = "edit" /\ x.pressed.read # Nowhere =>
         /\ "vault" \notin x.pressed.touched => x.to # Nowhere /\ x.to = x.pressed.read.at
         /\ "details" \notin x.pressed.touched => x.details = x.pressed.read.details
         /\ "value" \notin x.pressed.touched => x.value = Blank

EditorInv ==
  /\ live \subseteq Places
  /\ Known(row)
  /\ loading.stage = "done" => Known(loading.read)
  /\ adding.stage \in {"run", "done"} => adding.vault # Nowhere
  /\ PageOK(filled, shows)
  /\ filled.read # Nowhere => filled.source # Nowhere
  /\ saves = [s \in Savings |-> saves[s]]
  /\ \A s \in Savings : SaveOK(saves[s])

LEMMA NoFormOK == PageOK(NoForm, shows) /\ NoForm.read = Nowhere
BY DEF PageOK, Page, NoForm

LEMMA LaunchOK ==
  ASSUME EditorInv, NEW mode, NEW v, mode = "in" => v # Nowhere, Launch(mode, v), UNCHANGED shows
  PROVE  /\ PageOK(filled', shows') /\ (filled'.read # Nowhere => filled'.source # Nowhere)
         /\ loading'.stage = "done" => Known(loading'.read)
<1>1. CASE open
  <2>1. filled' = [NoForm EXCEPT !.mode = mode, !.vault = v]
        /\ loading' \in {[stage |-> "run"], [stage |-> "idle"]}
    BY <1>1 DEF Launch, Quiet
  <2>2. PICK f : f = [NoForm EXCEPT !.mode = mode, !.vault = v]
    OBVIOUS
  <2>3. f = [mode |-> mode, vault |-> v, source |-> Nowhere, target |-> Nowhere,
             pill |-> Nowhere, pills |-> {}, read |-> Nowhere, snapshot |-> Blank,
             details |-> Blank, value |-> Blank, touched |-> {}]
    BY <2>2 DEF NoForm
  <2>4. PageOK(f, shows)
    BY <2>3 DEF PageOK, Page
  <2>5. filled' = f
    BY <2>1, <2>2
  <2>6. f.read = Nowhere
    BY <2>3
  <2>7. loading'.stage # "done"
    BY <2>1
  <2> QED
    BY <2>4, <2>5, <2>6, <2>7
<1>2. CASE ~open
  BY <1>2 DEF Launch, pageVars, EditorInv
<1> QED
  BY <1>1, <1>2

LEMMA LeaveOK ==
  ASSUME Leave, UNCHANGED shows
  PROVE  /\ PageOK(filled', shows') /\ filled'.read = Nowhere
         /\ loading'.stage = "done" => Known(loading'.read)
BY NoFormOK DEF Leave, Quiet

LEMMA InitEditor == EditorInit => EditorInv
<1> SUFFICES ASSUME EditorInit PROVE EditorInv
  OBVIOUS
<1>1. /\ filled = NoForm /\ adding.stage = "idle" /\ loading.stage = "idle" /\ live = Places
      /\ row.at \in Places /\ saves = [s \in Savings |-> Quiet]
  BY DEF EditorInit, Quiet
<1>2. \A s \in Savings : saves[s].stage = "idle"
  BY <1>1 DEF Quiet
<1> QED
  BY <1>1, <1>2, NoFormOK DEF EditorInv, Known, SaveOK

-----------------------------------------------------------------------------
(* Steps that fill the page. *)

LEMMA ChoicesKeep == ASSUME EditorInv, LandChoices PROVE EditorInv'
<1> DEFINE found == choices.found
           target == IF filled.source = Nowhere THEN Foremost(found) ELSE filled.target
           pill == IF \E n \in DOMAIN found : found[n] = target THEN target ELSE Nowhere
           pills == {found[n] : n \in DOMAIN found}
<1>1. filled' = [filled EXCEPT !.target = target, !.pills = pills, !.pill = pill]
  BY DEF LandChoices, Pills
<1>2. PICK t, p, z : t = target /\ p = pill /\ z = pills
  OBVIOUS
<1>3. (filled.source # Nowhere => t = filled.target) /\ (p # Nowhere => t = p)
  BY <1>2
<1>4. filled' = [filled EXCEPT !.target = t, !.pills = z, !.pill = p]
  BY <1>1, <1>2
<1> HIDE DEF target, pill, pills, found
<1>5. PageOK(filled, shows) /\ UNCHANGED shows
  BY DEF EditorInv, LandChoices
<1>6. filled' = [mode |-> filled.mode, vault |-> filled.vault, source |-> filled.source,
                 target |-> t, pill |-> p, pills |-> z, read |-> filled.read,
                 snapshot |-> filled.snapshot, details |-> filled.details,
                 value |-> filled.value, touched |-> filled.touched]
  BY <1>4, <1>5 DEF PageOK, Page
<1>7. PageOK(filled', shows)
  BY <1>3, <1>5, <1>6 DEF PageOK, Page
<1>8. filled'.read = filled.read /\ filled'.source = filled.source
  BY <1>6
<1> QED
  BY <1>5, <1>7, <1>8 DEF EditorInv, LandChoices

LEMMA SecretKeeps == ASSUME EditorInv, LandSecret PROVE EditorInv'
<1>1. CASE loading.read = Nowhere
  BY <1>1 DEF EditorInv, LandSecret, Quiet
<1>2. CASE loading.read # Nowhere
  <2>1. PICK r : r = loading.read
    OBVIOUS
  <2>2. r.at \in Places /\ r # Nowhere /\ r.at # Nowhere
    BY <1>2, <2>1, NowhereIsNothing DEF EditorInv, LandSecret, Known
  <2>3. PICK v, n, k : /\ v = (IF shows THEN r.value ELSE filled.value)
                       /\ n = (IF shows THEN r.value ELSE Blank)
                       /\ k = IF shows THEN {} ELSE filled.touched \cap {"value"}
    OBVIOUS
  <2>4. PageOK(filled, shows) /\ UNCHANGED shows
    BY DEF EditorInv, LandSecret
  <2>5. filled' = [filled EXCEPT
                !.source = r.at, !.target = r.at, !.pill = r.at, !.pills = loading.pills,
                !.read = r, !.details = r.details, !.value = v, !.snapshot = n, !.touched = k]
    BY <1>2, <2>1, <2>3 DEF LandSecret
  <2>6. filled' = [mode |-> filled.mode, vault |-> filled.vault, source |-> r.at,
                   target |-> r.at, pill |-> r.at, pills |-> loading.pills, read |-> r,
                   snapshot |-> n, details |-> r.details, value |-> v, touched |-> k]
    BY <2>4, <2>5 DEF PageOK, Page
  <2>7. /\ "value" \notin k => v = n
        /\ ~shows => n = Blank
        /\ "vault" \notin k /\ "details" \notin k
    BY <2>3, <2>4 DEF PageOK
  <2>8. PageOK(filled', shows)
    BY <2>2, <2>4, <2>6, <2>7 DEF PageOK, Page
  <2>9. filled'.source # Nowhere
    BY <2>2, <2>6
  <2> QED
    BY <2>4, <2>8, <2>9 DEF EditorInv, LandSecret, Quiet
<1> QED
  BY <1>1, <1>2

LEMMA TypeKeeps ==
  ASSUME EditorInv, NEW field \in {"details", "value"}, NEW w, Type(field, w)
  PROVE  EditorInv'
<1>1. PageOK(filled, shows) /\ UNCHANGED shows
  BY DEF EditorInv, Type
<1>2. filled' = [filled EXCEPT ![field] = w, !.touched = @ \cup {field}]
  BY DEF Type
<1>3. CASE field = "details"
  <2>1. filled' = [mode |-> filled.mode, vault |-> filled.vault, source |-> filled.source,
                   target |-> filled.target, pill |-> filled.pill, pills |-> filled.pills,
                   read |-> filled.read, snapshot |-> filled.snapshot, details |-> w,
                   value |-> filled.value, touched |-> filled.touched \cup {"details"}]
    BY <1>1, <1>2, <1>3 DEF PageOK, Page
  <2>2. PageOK(filled', shows)
    BY <1>1, <2>1 DEF PageOK, Page
  <2> QED
    BY <1>1, <2>1, <2>2 DEF EditorInv, Type
<1>4. CASE field = "value"
  <2>1. filled' = [mode |-> filled.mode, vault |-> filled.vault, source |-> filled.source,
                   target |-> filled.target, pill |-> filled.pill, pills |-> filled.pills,
                   read |-> filled.read, snapshot |-> filled.snapshot,
                   details |-> filled.details, value |-> w,
                   touched |-> filled.touched \cup {"value"}]
    BY <1>1, <1>2, <1>4 DEF PageOK, Page
  <2>2. PageOK(filled', shows)
    BY <1>1, <2>1 DEF PageOK, Page
  <2> QED
    BY <1>1, <2>1, <2>2 DEF EditorInv, Type
<1> QED
  BY <1>3, <1>4

LEMMA PillKeeps == ASSUME EditorInv, NEW v \in Places, PickPill(v) PROVE EditorInv'
<1>1. PageOK(filled, shows) /\ UNCHANGED shows
  BY DEF EditorInv, PickPill
<1>2. filled' = [mode |-> filled.mode, vault |-> filled.vault, source |-> filled.source,
                 target |-> v, pill |-> v, pills |-> filled.pills,
                 read |-> filled.read, snapshot |-> filled.snapshot,
                 details |-> filled.details, value |-> filled.value,
                 touched |-> filled.touched \cup {"vault"}]
  BY <1>1 DEF PickPill, PageOK, Page
<1>3. PageOK(filled', shows)
  BY <1>1, <1>2 DEF PageOK, Page
<1> QED
  BY <1>1, <1>2, <1>3 DEF EditorInv, PickPill

-----------------------------------------------------------------------------
(* Saves. *)

LEMMA SavesKeep ==
  ASSUME EditorInv, NEW s \in Savings, NEW x, saves' = [saves EXCEPT ![s] = x], SaveOK(x)
  PROVE  /\ saves' = [t \in Savings |-> saves'[t]]
         /\ \A t \in Savings : SaveOK(saves'[t])
<1>1. \A t \in Savings : saves'[t] = IF t = s THEN x ELSE saves[t]
  BY DEF EditorInv
<1>2. saves' = [t \in Savings |-> saves'[t]]
  BY DEF EditorInv
<1> QED
  BY <1>1, <1>2 DEF EditorInv

LEMMA PressSaveKeeps == ASSUME EditorInv, NEW s \in Savings, PressSave(s) PROVE EditorInv'
<1>1. PICK to, v : /\ to = (IF filled.mode = "in" THEN filled.vault ELSE filled.target)
                   /\ v = Sent
  OBVIOUS
<1>2. PICK p : p = [pill |-> filled.pill, vault |-> filled.vault, read |-> filled.read,
                    touched |-> filled.touched]
  OBVIOUS
<1>3. PICK x : x = [stage |-> "run", op |-> filled.mode, to |-> to, details |-> filled.details,
                    value |-> v, pressed |-> p]
  OBVIOUS
<1>4. saves' = [saves EXCEPT ![s] = x]
  BY <1>1, <1>2, <1>3 DEF PressSave
<1>5. PageOK(filled, shows) /\ (filled.read # Nowhere => filled.source # Nowhere)
  BY DEF EditorInv
<1>6. filled.mode = "edit" /\ "value" \notin filled.touched => v = Blank
  BY <1>1, <1>5 DEF PageOK, Sent
<1>7. SaveOK(x)
  BY <1>1, <1>2, <1>3, <1>5, <1>6 DEF SaveOK, PageOK
<1> QED
  BY <1>4, <1>7, SavesKeep DEF EditorInv, PressSave, pageVars

LEMMA PressDeleteKeeps == ASSUME EditorInv, NEW s \in Savings, PressDelete(s) PROVE EditorInv'
<1>1. PICK x : x = [stage |-> "run", op |-> "delete"]
  OBVIOUS
<1>2. saves' = [saves EXCEPT ![s] = x] /\ SaveOK(x)
  BY <1>1 DEF PressDelete, SaveOK
<1> QED
  BY <1>2, SavesKeep DEF EditorInv, PressDelete, pageVars

LEMMA RunKeeps == ASSUME EditorInv, NEW s \in Savings, RunSaving(s) PROVE EditorInv'
<1>1. PICK x \in {[stage |-> "saved"], [stage |-> "failed"]} : saves' = [saves EXCEPT ![s] = x]
  BY DEF RunSaving
<1>2. SaveOK(x)
  BY <1>1 DEF SaveOK
<1>3. Known(row')
  <2>1. CASE UNCHANGED row
    BY <2>1 DEF EditorInv, Known
  <2>2. CASE RunEdit(s)
    <3>1. PICK to : to \in live /\ row'.at = to
      BY <2>2 DEF RunEdit, Has
    <3> QED
      BY <3>1 DEF EditorInv, Known
  <2>3. CASE row' = Nowhere
    BY <2>3 DEF Known
  <2> QED
    BY <2>1, <2>2, <2>3 DEF RunSaving, RunCreate, RunDelete
<1> QED
  BY <1>1, <1>2, <1>3, SavesKeep DEF EditorInv, RunSaving, pageVars

LEMMA LandSavingKeeps == ASSUME EditorInv, NEW s \in Savings, LandSaving(s) PROVE EditorInv'
<1>1. saves' = [saves EXCEPT ![s] = Quiet] /\ SaveOK(Quiet)
  BY DEF LandSaving, SaveOK, Quiet
<1>2. UNCHANGED <<live, row, shows, adding>>
  BY DEF LandSaving
<1>3. CASE Leave
  BY <1>1, <1>2, <1>3, LeaveOK, SavesKeep DEF EditorInv
<1>4. CASE UNCHANGED <<filled, loading>>
  BY <1>1, <1>2, <1>4, SavesKeep DEF EditorInv
<1> QED
  BY <1>3, <1>4 DEF LandSaving

-----------------------------------------------------------------------------

LEMMA EditorStep == ASSUME EditorInv, [EditorNext]_editorVars PROVE EditorInv'
<1>1. CASE EditSecret
  BY <1>1, LaunchOK DEF EditSecret, EditorInv
<1>2. CASE PressAdd
  <2>1. CASE active = Nowhere
    BY <1>2, <2>1, LaunchOK DEF PressAdd, EditorInv
  <2>2. CASE active # Nowhere
    <3>1. adding'.vault = active
      BY <1>2, <2>2 DEF PressAdd
    <3> QED
      BY <1>2, <2>2, <3>1 DEF PressAdd, EditorInv, pageVars
  <2> QED
    BY <2>1, <2>2
<1>3. CASE CheckAccess
  <2>1. adding'.vault = adding.vault /\ adding.vault # Nowhere
    BY <1>3 DEF CheckAccess, EditorInv
  <2> QED
    BY <1>3, <2>1 DEF CheckAccess, EditorInv, pageVars
<1>4. CASE LandAdd
  <2>1. adding'.stage = "idle" /\ adding.vault # Nowhere /\ UNCHANGED <<live, row, shows, saves>>
    BY <1>4 DEF LandAdd, EditorInv, Quiet
  <2>2. CASE adding.granted
    BY <1>4, <2>1, <2>2, LaunchOK DEF LandAdd, EditorInv
  <2>3. CASE ~adding.granted
    BY <1>4, <2>1, <2>3 DEF LandAdd, EditorInv, pageVars
  <2> QED
    BY <2>2, <2>3
<1>5. CASE ListChoices
  BY <1>5 DEF ListChoices, EditorInv
<1>6. CASE LandChoices
  BY <1>6, ChoicesKeep
<1>7. CASE LoadSecret
  <2>1. PICK r \in {row, Nowhere} : loading' = [stage |-> "done", read |-> r, pills |-> live]
    BY <1>7 DEF LoadSecret
  <2>2. Known(loading'.read)
    BY <2>1 DEF EditorInv, Known
  <2> QED
    BY <1>7, <2>2 DEF LoadSecret, EditorInv
<1>8. CASE LandSecret
  BY <1>8, SecretKeeps
<1>9. CASE \E field \in {"details", "value"}, w \in Typed : Type(field, w)
  BY <1>9, TypeKeeps
<1>10. ASSUME NEW v \in Places, PickPill(v) \/ ChooseRow(v) \/ RemoveVault(v)
       PROVE  EditorInv'
  <2>1. CASE PickPill(v)
    BY <2>1, PillKeeps
  <2>2. CASE ChooseRow(v)
    BY <2>2 DEF ChooseRow, EditorInv, pageVars
  <2>3. CASE RemoveVault(v)
    BY <2>3 DEF RemoveVault, EditorInv, pageVars, Known
  <2> QED
    BY <1>10, <2>1, <2>2, <2>3
<1>11. CASE \E s \in Savings : PressSave(s) \/ PressDelete(s) \/ RunSaving(s) \/ LandSaving(s)
  BY <1>11, PressSaveKeeps, PressDeleteKeeps, RunKeeps, LandSavingKeeps
<1>12. CASE Back
  BY <1>12, LeaveOK DEF Back, EditorInv
<1>13. CASE LockOrUnlock
  BY <1>13 DEF LockOrUnlock, EditorInv, pageVars
<1>14. CASE UNCHANGED editorVars
  BY <1>14 DEF editorVars, EditorInv
<1> QED
  BY <1>1, <1>2, <1>3, <1>4, <1>5, <1>6, <1>7, <1>8, <1>9, <1>10, <1>11, <1>12, <1>13, <1>14
     DEF EditorNext

\* What a save stores is what its page showed.
Stores(s) ==
  LET sv == saves[s]
      at == IF sv.op = "edit" THEN row'.at ELSE created'
  IN  sv.stage = "run" /\ saves'[s].stage = "saved" /\ sv.op # "delete" =>
        /\ sv.op = "in" => at = sv.pressed.vault
        /\ sv.op # "in" /\ sv.pressed.pill # Nowhere => at = sv.pressed.pill
        /\ sv.op = "edit" /\ sv.pressed.read # Nowhere =>
             /\ "vault" \notin sv.pressed.touched => at = sv.pressed.read.at
             /\ "details" \notin sv.pressed.touched =>
                    row'.details = sv.pressed.read.details
             /\ "value" \notin sv.pressed.touched => row'.value = row.value

LEMMA RunStores == ASSUME EditorInv, NEW s \in Savings, RunSaving(s) PROVE Stores(s)
<1> SUFFICES ASSUME saves'[s].stage = "saved", saves[s].op # "delete"
             PROVE  Stores(s)
  BY DEF Stores
<1>1. SaveOK(saves[s]) /\ saves[s].stage = "run"
  BY DEF EditorInv, RunSaving
<1>2. RunCreate(s) \/ RunEdit(s)
  <2>1. saves' = [saves EXCEPT ![s] = [stage |-> "failed"]] => saves'[s].stage = "failed"
    BY DEF EditorInv
  <2> QED
    BY <2>1 DEF RunSaving, RunDelete
<1>3. CASE RunCreate(s)
  <2>1. /\ saves[s].op # "edit"
        /\ saves[s].to # Nowhere => created' = saves[s].to
    BY <1>3 DEF RunCreate
  <2> QED
    BY <1>1, <2>1 DEF Stores, SaveOK
<1>4. CASE RunEdit(s)
  <2>1. /\ saves[s].op = "edit"
        /\ saves[s].to # Nowhere => row'.at = saves[s].to
        /\ row'.details = saves[s].details
        /\ saves[s].value = Blank => row'.value = row.value
    BY <1>4 DEF RunEdit
  <2> QED
    BY <1>1, <2>1 DEF Stores, SaveOK
<1> QED
  BY <1>2, <1>3, <1>4

LEMMA OnlyRunsSave ==
  ASSUME EditorInv, [EditorNext]_editorVars, NEW s \in Savings,
         saves[s].stage = "run", saves'[s].stage = "saved"
  PROVE  RunSaving(s)
<1>1. saves' # saves
  OBVIOUS
<1>2. PICK q \in Savings : PressSave(q) \/ PressDelete(q) \/ RunSaving(q) \/ LandSaving(q)
  BY <1>1 DEF EditorNext, editorVars, EditSecret, PressAdd, CheckAccess, LandAdd, ListChoices,
     LandChoices, LoadSecret, LandSecret, Type, PickPill, ChooseRow, RemoveVault, Back,
     LockOrUnlock
<1>3. ASSUME NEW x, saves' = [saves EXCEPT ![q] = x]
      PROVE  \A t \in Savings : saves'[t] = IF t = q THEN x ELSE saves[t]
  BY <1>3 DEF EditorInv
<1>4. CASE PressSave(q)
  <2>1. PICK x : saves' = [saves EXCEPT ![q] = x] /\ x.stage = "run"
    BY <1>4 DEF PressSave
  <2> QED
    BY <1>3, <2>1
<1>5. CASE PressDelete(q)
  <2>1. PICK x : saves' = [saves EXCEPT ![q] = x] /\ x.stage = "run"
    BY <1>5 DEF PressDelete
  <2> QED
    BY <1>3, <2>1
<1>6. CASE RunSaving(q)
  <2>1. PICK x : saves' = [saves EXCEPT ![q] = x]
    BY <1>6 DEF RunSaving
  <2> QED
    BY <1>3, <1>6, <2>1
<1>7. CASE LandSaving(q)
  <2>1. PICK x : saves' = [saves EXCEPT ![q] = x] /\ x.stage = "idle"
    BY <1>7 DEF LandSaving, Quiet
  <2> QED
    BY <1>3, <2>1
<1> QED
  BY <1>2, <1>4, <1>5, <1>6, <1>7

LEMMA StepStores ==
  ASSUME EditorInv, [EditorNext]_editorVars
  PROVE  \A s \in Savings : Stores(s)
<1> SUFFICES ASSUME NEW s \in Savings PROVE Stores(s)
  OBVIOUS
<1>1. CASE saves[s].stage = "run" /\ saves'[s].stage = "saved"
  BY <1>1, OnlyRunsSave, RunStores
<1>2. CASE ~(saves[s].stage = "run" /\ saves'[s].stage = "saved")
  BY <1>2 DEF Stores
<1> QED
  BY <1>1, <1>2

\* However many saves are under way, and in whatever order the page is filled, a save
\* stores what its page showed when it was pressed.
THEOREM StoredAsShown == EditorSpec => SavedAsShown
<1>1. EditorInit => EditorInv
  BY InitEditor
<1>2. EditorInv /\ [EditorNext]_editorVars => EditorInv'
  BY EditorStep
<1>3. EditorInv /\ [EditorNext]_editorVars => [\A s \in Savings : Stores(s)]_editorVars
  BY StepStores
<1> QED
  BY <1>1, <1>2, <1>3, PTL DEF EditorSpec, SavedAsShown, Stores

=============================================================================
