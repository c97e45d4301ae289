----------------------------- MODULE VaultAccess -----------------------------
(***************************************************************************)
(* Who may use a vault: the view accessible_vaults, the permission check    *)
(* (access_control.rs) and the calls of the vault service, each of several  *)
(* statements of its own, while users, vaults, shares and teams change      *)
(* under them (vault_repository.rs, team_repository.rs, user_repository.rs).*)
(*                                                                         *)
(* In the Community build the services that share vaults and manage teams   *)
(* and users are stubs, but the repositories are complete and a database    *)
(* may come from a build that has them: their statements come in any order. *)
(* Keys are in AccountRekey, secrets in SecretLifecycle; the owner of a     *)
(* vault never changes.                                                     *)
(***************************************************************************)
EXTENDS Naturals, FiniteSets

CONSTANTS
    People, Vaults, Teams,
    Requests,    \* calls of the vault service
    NoRow,       \* no row
    MaxGrants    \* bound on the statements other services run

ASSUME NoRowIsNoName == NoRow \notin People \cup Vaults \cup Teams
ASSUME NoRowIsNoRow ==
    NoRow \notin {"user", "admin"} \cup [owner : People, deleted : BOOLEAN]
                 \cup [role : {"read", "write", "admin"}, team : Teams \cup {NoRow}]
ASSUME GrantsAreCounted == MaxGrants \in Nat

VARIABLES
    people,      \* users: the role of each
    vaults,      \* vaults: owner, deleted_at
    shares,      \* vault_key_shares, by vault and user
    teams,       \* teams
    members,     \* team_members, by team and user
    request,     \* the calls under way, or answered
    grants

tables == <<people, vaults, shares, teams, members>>
accessVars == <<tables, request, grants>>

Share == [role : {"read", "write", "admin"}, team : Teams \cup {NoRow}]

(***************************************************************************)
(* The view and the check.                                                 *)
(***************************************************************************)
Live(v) == vaults[v] # NoRow /\ ~vaults[v].deleted

OwnedRows ==
    {[user |-> vaults[v].owner, vault |-> v, owner |-> vaults[v].owner,
      role |-> "admin", kind |-> "owner"] : v \in {w \in Vaults : Live(w)}}

SharedRow(v, p) ==
    [user |-> p, vault |-> v, owner |-> vaults[v].owner, role |-> shares[<<v, p>>].role,
     kind |-> IF shares[<<v, p>>].team = NoRow THEN "direct_share" ELSE "team_share"]

\* Variant: the owner's own share is listed as well.
SharedRows_OfOwner ==
    {SharedRow(x[1], x[2]) : x \in {y \in Vaults \X People : Live(y[1]) /\ shares[y] # NoRow}}

\* What is shared with the owner is the owner's anyway.
SharedRows ==
    {SharedRow(x[1], x[2]) :
        x \in {y \in Vaults \X People :
                  Live(y[1]) /\ shares[y] # NoRow /\ vaults[y[1]].owner # y[2]}}

accessible_vaults == OwnedRows \cup SharedRows
get_vault_with_permission(p, v) == {row \in accessible_vaults : row.user = p /\ row.vault = v}

\* The lists read the tables, not the view.
list_owned_vaults(p) == {v \in Vaults : Live(v) /\ vaults[v].owner = p}
list_shared_vaults(p) ==
    {v \in Vaults : Live(v) /\ shares[<<v, p>>] # NoRow /\ vaults[v].owner # p}

Resource(p, row) ==
    [is_owner |-> row.owner = p, has_direct_share |-> row.kind = "direct_share",
     has_team_share |-> row.kind = "team_share", share_role |-> row.role]
Has_access(resource) ==
    resource.is_owner \/ resource.has_direct_share \/ resource.has_team_share

\* Variant: writing is enough to delete.
check_permission_Writers(role, action, resource) ==
    \/ role = "admin"
    \/ action \in {"VaultCreate", "VaultList"}
    \/ action = "VaultOpen" /\ Has_access(resource)
    \/ /\ action = "VaultDelete" /\ Has_access(resource)
       /\ resource.is_owner \/ resource.share_role \in {"write", "admin"}

\* What the vault service asks; it passes a role of the share only with the share.
check_permission(role, action, resource) ==
    \/ role = "admin"
    \/ action \in {"VaultCreate", "VaultList"}
    \/ action = "VaultOpen" /\ Has_access(resource)
    \/ /\ action = "VaultDelete" /\ Has_access(resource)
       /\ resource.is_owner \/ resource.share_role = "admin"

(***************************************************************************)
(* What a call can answer for: the role of its user and the right of the   *)
(* user to the vault at the moments it runs, read off the tables.          *)
(***************************************************************************)
Right(held, given, p, v) ==
    IF held[v] = NoRow THEN "none"
    ELSE IF held[v].deleted THEN "none"
    ELSE IF held[v].owner = p THEN "owner"
    ELSE IF given[<<v, p>>] = NoRow THEN "none" ELSE given[<<v, p>>].role

Given(given, v) == \E p \in People : given[<<v, p>>] # NoRow

Nobody == [stage |-> "idle"]
UnderWay(q) == q.stage \notin {"idle", "done"}

Watched(q) ==
    IF UnderWay(q) /\ q.user # NoRow
    THEN [q EXCEPT !.roles = @ \cup {people'[q.user]},
                   !.rights = @ \cup {Right(vaults', shares', q.user, q.vault)},
                   !.given = @ \cup {Given(shares', q.vault)}]
    ELSE q

\* The request c goes on as q, the others see what changed.
Turn(c, q) ==
    request' = [d \in Requests |-> IF d = c THEN q ELSE Watched(request[d])]
Reply(c, answer) ==
    Turn(c, [Watched(request[c]) EXCEPT !.stage = "done", !.answer = answer])

(***************************************************************************)
(* The calls of the vault service.                                         *)
(***************************************************************************)
Operations == {"open", "open as owner", "create", "delete", "shared with others", "sort"}

Asked(op, p, v) ==
    [stage |-> IF op = "open as owner" THEN "vault" ELSE IF op = "sort" THEN "row" ELSE "user",
     op |-> op, user |-> IF op = "open as owner" THEN NoRow ELSE p, vault |-> v,
     role |-> NoRow, owns |-> FALSE, answer |-> "none",
     roles |-> {people[p]}, rights |-> {Right(vaults, shares, p, v)},
     given |-> {Given(shares, v)}]

\* A new vault has an identifier of its own.
Ask(c, op, p, v) ==
    /\ UNCHANGED <<tables, grants>>
    /\ ~UnderWay(request[c])
    /\ op = "create" => /\ vaults[v] = NoRow
                        /\ \A d \in Requests : UnderWay(request[d]) => request[d].vault # v
    /\ Turn(c, Asked(op, p, v))

\* open_vault: the owner of the vault is the one who asks.
GetVault(c) ==
    LET q == request[c] IN
    /\ UNCHANGED <<tables, grants>>
    /\ q.stage = "vault"
    /\ IF Live(q.vault)
       THEN Turn(c, [Asked("open", vaults[q.vault].owner, q.vault) EXCEPT !.stage = "user"])
       ELSE Reply(c, "missing")

\* Creating and listing need no more than an account.
GetUser(c) ==
    LET q == request[c] IN
    /\ UNCHANGED <<tables, grants>>
    /\ q.stage = "user"
    /\ IF people[q.user] = NoRow THEN Reply(c, "missing")
       ELSE Turn(c, [q EXCEPT !.stage = IF q.op = "create" THEN "insert" ELSE "row",
                              !.role = people[q.user]])

\* The audit event comes after the insert: without it the call fails, the vault stays.
InsertVault(c) ==
    LET q == request[c] IN
    /\ UNCHANGED <<people, shares, teams, members, grants>>
    /\ q.stage = "insert"
    /\ IF people[q.user] = NoRow
       THEN UNCHANGED vaults /\ Reply(c, "error")
       ELSE /\ vaults' = [vaults EXCEPT ![q.vault] = [owner |-> q.user, deleted |-> FALSE]]
            /\ \E answer \in {"created", "error"} :
                  Turn(c, [q EXCEPT !.stage = "done", !.answer = answer])

\* Whether the row of the view lets the call go on.
Passes(q, row) ==
    CASE q.op = "open" -> check_permission(q.role, "VaultOpen", Resource(q.user, row))
      [] q.op = "delete" -> check_permission(q.role, "VaultDelete", Resource(q.user, row))
      [] OTHER -> row.owner = q.user
AfterRow == [op \in {"open", "delete", "shared with others", "sort"} |->
                CASE op = "open" -> "envelope" [] op = "delete" -> "trash"
                  [] op = "sort" -> "order" [] OTHER -> "count"]

GetRow(c) ==
    LET q == request[c]
        found == get_vault_with_permission(q.user, q.vault) IN
    /\ UNCHANGED <<tables, grants>>
    /\ q.stage = "row"
    /\ IF found = {} THEN Reply(c, "denied")
       ELSE \E row \in found :
               IF Passes(q, row)
               THEN Turn(c, [q EXCEPT !.stage = AfterRow[q.op], !.owns = row.owner = q.user])
               ELSE Reply(c, IF q.op = "shared with others" THEN "no" ELSE "denied")

\* The owner's envelope is in the row of the vault, another's in the share.
GetEnvelope(c) ==
    LET q == request[c] IN
    /\ UNCHANGED <<tables, grants>>
    /\ q.stage = "envelope"
    /\ Reply(c, IF q.owns
                 THEN IF vaults[q.vault] # NoRow THEN "key" ELSE "error"
                 ELSE IF shares[<<q.vault, q.user>>] # NoRow THEN "key" ELSE "denied")

TrashVault(c) ==
    LET q == request[c] IN
    /\ UNCHANGED <<people, shares, teams, members, grants>>
    /\ q.stage = "trash"
    /\ IF Live(q.vault)
       THEN /\ vaults' = [vaults EXCEPT ![q.vault].deleted = TRUE]
            /\ Turn(c, [q EXCEPT !.stage = "done", !.answer = "deleted"])
       ELSE UNCHANGED vaults /\ Reply(c, "missing")

CountShares(c) ==
    LET q == request[c] IN
    /\ UNCHANGED <<tables, grants>>
    /\ q.stage = "count"
    /\ Reply(c, IF Given(shares, q.vault) THEN "yes" ELSE "no")

\* The order itself is left out.
SortVault(c) ==
    /\ UNCHANGED <<tables, grants>>
    /\ request[c].stage = "order"
    /\ Reply(c, "sorted")

\* A statement fails, or the audit of an opening, or a key does not open its envelope.
Fail(c) ==
    /\ UNCHANGED <<tables, grants>>
    /\ UnderWay(request[c])
    /\ Reply(c, "error")

(***************************************************************************)
(* Statements of other services.                                           *)
(***************************************************************************)
Written ==
    /\ grants < MaxGrants /\ grants' = grants + 1
    /\ request' = [c \in Requests |-> Watched(request[c])]

create_user_db(p, role) ==
    /\ people[p] = NoRow
    /\ people' = [people EXCEPT ![p] = role]
    /\ UNCHANGED <<vaults, shares, teams, members>> /\ Written

update_user_role(p, role) ==
    /\ people[p] # NoRow
    /\ people' = [people EXCEPT ![p] = role]
    /\ UNCHANGED <<vaults, shares, teams, members>> /\ Written

\* Variant: the shares others were given of the vaults stay.
delete_user_KeepsShares(p) ==
    /\ people[p] # NoRow
    /\ people' = [people EXCEPT ![p] = NoRow]
    /\ vaults' = [v \in Vaults |-> IF v \in list_owned_vaults(p) THEN NoRow ELSE vaults[v]]
    /\ shares' = [x \in Vaults \X People |-> IF x[2] = p THEN NoRow ELSE shares[x]]
    /\ members' = [x \in Teams \X People |-> IF x[2] = p THEN NoRow ELSE members[x]]
    /\ UNCHANGED teams /\ Written

\* Vaults, live or not, shares and memberships go with the user.
delete_user(p) ==
    LET Goes(v) == vaults[v] # NoRow /\ vaults[v].owner = p IN
    /\ people[p] # NoRow
    /\ people' = [people EXCEPT ![p] = NoRow]
    /\ vaults' = [v \in Vaults |-> IF Goes(v) THEN NoRow ELSE vaults[v]]
    /\ shares' = [x \in Vaults \X People |->
                    IF x[2] = p \/ Goes(x[1]) THEN NoRow ELSE shares[x]]
    /\ members' = [x \in Teams \X People |-> IF x[2] = p THEN NoRow ELSE members[x]]
    /\ UNCHANGED teams /\ Written

\* Restoring a secret brings its vault back.
RestoreVault(v) ==
    /\ vaults[v] # NoRow /\ vaults[v].deleted
    /\ vaults' = [vaults EXCEPT ![v].deleted = FALSE]
    /\ UNCHANGED <<people, shares, teams, members>> /\ Written

\* One share for a vault and a user: the last grant replaces role and team.
insert_key_share(v, p, share) ==
    /\ vaults[v] # NoRow /\ people[p] # NoRow
    /\ share.team \in teams \cup {NoRow}
    /\ shares' = [shares EXCEPT ![<<v, p>>] = share]
    /\ UNCHANGED <<people, vaults, teams, members>> /\ Written

delete_key_share(v, p) ==
    /\ shares[<<v, p>>] # NoRow
    /\ shares' = [shares EXCEPT ![<<v, p>>] = NoRow]
    /\ UNCHANGED <<people, vaults, teams, members>> /\ Written

\* The shares of a rotation are written without a role: the column's default.
replace_all_key_shares(v, kept) ==
    /\ vaults[v] # NoRow
    /\ \A p \in DOMAIN kept : people[p] # NoRow /\ kept[p] \in teams \cup {NoRow}
    /\ shares' = [x \in Vaults \X People |->
                    IF x[1] # v THEN shares[x]
                    ELSE IF x[2] \in DOMAIN kept THEN [role |-> "read", team |-> kept[x[2]]]
                    ELSE NoRow]
    /\ UNCHANGED <<people, vaults, teams, members>> /\ Written

delete_key_shares_for_user_via_team(p, t) ==
    /\ shares' = [x \in Vaults \X People |->
                    IF x[2] = p /\ shares[x] # NoRow /\ shares[x].team = t
                    THEN NoRow ELSE shares[x]]
    /\ shares' # shares
    /\ UNCHANGED <<people, vaults, teams, members>> /\ Written

create_team(t) ==
    /\ t \notin teams
    /\ teams' = teams \cup {t}
    /\ UNCHANGED <<people, vaults, shares, members>> /\ Written

\* Its members go; the shares given through it stay and look direct from now on.
delete_team(t) ==
    /\ t \in teams
    /\ teams' = teams \ {t}
    /\ members' = [x \in Teams \X People |-> IF x[1] = t THEN NoRow ELSE members[x]]
    /\ shares' = [x \in Vaults \X People |->
                    IF shares[x] # NoRow /\ shares[x].team = t
                    THEN [shares[x] EXCEPT !.team = NoRow] ELSE shares[x]]
    /\ UNCHANGED <<people, vaults>> /\ Written

add_member(t, p, role) ==
    /\ t \in teams /\ people[p] # NoRow
    /\ members' = [members EXCEPT ![<<t, p>>] = role]
    /\ UNCHANGED <<people, vaults, shares, teams>> /\ Written

\* The shares the member has through the team are another statement.
remove_member(t, p) ==
    /\ members[<<t, p>>] # NoRow
    /\ members' = [members EXCEPT ![<<t, p>>] = NoRow]
    /\ UNCHANGED <<people, vaults, shares, teams>> /\ Written

----------------------------------------------------------------------------

\* What the foreign keys allow.
TablesWhole ==
    /\ \A v \in Vaults : vaults[v] # NoRow => people[vaults[v].owner] # NoRow
    /\ \A x \in Vaults \X People : shares[x] # NoRow =>
          vaults[x[1]] # NoRow /\ people[x[2]] # NoRow /\ shares[x].team \in teams \cup {NoRow}
    /\ \A x \in Teams \X People : members[x] # NoRow => x[1] \in teams /\ people[x[2]] # NoRow

AccessInit ==
    /\ people \in [People -> {NoRow, "user", "admin"}]
    /\ vaults \in [Vaults -> {NoRow} \cup [owner : People, deleted : BOOLEAN]]
    /\ teams \in SUBSET Teams
    /\ shares \in [Vaults \X People -> {NoRow} \cup Share]
    /\ members \in [Teams \X People -> {NoRow, "member", "leader"}]
    /\ TablesWhole
    /\ request = [c \in Requests |-> Nobody]
    /\ grants = 0

Serve(c) ==
    \/ \E op \in Operations, p \in People, v \in Vaults : Ask(c, op, p, v)
    \/ GetVault(c) \/ GetUser(c) \/ InsertVault(c) \/ GetRow(c) \/ GetEnvelope(c)
    \/ TrashVault(c) \/ CountShares(c) \/ SortVault(c) \/ Fail(c)

Elsewhere ==
    \/ \E p \in People :
        \/ \E role \in {"user", "admin"} : create_user_db(p, role) \/ update_user_role(p, role)
        \/ delete_user(p)
    \/ \E v \in Vaults :
        \/ RestoreVault(v)
        \/ \E kept \in UNION {[who -> Teams \cup {NoRow}] : who \in SUBSET People} :
              replace_all_key_shares(v, kept)
        \/ \E p \in People :
              delete_key_share(v, p) \/ \E share \in Share : insert_key_share(v, p, share)
    \/ \E t \in Teams :
        \/ create_team(t) \/ delete_team(t)
        \/ \E p \in People :
              \/ \E role \in {"member", "leader"} : add_member(t, p, role)
              \/ remove_member(t, p) \/ delete_key_shares_for_user_via_team(p, t)

AccessNext == (\E c \in Requests : Serve(c)) \/ Elsewhere

AccessSpec == AccessInit /\ [][AccessNext]_accessVars

----------------------------------------------------------------------------
(* Properties.                                                              *)

\* Someone may delete a vault as its owner, as an administrator of it, or as an
\* administrator of the program with whatever access to it.
MayDelete(role, right) ==
    right # "none" /\ (role = "admin" \/ right \in {"owner", "admin"})

\* A call reads the account, the view and the envelope at different moments. Its
\* answer is right for what it met while it ran: no key and no deletion without a
\* right the user had then, and no refusal of someone who had it all the time
\* (vault_service.rs: open_vault_for_user, delete_vault, is_vault_shared_with_others).
AnswersEarned ==
    \A c \in Requests : request[c].stage = "done" =>
        LET q == request[c] IN
        CASE q.answer = "key" -> q.rights # {"none"}
          [] q.answer = "deleted" ->
                \E role \in q.roles, right \in q.rights : MayDelete(role, right)
          [] q.answer = "denied" ->
                \E role \in q.roles, right \in q.rights :
                    CASE q.op = "delete" -> ~MayDelete(role, right)
                      [] q.op = "sort" -> right # "owner"
                      [] OTHER -> right = "none"
          [] q.answer = "sorted" -> "owner" \in q.rights
          [] q.answer = "yes" -> "owner" \in q.rights /\ TRUE \in q.given
          [] q.answer = "no" -> q.rights # {"owner"} \/ FALSE \in q.given
          [] OTHER -> TRUE

\* The view has one row for a user and a vault, or none, and says the right the
\* tables give; the two lists split it between them (0014_vault_security_rbac.sql,
\* vault_repository.rs: list_owned_vaults, list_shared_vaults).
ViewExact ==
    \A p \in People :
        /\ \A v \in Vaults :
            LET rows == get_vault_with_permission(p, v)
                right == Right(vaults, shares, p, v) IN
            /\ Cardinality(rows) = IF right = "none" THEN 0 ELSE 1
            /\ \A row \in rows :
                  row.role = IF right = "owner" THEN "admin" ELSE right
        /\ list_owned_vaults(p) \cap list_shared_vaults(p) = {}
        /\ list_owned_vaults(p) \cup list_shared_vaults(p)
              = {row.vault : row \in {r \in accessible_vaults : r.user = p}}

\* Access is what the tables give, and they stay whole whatever is deleted.
AccessEarned == AnswersEarned /\ ViewExact /\ TablesWhole

=============================================================================
