---------------------------- MODULE SecurityAudit ----------------------------
(***************************************************************************)
(* What the program says of the quality of the entries: the report of the  *)
(* security centre (services/security_center.rs) with the page that shows  *)
(* it, and the badges of the entry list (secret_flow.rs).  Two workers     *)
(* read the same vaults along different ways while edits, moves and        *)
(* removals are committed by others; the page and the list follow when the *)
(* callback of the change runs.                                            *)
(*                                                                         *)
(* A password is a model value with its length, its classes of characters  *)
(* and the score of the estimator; an address is the list of what the      *)
(* parser finds in it.  The session stays open: OpenSession has the locks. *)
(***************************************************************************)
EXTENDS Naturals, FiniteSets, FiniteSetsExt, SequencesExt

CONSTANTS Nil,
          Secrets,      \* identifiers of entries
          Vaults,       \* vaults of the user
          Loaders,      \* slots for threads that load the list
          Contents,     \* what an entry may hold
          Length,       \* of a password, in characters
          Classes,      \* of characters in it
          Estimate,     \* score the estimator gives it
          MaxChanges,   \* bound on committed changes
          MaxInputs,    \* bound on what the user does on the pages
          MaxErrors,    \* bound on vaults that cannot be read
          Page          \* rows the page adds at a time, 50 in the code

\* A value is text, bytes that are no text, or nothing that can be opened.
Values == [form : {"text"}, text : DOMAIN Length] \cup [form : {"binary", "sealed"}]
Addresses == [blank : BOOLEAN, parses : BOOLEAN, scheme : {"http", "https", "other"},
              host : {"none", "short", "local", "address", "name"}, login : BOOLEAN,
              puny : BOOLEAN]
Metadata == [form : {"url"}, url : Addresses] \cup [form : {"none", "plain", "broken", "number"}]
Content == [kind : STRING, value : Values,
            expires : {"none", "bad", "past", "month", "later"}, details : Metadata]

ASSUME FinitelyMany == IsFiniteSet(Secrets) /\ IsFiniteSet(Vaults)
ASSUME NilIsNothing == Nil \notin Vaults \cup Nat
ASSUME ContentsAreTyped == Contents \subseteq Content /\ Nil \notin Content
ASSUME PasswordsAreJudged ==
    /\ Length \in [DOMAIN Length -> Nat] /\ Nil \notin DOMAIN Length
    /\ Estimate \in [DOMAIN Length -> Nat]
    /\ \A text \in DOMAIN Length : IsFiniteSet(Classes[text])

VARIABLES
    held,        \* entry -> content, or Nil
    place,       \* entry -> vault it is in
    owed,        \* committed changes the pages have not followed
    due,         \* callbacks that will make them
    saving,      \* the update between its two statements
    scan,        \* the worker of the security centre
    report,      \* View.report
    failed,      \* View.failed
    armed,       \* View.pending
    filter,      \* View.selected
    chosen,      \* View.selected_vault
    picked,      \* row the vault menu shows as selected
    limit,       \* View.limit
    menu,        \* vaults in that menu
    scope,       \* vaults the list covers: all of them, or the active one
    loaded,      \* last_loaded
    load,        \* threads of refresh_secret_flow
    changes, inputs, errors

store == <<held, place>>
view == <<filter, chosen, picked, limit, menu>>
centre == <<scan, report, failed, armed>>
lists == <<scope, loaded, load>>
writers == <<owed, due, saving>>
auditVars == <<store, writers, centre, view, lists, changes, inputs, errors>>

Rest == [form |-> "none"]
Order == SetToSeq(Vaults)

-----------------------------------------------------------------------------
(* One password, one address, one date. *)

policy_cap(text) ==
    LET long == Length[text] IN LET kinds == Cardinality(Classes[text]) IN
    CASE long < 12 -> 1
      [] long \in 12..13 -> IF kinds = 4 THEN 3 ELSE 2
      [] long = 14 -> IF kinds >= 3 THEN 3 ELSE 2
      [] OTHER -> IF kinds >= 3 THEN 4 ELSE 2

Lower(a, b) == IF a < b THEN a ELSE b
assess_password(text) == Lower(Estimate[text], policy_cap(text))

\* The cap alone may settle the verdict.
is_weak_password(text) == policy_cap(text) < 3 \/ assess_password(text) < 3

\* Syntax only.
assess_url(url) ==
    IF url.blank THEN "Empty"
    ELSE IF ~url.parses THEN "Invalid"
    ELSE IF url.scheme = "other" THEN "UnsupportedScheme"
    ELSE IF url.host = "none" THEN "Invalid"
    ELSE IF url.login THEN "Credentials"
    ELSE IF url.host \in {"short", "local", "address"} THEN "LocalHost"
    ELSE IF url.scheme = "http" THEN "Http"
    ELSE IF url.puny THEN "InternationalDomain"
    ELSE "HttpsUnverified"

Attention == {"Invalid", "UnsupportedScheme", "Credentials", "Http", "LocalHost",
              "InternationalDomain"}

expiry_finding(expires) ==
    CASE expires = "none" -> {}
      [] expires = "bad" -> {"InvalidExpiry"}
      [] expires = "past" -> {"Expired"}
      [] expires = "month" -> {"ExpiringSoon"}
      [] expires = "later" -> {}

\* A document that is no object, or an address that is no text, is told apart
\* from one without an address.
metadata_findings(content) ==
    expiry_finding(content.expires) \cup
    LET details == content.details IN
    CASE details.form \in {"none", "plain"} -> {}
      [] details.form = "broken" -> {"InvalidMetadata"}
      [] details.form = "number" -> {"InvalidMetadata"}
      [] details.form = "url" -> IF assess_url(details.url) \in Attention THEN {"Url"} ELSE {}

-----------------------------------------------------------------------------
(* The analysis: vault by vault, one query each. *)

\* Identifiers in a vault, in the order of the query.
list_by_vault(v) == SetToSeq({s \in Secrets : held[s] # Nil /\ place[s] = v})

Readable(content) == content.kind = "Password" /\ content.value.form = "text"
Unreadable(content) == content.kind = "Password" /\ content.value.form # "text"

\* What is found in one item by itself.
analyze_item(s) ==
    LET content == held[s] IN
    [id |-> s, vault |-> place[s],
     findings |-> metadata_findings(content)
         \cup (IF Unreadable(content) THEN {"Unreadable"} ELSE {})
         \cup (IF Readable(content) /\ is_weak_password(content.value.text)
               THEN {"WeakPassword"} ELSE {}),
     group |-> Nil]

\* The items of a vault in their order, and after which row they come.  Two items
\* share a print when they share a text.
rows_of(items) == [i \in DOMAIN items |-> analyze_item(items[i])]
unreadable_of(items) == Cardinality({i \in DOMAIN items : Unreadable(held[items[i]])})
prints_of(items, after) ==
    {[text |-> held[items[i]].value.text, at |-> after + i] :
        i \in {k \in DOMAIN items : Readable(held[items[k]])}}

\* Every vault has prints of its own.
analyze_vault_Apart(work, v) ==
    [work EXCEPT !.rows = @ \o rows_of(list_by_vault(v)),
                 !.unreadable = @ + unreadable_of(list_by_vault(v)),
                 !.prints = prints_of(list_by_vault(v), Len(work.rows)),
                 !.todo = Tail(@), !.opened = @ \cup {v}]
analyze_vault(work, v) ==
    [work EXCEPT !.rows = @ \o rows_of(list_by_vault(v)),
                 !.unreadable = @ + unreadable_of(list_by_vault(v)),
                 !.prints = @ \cup prints_of(list_by_vault(v), Len(work.rows)),
                 !.todo = Tail(@), !.opened = @ \cup {v}]

\* Items with one text form a group, known by its first member.
reuse_groups(work) ==
    LET mates(i) == {p.at : p \in {q \in work.prints :
                        \E r \in work.prints : r.at = i /\ r.text = q.text}} IN
    [i \in DOMAIN work.rows |->
        IF Cardinality(mates(i)) > 1
        THEN [work.rows[i] EXCEPT !.findings = @ \cup {"ReusedPassword"}, !.group = Min(mates(i))]
        ELSE work.rows[i]]

Finished(work) == [form |-> "report", rows |-> reuse_groups(work), opened |-> work.opened,
                   unavailable |-> work.unavailable, unreadable |-> work.unreadable]

affected(done) == {i \in DOMAIN done.rows : done.rows[i].findings # {}}

is_complete(done) ==
    /\ done.unavailable = 0
    /\ done.unreadable = 0
    /\ \A i \in DOMAIN done.rows :
          done.rows[i].findings \cap {"InvalidExpiry", "InvalidMetadata"} = {}

-----------------------------------------------------------------------------
(* The page. *)

Filters == {"All", "Reused", "Weak", "Expiry", "Urls"}

matches_filter(row, f) ==
    CASE f = "All" -> row.findings # {}
      [] f = "Reused" -> "ReusedPassword" \in row.findings
      [] f = "Weak" -> "WeakPassword" \in row.findings
      [] f = "Expiry" -> row.findings \cap {"Expired", "ExpiringSoon", "InvalidExpiry"} # {}
      [] f = "Urls" -> "Url" \in row.findings

rank(finding) ==
    CASE finding \in {"Unreadable", "InvalidMetadata"} -> 0
      [] finding = "Expired" -> 1
      [] finding = "ReusedPassword" -> 2
      [] finding = "WeakPassword" -> 3
      [] finding = "Url" -> 4
      [] OTHER -> 5

priority(row) == IF row.findings = {} THEN 6 ELSE Min({rank(f) : f \in row.findings})

\* The most urgent rows, as many as the limit allows.
Selected(done) ==
    SetToSortSeq({i \in DOMAIN done.rows : matches_filter(done.rows[i], filter)
                                            /\ chosen \in {Nil, done.rows[i].vault}},
                 LAMBDA i, j : \/ priority(done.rows[i]) < priority(done.rows[j])
                               \/ priority(done.rows[i]) = priority(done.rows[j]) /\ i < j)
Visible(done) == SubSeq(Selected(done), 1, Lower(limit, Len(Selected(done))))
more_visible(done) == Len(Selected(done)) > limit

busy == scan.form # "none"

\* The shield of the page and of the sidebar.
Shield ==
    IF armed \/ busy THEN "updating"
    ELSE IF failed THEN "warning"
    ELSE IF report.form = "none" THEN "unknown"
    ELSE IF affected(report) # {} THEN "warning"
    ELSE IF is_complete(report) THEN "ok" ELSE "partial"

\* The menu is rebuilt; a vault that is gone is no longer chosen.
set_report(done) ==
    LET names == {done.rows[i].vault : i \in DOMAIN done.rows} IN
    /\ menu' = names
    /\ picked' = IF chosen \in names THEN chosen ELSE Nil
    /\ chosen' = picked'
    /\ report' = done
    /\ UNCHANGED <<filter, limit>>

\* Results are dropped at once, the new analysis starts after a pause.
Invalidate ==
    /\ scan' = Rest
    /\ report' = Rest /\ failed' = FALSE
    /\ armed' = TRUE

-----------------------------------------------------------------------------
(* The list. *)

Free == {l \in Loaders : load[l].form = "none"}

\* Threads are not limited; here a slot has to be free.
refresh_secret_flow(vaults) ==
    /\ Free # {}
    /\ load' = [load EXCEPT ![CHOOSE l \in Free : TRUE] =
                    [form |-> "run", all |-> vaults = Order, todo |-> vaults, items |-> <<>>,
                     opened |-> {}, rows |-> <<>>, since |-> changes]]
    /\ UNCHANGED loaded

\* The value is read again for each item, its details are those of the listing.
build_secret_row(item) ==
    LET now == held[item.id] IN
    LET has == /\ now # Nil
               /\ now.value.form \in (IF item.kind = "Password" THEN {"text"}
                                      ELSE {"text", "binary"}) IN
    LET print == IF has /\ item.kind = "Password" THEN now.value.text ELSE Nil IN
    [id |-> item.id, vault |-> item.vault, has_secret |-> has, print |-> print,
     is_weak |-> IF print = Nil THEN FALSE ELSE is_weak_password(print)]

\* An entry without a print is nobody's duplicate.
duplicate_flags(rows) ==
    [i \in DOMAIN rows |-> /\ rows[i].print # Nil
                           /\ \E j \in DOMAIN rows \ {i} : rows[j].print = rows[i].print]

finalize_rows(rows) ==
    LET flags == duplicate_flags(rows) IN
    [i \in DOMAIN rows |->
        [id |-> rows[i].id, vault |-> rows[i].vault, has_secret |-> rows[i].has_secret,
         is_weak |-> rows[i].is_weak, is_duplicate |-> flags[i]]]

\* The badges beside the list count its rows.
apply_filters(rows) ==
    LET weak == {i \in DOMAIN rows : rows[i].is_weak} IN
    LET duplicate == {i \in DOMAIN rows : rows[i].is_duplicate} IN
    [all |-> Len(rows), weak |-> Cardinality(weak), duplicate |-> Cardinality(duplicate),
     non_compliant |-> Cardinality(weak \cup duplicate)]

render_secret_rows(work) ==
    LET rows == finalize_rows(work.rows) IN
    [form |-> "rows", rows |-> rows, badges |-> apply_filters(rows), opened |-> work.opened,
     since |-> work.since]

-----------------------------------------------------------------------------

AuditInit ==
    /\ held \in [Secrets -> Contents \cup {Nil}]
    /\ place \in [Secrets -> Vaults \cup {Nil}]
    /\ \A s \in Secrets : held[s] = Nil <=> place[s] = Nil
    /\ owed = 0 /\ due = 0 /\ saving = Rest
    /\ scan = Rest /\ report = Rest /\ failed = FALSE /\ armed = TRUE
    /\ filter = "All" /\ chosen = Nil /\ picked = Nil /\ limit = Page /\ menu = {}
    /\ scope = Order
    /\ loaded = Rest /\ load = [l \in Loaders |-> Rest]
    /\ changes = 0 /\ inputs = 0 /\ errors = 0

Fails == errors < MaxErrors /\ errors' = errors + 1
Input == inputs < MaxInputs /\ inputs' = inputs + 1

(* What others commit: a new entry, an edit, a move, a removal. *)

\* One statement of the store, the last of its operation.
Commit ==
    /\ changes' = changes + 1
    /\ due' = due + 1
    /\ UNCHANGED <<centre, view, lists, inputs>>

Starts == changes < MaxChanges /\ owed' = owed + 1

Create(s) ==
    /\ held[s] = Nil
    /\ \E content \in Contents : held' = [held EXCEPT ![s] = content]
    /\ \E v \in Vaults : place' = [place EXCEPT ![s] = v]
    /\ Starts /\ Commit
    /\ UNCHANGED <<saving, errors>>

\* An edit writes the details, then the value.
SaveDetails(s) ==
    /\ saving = Rest
    /\ held[s] # Nil
    /\ Starts
    /\ changes' = changes + 1
    /\ \E content \in {c \in Contents : c.kind = held[s].kind} :
          /\ held' = [held EXCEPT ![s].details = content.details, ![s].expires = content.expires]
          /\ saving' = [form |-> "value", id |-> s, value |-> content.value]
    /\ UNCHANGED <<place, due, centre, view, lists, inputs, errors>>

SaveValue ==
    /\ saving # Rest
    /\ saving' = Rest
    /\ IF held[saving.id] = Nil
       THEN UNCHANGED <<held, due, changes, errors, centre, view, lists, inputs>>
       ELSE held' = [held EXCEPT ![saving.id].value = saving.value] /\ Commit /\ UNCHANGED errors
    /\ UNCHANGED <<place, owed>>

\* The details stay as they are and nobody is told.
FailValue ==
    /\ saving # Rest
    /\ Fails
    /\ saving' = Rest
    /\ UNCHANGED <<store, owed, due, changes, centre, view, lists, inputs>>

Move(s) ==
    /\ held[s] # Nil
    /\ \E v \in Vaults \ {place[s]} : place' = [place EXCEPT ![s] = v]
    /\ Starts /\ Commit
    /\ UNCHANGED <<held, saving, errors>>

SoftDelete(s) ==
    /\ held[s] # Nil
    /\ held' = [held EXCEPT ![s] = Nil]
    /\ place' = [place EXCEPT ![s] = Nil]
    /\ Starts /\ Commit
    /\ UNCHANGED <<saving, errors>>

\* refresh_entries: both pages follow.
Callback ==
    /\ due > 0
    /\ due' = due - 1 /\ owed' = owed - 1
    /\ Invalidate
    /\ refresh_secret_flow(scope)
    /\ UNCHANGED <<store, saving, view, scope, changes, inputs, errors>>

-----------------------------------------------------------------------------
(* The analysis. *)

\* The armed source is removed with the worker it would have replaced.
StartScan ==
    /\ ~busy
    /\ scan' = [form |-> "run", todo |-> Order, rows |-> <<>>, prints |-> {}, opened |-> {},
                unavailable |-> 0, unreadable |-> 0]
    /\ report' = Rest /\ failed' = FALSE /\ armed' = FALSE
    /\ UNCHANGED <<store, writers, view, lists, changes, errors>>

ArmedFires == armed /\ StartScan /\ UNCHANGED inputs
AskScan == Input /\ StartScan

CancelScan ==
    /\ Input
    /\ busy
    /\ scan' = Rest /\ armed' = FALSE
    /\ UNCHANGED <<store, writers, report, failed, view, lists, changes, errors>>

\* A vault that cannot be opened or listed is counted.
ScanVault ==
    /\ busy
    /\ scan.todo # <<>>
    /\ \/ scan' = analyze_vault(scan, Head(scan.todo)) /\ UNCHANGED errors
       \/ Fails /\ scan' = [scan EXCEPT !.todo = Tail(@), !.unavailable = @ + 1]
    /\ UNCHANGED <<store, writers, report, failed, armed, view, lists, changes, inputs>>

FinishScan ==
    /\ busy
    /\ scan.todo = <<>>
    /\ scan' = Rest /\ armed' = FALSE
    /\ set_report(Finished(scan))
    /\ UNCHANGED <<store, writers, failed, lists, changes, inputs, errors>>

FailScan ==
    /\ busy
    /\ Fails
    /\ scan' = Rest /\ armed' = FALSE /\ failed' = TRUE
    /\ UNCHANGED <<store, writers, report, view, lists, changes, inputs>>

ChooseFilter ==
    /\ Input
    /\ filter' \in Filters \ {filter}
    /\ limit' = Page
    /\ UNCHANGED <<store, writers, centre, chosen, picked, menu, lists, changes, errors>>

\* Without a report the menu has no vault behind its rows.
ChooseVault ==
    /\ Input
    /\ picked' \in ({Nil} \cup menu) \ {picked}
    /\ chosen' = IF report.form = "none" THEN Nil ELSE picked'
    /\ limit' = Page
    /\ UNCHANGED <<store, writers, centre, filter, menu, lists, changes, errors>>

ShowMore ==
    /\ Input
    /\ report.form # "none"
    /\ more_visible(report)
    /\ limit' = limit + Page
    /\ UNCHANGED <<store, writers, centre, filter, chosen, picked, menu, lists, changes, errors>>

-----------------------------------------------------------------------------
(* The list. *)

\* Search in all vaults, or the selection of one.
ChooseScope ==
    /\ Input
    /\ scope' \in ({Order} \cup {<<v>> : v \in Vaults}) \ {scope}
    /\ refresh_secret_flow(scope')
    /\ UNCHANGED <<store, writers, centre, view, changes, errors>>

ListVault(l) ==
    /\ load[l].form = "run"
    /\ load[l].items = <<>> /\ load[l].todo # <<>>
    /\ LET v == Head(load[l].todo) IN
       load' = [load EXCEPT ![l].todo = Tail(@),
                            ![l].opened = @ \cup {v},
                            ![l].items = [i \in DOMAIN list_by_vault(v) |->
                                [id |-> list_by_vault(v)[i], vault |-> v,
                                 kind |-> held[list_by_vault(v)[i]].kind]]]
    /\ UNCHANGED <<store, writers, centre, view, scope, loaded, changes, inputs, errors>>

\* One vault of many is left out without a word; the only one ends the load.
SkipVault(l) ==
    /\ load[l].form = "run"
    /\ load[l].items = <<>> /\ load[l].todo # <<>>
    /\ Fails
    /\ IF load[l].all
       THEN load' = [load EXCEPT ![l].todo = Tail(@)] /\ UNCHANGED loaded
       ELSE load' = [load EXCEPT ![l] = Rest] /\ loaded' = Rest
    /\ UNCHANGED <<store, writers, centre, view, scope, changes, inputs>>

BuildRow(l) ==
    /\ load[l].form = "run"
    /\ load[l].items # <<>>
    /\ load' = [load EXCEPT ![l].items = Tail(@),
                            ![l].rows = Append(@, build_secret_row(Head(load[l].items)))]
    /\ UNCHANGED <<store, writers, centre, view, scope, loaded, changes, inputs, errors>>

\* Answers are shown as they come.
LandLoad(l) ==
    /\ load[l].form = "run"
    /\ load[l].items = <<>> /\ load[l].todo = <<>>
    /\ load' = [load EXCEPT ![l] = Rest]
    /\ loaded' = render_secret_rows(load[l])
    /\ UNCHANGED <<store, writers, centre, view, scope, changes, inputs, errors>>

StoreNext ==
    \/ \E s \in Secrets : Create(s) \/ SaveDetails(s) \/ Move(s) \/ SoftDelete(s)
    \/ SaveValue \/ FailValue \/ Callback
CentreNext ==
    \/ ArmedFires \/ AskScan \/ CancelScan \/ ScanVault \/ FinishScan \/ FailScan
    \/ ChooseFilter \/ ChooseVault \/ ShowMore
ListNext ==
    \/ ChooseScope
    \/ \E l \in Loaders : ListVault(l) \/ SkipVault(l) \/ BuildRow(l) \/ LandLoad(l)

\* The two readers touch nothing of each other.
AuditNext == StoreNext \/ CentreNext \/ ListNext

AuditSpec == AuditInit /\ [][AuditNext]_auditVars

-----------------------------------------------------------------------------
(* Properties. *)

Findings == {"WeakPassword", "ReusedPassword", "Expired", "ExpiringSoon", "InvalidExpiry",
             "Url", "Unreadable", "InvalidMetadata"}
RowsOf(done) == [i \in DOMAIN done.rows |-> done.rows[i].id]

\* Shape of the state: the counters stay inside their bounds, no entry is twice
\* in one worker, one report or one list unless it was moved meanwhile, and a
\* slot is only busy for a load of this list.
AuditOK ==
    /\ held \in [Secrets -> {[c EXCEPT !.details = d.details, !.expires = d.expires] :
                                c, d \in Contents} \cup {Nil}]
    /\ place \in [Secrets -> Vaults \cup {Nil}]
    /\ owed \in 0..changes /\ due \in 0..owed /\ changes \in 0..2 * MaxChanges
    /\ failed \in BOOLEAN /\ armed \in BOOLEAN
    /\ ~(armed /\ busy)
    /\ filter \in Filters /\ limit \in Nat \ {0}
    /\ {chosen, picked} \subseteq {Nil} \cup Vaults /\ menu \subseteq Vaults
    /\ \A done \in {d \in {report, scan} : d.form # "none"} :
          /\ \A i \in DOMAIN done.rows : done.rows[i].findings \subseteq Findings
          /\ changes = 0 => IsInjective(RowsOf(done))
    /\ \A l \in Loaders : load[l].form # "none" => load[l].since \in 0..changes

\* What the report says of one entry, stated on the entries: long and varied
\* enough and hard to guess, shared with no other entry of the opened vaults.
Strong(text) ==
    /\ Estimate[text] >= 3
    /\ \/ Length[text] >= 14 /\ Cardinality(Classes[text]) >= 3
       \/ Length[text] >= 12 /\ Cardinality(Classes[text]) = 4
Shares(s, u) ==
    /\ s # u /\ held[s] # Nil /\ held[u] # Nil
    /\ Readable(held[s]) /\ Readable(held[u])
    /\ held[s].value.text = held[u].value.text
Within(vaults) == {s \in Secrets : held[s] # Nil /\ place[s] \in vaults}
Weak(s) == Readable(held[s]) /\ ~Strong(held[s].value.text)
Reused(s, vaults) == \E u \in Within(vaults) : Shares(s, u)

\* A report on screen whose changes were all followed is exact: each entry of
\* the opened vaults once, marked weak, reused, unreadable or expired exactly
\* when it is, grouped with the entries that share its password and no other,
\* and every vault opened or counted (analyze, invalidate).
ReportTrue ==
    report.form # "none" /\ owed = 0 =>
        /\ IsInjective(RowsOf(report)) /\ ToSet(RowsOf(report)) = Within(report.opened)
        /\ Cardinality(report.opened) + report.unavailable = Cardinality(Vaults)
        /\ \A i \in DOMAIN report.rows :
              LET row == report.rows[i] IN
              /\ "WeakPassword" \in row.findings <=> Weak(row.id)
              /\ "ReusedPassword" \in row.findings <=> Reused(row.id, report.opened)
              /\ "Unreadable" \in row.findings <=> Unreadable(held[row.id])
              /\ "Expired" \in row.findings <=> held[row.id].expires = "past"
              /\ row.group # Nil <=> Reused(row.id, report.opened)
              /\ \A j \in DOMAIN report.rows \ {i} :
                    row.group # Nil /\ row.group = report.rows[j].group
                        <=> Shares(row.id, report.rows[j].id)

\* The green shield is earned: with every change followed, all vaults could be
\* read, all passwords too, none is weak or shared, no date has passed or cannot
\* be read, and no address asks for attention (render_status, is_complete).
HealthyEarned ==
    Shield = "ok" /\ owed = 0 =>
        \A s \in Within(Vaults) :
            /\ held[s].kind = "Password" => Readable(held[s])
            /\ ~Weak(s) /\ ~Reused(s, Vaults)
            /\ held[s].expires \in {"none", "later"}
            /\ held[s].details.form \in {"none", "plain", "url"}
            /\ held[s].details.form = "url" =>
                  held[s].details.url.blank \/ held[s].details.url.scheme = "https"

\* A list read after the last change says of each entry of the vaults it could
\* open what the report would: weak, or shared inside what is listed, and its
\* badges count them (build_secret_row, duplicate_flags, apply_filters).  Lists read earlier may come later and
\* stay: nothing orders the answers.
ListTrue ==
    loaded.form # "none" /\ loaded.since = changes =>
        /\ IsInjective(RowsOf(loaded)) /\ ToSet(RowsOf(loaded)) = Within(loaded.opened)
        /\ \A i \in DOMAIN loaded.rows :
              LET row == loaded.rows[i] IN
              /\ row.is_weak <=> Weak(row.id)
              /\ row.is_duplicate <=> Reused(row.id, loaded.opened)
              /\ held[row.id].kind = "Password" => (row.has_secret <=> Readable(held[row.id]))
        /\ loaded.badges.weak = Cardinality({s \in Within(loaded.opened) : Weak(s)})
        /\ loaded.badges.non_compliant =
              Cardinality({s \in Within(loaded.opened) : Weak(s) \/ Reused(s, loaded.opened)})

\* With a report on the page, the vault the menu shows is the one the rows are
\* filtered by, and it has rows (set_report, the menu's handler).
MenuHonest ==
    report.form # "none" =>
        /\ picked = chosen
        /\ chosen # Nil => \E i \in DOMAIN report.rows : report.rows[i].vault = chosen

\* The two pages that judge the entries agree with the entries: the report, the
\* shield it earns and the menu above it, and the list with its badges.
PagesTrue == ReportTrue /\ HealthyEarned /\ MenuHonest /\ ListTrue

\* What the code says of groups: one on the page has all its members there.
GroupsWhole ==
    report.form # "none" /\ filter \in {"All", "Reused"} =>
        \A i \in ToSet(Visible(report)) : \A j \in DOMAIN report.rows :
            report.rows[i].group # Nil /\ report.rows[j].group = report.rows[i].group =>
                j \in ToSet(Visible(report))

=============================================================================
