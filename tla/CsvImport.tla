----------------------------- MODULE CsvImport -----------------------------
(***************************************************************************)
(* The import of a CSV file from the profile page: the chooser and the     *)
(* preview (profile_view/handlers/data.rs), the thread that parses the     *)
(* file and inserts its rows one by one (import_service.rs), the progress  *)
(* dialog its events feed (import_progress_dialog.rs), the count of        *)
(* critical operations, and the close request that waits for it            *)
(* (profile_view/core.rs, window/events.rs).  Several choosers may be open *)
(* at once, the file may change after its preview, rows and whole imports  *)
(* may fail, and the session may lock or end while an import runs.         *)
(*                                                                         *)
(* A row is what parsing makes of it; the files are a constant.  An export *)
(* is here only for its part of the count: it is in BackupRestore.         *)
(***************************************************************************)
EXTENDS Naturals, Sequences, FiniteSets

CONSTANTS Files,        \* contents a CSV file may have: [readable, rows]
          Jobs,         \* slots for choosers, imports and exports
          MAX_CSV_ROWS,
          Pending,      \* what the thread has not found yet
          MaxStarts,    \* bound on the operations the user starts
          MaxRewrites   \* bound on the changes of the file

ASSUME MaxRowsIsPositive == MAX_CSV_ROWS \in Nat \ {0}
ASSUME FilesHaveRows ==
    \A f \in Files : f.readable \in BOOLEAN
                     /\ f.rows \in Seq({"good", "unparsed", "columns", "field"})

VARIABLES
    csv,          \* the content of the file on disk
    window,       \* "open", "locked", or how the main window was left; open has the key
    critical,     \* critical_ops_in_flight
    buttons,      \* the import and export buttons are sensitive
    job,          \* each slot
    starts, rewrites

importVars == <<csv, window, critical, buttons, job, starts, rewrites>>

-----------------------------------------------------------------------------
(* Parsing. *)

\* Small enough, decoded, with the seven headers.
Readable(f) == f.readable

\* The reader stops at the limit and says nothing of the rows behind it.
Read(f) == 1..(IF Len(f.rows) < MAX_CSV_ROWS THEN Len(f.rows) ELSE MAX_CSV_ROWS)
\* The positions of the rows of some kinds, in their order.
Kept(f, kinds) ==
    LET at == {i \in Read(f) : f.rows[i] \in kinds}
    IN [n \in 1..Cardinality(at) |-> CHOOSE i \in at : Cardinality({k \in at : k <= i}) = n]

\* Rows without a name, a user name or a password, too long, or with another kind of URL.
Misfits == {"field"}
\* Rows the reader cannot split into the seven columns: the reject report lists them.
Rejected == {"unparsed", "columns"}
Good == {"good"}

parse_csv_rows(f) ==
    [total |-> Cardinality(Read(f)),
     rows |-> Kept(f, Good),
     failures |-> Kept(f, Misfits \cup Rejected),
     rejects |-> Kept(f, Rejected)]

-----------------------------------------------------------------------------
(* Jobs.  A job runs in a thread from its confirmation until its result is     *)
(* sent; its result waits for the main loop.                                   *)

Rest == [stage |-> "idle"]
Threads == {"parse", "report", "list", "rows", "export"}
Runs(j) == job[j].stage \in Threads
Counted(j) == Runs(j) \/ job[j].stage = "answer"
Preparing(total) == [processed |-> 0, total |-> total, imported |-> 0, failed |-> 0]

Becomes(j, x) == job' = [job EXCEPT ![j] = x]
Only(j, x) ==
    Becomes(j, x) /\ UNCHANGED <<csv, window, critical, buttons, starts, rewrites>>

begin_critical == critical' = critical + 1 /\ buttons' = FALSE
end_critical_AtOnce == critical' = 0 /\ buttons' = TRUE
end_critical ==
    /\ critical' = IF critical = 0 THEN 0 ELSE critical - 1
    /\ buttons' = IF critical <= 1 THEN TRUE ELSE buttons

-----------------------------------------------------------------------------
(* The profile page. *)

\* The chooser of an import, or the dialogs of an export, leave the page usable:
\* a second one may be opened.
OpenChooser(j) ==
    /\ window = "open" /\ buttons /\ starts < MaxStarts
    /\ job[j] = Rest
    /\ starts' = starts + 1
    /\ Becomes(j, [stage |-> "choosing"])
    /\ UNCHANGED <<csv, window, critical, buttons, rewrites>>

\* A file is chosen: nothing without the key, which is copied here and now; the
\* file is parsed once for the preview.  Else the job ends with a message.
Choose(j) ==
    /\ job[j].stage = "choosing"
    /\ Only(j, IF window = "open" /\ Readable(csv)
               THEN [stage |-> "preview", total |-> parse_csv_rows(csv).total]
               ELSE Rest)
CancelChooser(j) == job[j].stage \in {"choosing", "preview"} /\ Only(j, Rest)

\* Confirmed: the progress dialog and its timer start, the thread too.
Confirm(j) ==
    /\ job[j].stage = "preview"
    /\ begin_critical
    /\ Becomes(j, [stage |-> "parse", outcome |-> Pending, stored |-> <<>>, failed |-> <<>>,
                   events |-> <<>>, report |-> Pending,
                   dialog |-> Preparing(job[j].total)])
    /\ UNCHANGED <<csv, window, starts, rewrites>>

Export(j) ==
    /\ job[j].stage = "choosing"
    /\ begin_critical
    /\ Becomes(j, [stage |-> "export"])
    /\ UNCHANGED <<csv, window, starts, rewrites>>

-----------------------------------------------------------------------------
(* The thread of an import. *)

Event(processed, total, imported, failed) ==
    [processed |-> processed, total |-> total, imported |-> imported, failed |-> failed]
Answered(x, report) == [x EXCEPT !.stage = "answer", !.report = report]
Failed == [kind |-> "failed"]
Report(outcome, stored, failed) ==
    [kind |-> "report", total |-> outcome.total, imported |-> Len(stored), failed |-> Len(failed)]

\* The file is read again: what the preview counted may be gone.
Parse(j) ==
    /\ job[j].stage = "parse"
    /\ LET outcome == parse_csv_rows(csv)
           failed == Len(outcome.failures)
           started == [job[j] EXCEPT !.outcome = outcome, !.failed = outcome.failures,
                                     !.events = Append(@, Event(failed, outcome.total, 0, failed))]
       IN Only(j, IF ~Readable(csv) THEN Answered(job[j], Failed)
                  ELSE IF outcome.total = 0 THEN Answered(started, Report(outcome, <<>>, <<>>))
                  ELSE [started EXCEPT !.stage = "report"])

\* The reject report is written first: if it cannot be, no row is stored.
WriteRejectReport(j) ==
    /\ job[j].stage = "report"
    /\ \/ Only(j, [job[j] EXCEPT !.stage = "list"])
       \/ job[j].outcome.rejects # <<>> /\ Only(j, Answered(job[j], Failed))

\* The vault is found and opened with the copied key, or it is not.
OpenVault(j) ==
    /\ job[j].stage = "list"
    /\ \/ Only(j, [job[j] EXCEPT !.stage = "rows"])
       \/ Only(j, Answered(job[j], Failed))

\* One row is stored or fails, and its event is sent.
Position(x) == Len(x.stored) + Len(x.failed) - Len(x.outcome.failures) + 1
ImportRow_StopsAtFailure(j) ==
    /\ job[j].stage = "rows"
    /\ LET x == job[j]
           row == x.outcome.rows[Position(x)]
       IN /\ Position(x) <= Len(x.outcome.rows)
          /\ \/ Only(j, [x EXCEPT !.stored = Append(@, row)])
             \/ Only(j, Answered(x, Report(x.outcome, x.stored, x.failed)))
ImportRow(j) ==
    /\ job[j].stage = "rows"
    /\ LET x == job[j]
           row == x.outcome.rows[Position(x)]
           done == Position(x) + Len(x.outcome.failures)
           event(stored, failed) == Event(done, x.outcome.total, Len(stored), Len(failed))
       IN /\ Position(x) <= Len(x.outcome.rows)
          /\ \/ LET stored == Append(x.stored, row) IN
                Only(j, [x EXCEPT !.stored = stored,
                                  !.events = Append(@, event(stored, x.failed))])
             \/ LET failed == Append(x.failed, row) IN
                Only(j, [x EXCEPT !.failed = failed,
                                  !.events = Append(@, event(x.stored, failed))])
FinishRows(j) ==
    /\ job[j].stage = "rows"
    /\ Position(job[j]) > Len(job[j].outcome.rows)
    /\ Only(j, Answered(job[j], Report(job[j].outcome, job[j].stored, job[j].failed)))

FinishExport(j) ==
    /\ job[j].stage = "export"
    /\ Only(j, [stage |-> "answer"])

Thread(j) ==
    Parse(j) \/ WriteRejectReport(j) \/ OpenVault(j) \/ ImportRow(j) \/ FinishRows(j)
    \/ FinishExport(j)

-----------------------------------------------------------------------------
(* The main loop. *)

\* The timer shows the last event it finds and stops once the dialog was closed.
HasTimer(j) == "dialog" \in DOMAIN job[j]
Tick(j) ==
    /\ HasTimer(j)
    /\ LET x == job[j]
           last == x.events[Len(x.events)]
           shows == IF x.events = <<>> THEN x.dialog
                    ELSE last
           ends == x.stage = "over"
       IN /\ x.events # <<>> \/ ends
          /\ Only(j, IF ends THEN Rest ELSE [x EXCEPT !.events = <<>>, !.dialog = shows])

\* The result: the count first, then the dialog is closed and the outcome shown.
Answer(j) ==
    /\ job[j].stage = "answer"
    /\ end_critical
    /\ Becomes(j, IF "dialog" \in DOMAIN job[j]
                  THEN [job[j] EXCEPT !.stage = "over"] ELSE Rest)
    /\ UNCHANGED <<csv, window, starts, rewrites>>

\* A close request is put off while a critical operation runs; else it signs out.
Goes(to) == window' = to /\ UNCHANGED <<csv, critical, buttons, job, starts, rewrites>>
CloseRequest == window = "open" /\ critical = 0 /\ Goes("closed")

\* Signing out from the menu, and the automatic lock, do not ask.
SignOut == window = "open" /\ Goes("left")
Lock == window = "open" /\ Goes("locked")
Unlock == window = "locked" /\ Goes("open")

\* Another program rewrites the file.
Rewrite ==
    /\ rewrites < MaxRewrites /\ rewrites' = rewrites + 1
    /\ csv' \in Files \ {csv}
    /\ UNCHANGED <<window, critical, buttons, job, starts>>

ImportInit ==
    /\ csv \in Files
    /\ window = "open"
    /\ critical = 0 /\ buttons = TRUE
    /\ job = [j \in Jobs |-> Rest]
    /\ starts = 0 /\ rewrites = 0

ImportNext ==
    \/ CloseRequest \/ SignOut \/ Lock \/ Unlock \/ Rewrite
    \/ \E j \in Jobs :
        \/ OpenChooser(j) \/ Choose(j) \/ CancelChooser(j) \/ Confirm(j) \/ Export(j)
        \/ Thread(j) \/ Tick(j) \/ Answer(j)

\* A job whose thread, result or timer has something to do gets to do it.
ImportFairness == \A j \in Jobs : WF_importVars(Thread(j) \/ Answer(j) \/ Tick(j))
ImportSpec == ImportInit /\ [][ImportNext]_importVars /\ ImportFairness

-----------------------------------------------------------------------------
(* Properties. *)

\* What the summary says is what was done: every row read was stored once or is
\* listed among the failures, never both, in whatever order rows failed; and the
\* progress dialog never shows counts that do not add up.
Reported(j) == job[j].stage \in {"answer", "over"} /\ "report" \in DOMAIN job[j]
AddsUp ==
    \A j \in Jobs :
        /\ (Reported(j) /\ job[j].report # Failed) =>
             LET x == job[j]
                 stored == {x.stored[i] : i \in DOMAIN x.stored}
                 failed == {x.failed[i] : i \in DOMAIN x.failed}
             IN /\ x.report.imported + x.report.failed = x.report.total
                /\ x.report.imported = Cardinality(stored)
                /\ x.report.failed = Cardinality(failed)
                /\ stored \cap failed = {}
        /\ HasTimer(j) =>
             LET d == job[j].dialog IN
             d.processed <= d.total /\ d.processed = d.imported + d.failed

\* "Window close deferred because a critical operation is still running": a close
\* request never goes through while an import or an export of the window runs or
\* waits for its result, though several may run at once and end in any order.
CloseWaits ==
    [][(window = "open" /\ window' = "closed") => \A j \in Jobs : ~Counted(j)]_importVars

\* Every operation that runs ends: the buttons come back once nothing runs any
\* more, and no progress timer is left behind.
ImportEnds == (critical > 0) ~> (critical = 0 /\ buttons /\ \A j \in Jobs : ~HasTimer(j))

=============================================================================
