------------------------ MODULE BackupRestoreProofs ------------------------
(* Proofs about BackupRestore, for any databases, paths, phrases and stops   *)
(* of the process: what a restore and an export leave on the disk. Those     *)
(* about a restore hold for one thread of it at a time, those about an       *)
(* export for one of its: the code lets two run, and then they do not hold.  *)
EXTENDS BackupRestore, TLAPS

OneRestorer == \A r, q \in Restorers: r = q
OneExporter == \A e, f \in Exporters: e = f

----------------------------------------------------------------------------
(* Types.                                                                    *)

DatabaseFile == FileOf(Restorers, Body)
FileTypes == main \in DatabaseFile /\ old \in DatabaseFile /\ staged \in DatabaseFile
SnapType == snap \in FileOf(Exporters, Body)
PartialType == partial \in [Targets -> FileOf(Exporters, Backup \union {Torn})]
TargetType == backup \in [Targets -> Backup \union {None, Torn}]
ProcessTypes == up \in BOOLEAN /\ pool \in BOOLEAN /\ session \in BOOLEAN
ExpState == [stage: ExportStages, target: Targets \union {None},
             phrase: Phrases \union {None}, plain: Body \union {None}]
ResState == [stage: RestoreStages, target: Targets \union {None},
             phrase: Phrases \union {None}, password: Passwords \union {None},
             plain: Body \union {None}, holds: Restorers \union {None}]
ExpType == exp \in [Exporters -> ExpState]
ResType == res \in [Restorers -> ResState]
CountTypes ==
  /\ known \subseteq Phrases /\ lastData \in Nat
  /\ writes \in 0..MaxWrites /\ stops \in 0..MaxStops /\ failures \in 0..MaxFailures

\* A thread past these points has what its next steps use.
ExpCarry(x) ==
  /\ x.stage \notin {"idle", "load", "warn"} => x.phrase \in Phrases
  /\ x.stage # "idle" => x.target \in Targets
  /\ x.stage \in Holding => x.plain \in Body
ResCarry(x) ==
  /\ x.stage # "idle" =>
       x.target \in Targets /\ x.phrase \in Phrases /\ x.password \in Passwords
  /\ x.stage \notin {"idle", "clean", "read"} => x.plain \in Body
ExpCarries == \A e \in Exporters: ExpCarry(exp[e])
ResCarries == \A r \in Restorers: ResCarry(res[r])

Types ==
  /\ FileTypes /\ SnapType /\ PartialType /\ TargetType /\ ProcessTypes
  /\ ExpType /\ ResType /\ CountTypes /\ ExpCarries /\ ResCarries

LEMMA TypesAreTypeOK == Types => TypeOK
BY DEF Types, TypeOK, FileTypes, DatabaseFile, SnapType, PartialType, TargetType, ProcessTypes,
       ExpType, ResType, ExpState, ResState, CountTypes

LEMMA BodyFacts ==
  /\ Empty \notin Database /\ Torn \notin Database /\ Empty # Torn
  /\ Database \subseteq Body /\ Empty \in Body /\ Torn \in Body
BY BackupAssumption DEF Body

LEMMA FileFacts ==
  ASSUME NEW by \in Exporters \union Restorers \union {None}, NEW body \in Body \union Backup
  PROVE  File(by, body) # None /\ File(by, body).by = by /\ File(by, body).body = body
BY NoneIsNoFile DEF File

LEMMA DatabaseFileFacts ==
  /\ None \in DatabaseFile
  /\ \A by \in Restorers \union {None}, body \in Body:
       /\ File(by, body) \in DatabaseFile /\ File(by, body) # None
       /\ File(by, body).by = by /\ File(by, body).body = body
  /\ \A f \in DatabaseFile: f # None =>
       /\ f.by \in Restorers \union {None} /\ f.body \in Body
       /\ \A body \in Body: [f EXCEPT !.body = body] = File(f.by, body)
BY FileFacts DEF DatabaseFile, FileOf, File

LEMMA OrphanFacts ==
  ASSUME NEW f \in DatabaseFile
  PROVE  /\ Orphan(f) \in DatabaseFile
         /\ Orphan(f) = None <=> f = None
         /\ f # None => Orphan(f).by = None /\ Orphan(f).body = f.body
BY DatabaseFileFacts DEF Orphan

LEMMA AccountFacts ==
  ASSUME NEW n \in Nat, NEW pw \in Passwords, NEW f \in Formats, NEW ph \in Phrases \union {None},
         NEW seal \in Phrases \union {None}
  PROVE  /\ NewAccount(n, pw, ph, f) \in Database
         /\ NewAccount(n, pw, ph, f).data = n
         /\ [NewAccount(n, pw, ph, f) EXCEPT !.sealed = seal] \in Database
         /\ [NewAccount(n, pw, ph, f) EXCEPT !.sealed = seal].data = n
BY DEF NewAccount, Database

LEMMA DatabaseEdits ==
  ASSUME NEW db \in Database
  PROVE  /\ \A n \in Nat: [db EXCEPT !.data = n] \in Database
                          /\ [db EXCEPT !.data = n].data = n
                          /\ [db EXCEPT !.data = n].sealed = db.sealed
         /\ \A ph \in Phrases: /\ [db EXCEPT !.sealed = ph] \in Database
                               /\ [db EXCEPT !.sealed = ph].sealed = ph
                               /\ [db EXCEPT !.sealed = ph].data = db.data
                               /\ [db EXCEPT !.verifier = ph] \in Database
                               /\ [db EXCEPT !.verifier = ph].sealed = db.sealed
                               /\ [db EXCEPT !.verifier = ph].data = db.data
BY DEF Database

LEMMA ResetFacts ==
  ASSUME NEW body \in Body, NEW ph \in Phrases, NEW pw \in Passwords, CanReset(body, ph)
  PROVE  Reset(body, ph, pw) \in Database
BY BackupAssumption DEF CanReset, Reset, Database

----------------------------------------------------------------------------
(* The threads: what a step makes of the one that takes it.                  *)

ExpMoved(e, stage, target, phrase, plain) ==
  /\ exp' \in [Exporters -> ExpState]
  /\ \A f \in Exporters: f # e => exp'[f] = exp[f]
  /\ exp'[e].stage = stage /\ exp'[e].target = target
  /\ exp'[e].phrase = phrase /\ exp'[e].plain = plain
ResMoved(r, stage, target, phrase, password, plain, holds) ==
  /\ res' \in [Restorers -> ResState]
  /\ \A q \in Restorers: q # r => res'[q] = res[q]
  /\ res'[r].stage = stage /\ res'[r].target = target /\ res'[r].phrase = phrase
  /\ res'[r].password = password /\ res'[r].plain = plain /\ res'[r].holds = holds
ExpTurned(e, from, to) ==
  exp[e].stage = from /\ ExpMoved(e, to, exp[e].target, exp[e].phrase, exp[e].plain)
ResTurned(r, from, to) ==
  /\ res[r].stage = from
  /\ ResMoved(r, to, res[r].target, res[r].phrase, res[r].password, res[r].plain, res[r].holds)

LEMMA ExpFields ==
  ASSUME ExpType, NEW e \in Exporters
  PROVE  /\ exp[e].stage \in ExportStages /\ exp[e].target \in Targets \union {None}
         /\ exp[e].phrase \in Phrases \union {None} /\ exp[e].plain \in Body \union {None}
BY DEF ExpType, ExpState

LEMMA ExpCarriesOn ==
  ASSUME ExpCarries, NEW e \in Exporters, NEW stage, NEW target, NEW phrase, NEW plain,
         ExpMoved(e, stage, target, phrase, plain),
         stage \notin {"idle", "load", "warn"} => phrase \in Phrases,
         stage # "idle" => target \in Targets,
         stage \in Holding => plain \in Body
  PROVE  ExpType' /\ ExpCarries'
<1>1. ExpType'
  BY DEF ExpMoved, ExpType
<1>2. ASSUME NEW f \in Exporters PROVE ExpCarry(exp'[f])
  <2>1. CASE f = e
    BY <2>1 DEF ExpMoved, ExpCarry
  <2>2. CASE f # e
    <3>1. exp'[f] = exp[f] /\ ExpCarry(exp[f])
      BY <2>2 DEF ExpMoved, ExpCarries
    <3> QED
      BY <3>1, Zenon
  <2> QED
    BY <2>1, <2>2
<1> QED
  BY <1>1, <1>2 DEF ExpCarries

LEMMA ResCarriesOn ==
  ASSUME ResCarries, NEW r \in Restorers, NEW stage, NEW target, NEW phrase, NEW password,
         NEW plain, NEW holds, ResMoved(r, stage, target, phrase, password, plain, holds),
         stage # "idle" => target \in Targets /\ phrase \in Phrases /\ password \in Passwords,
         stage \notin {"idle", "clean", "read"} => plain \in Body
  PROVE  ResType' /\ ResCarries'
<1>1. ResType'
  BY DEF ResMoved, ResType
<1>2. ASSUME NEW q \in Restorers PROVE ResCarry(res'[q])
  <2>1. CASE q = r
    BY <2>1 DEF ResMoved, ResCarry
  <2>2. CASE q # r
    <3>1. res'[q] = res[q] /\ ResCarry(res[q])
      BY <2>2 DEF ResMoved, ResCarries
    <3> QED
      BY <3>1, Zenon
  <2> QED
    BY <2>1, <2>2
<1> QED
  BY <1>1, <1>2 DEF ResCarries

LEMMA ExportTurns ==
  ASSUME ExpType, NEW e \in Exporters, NEW from, NEW to \in ExportStages, ExportStep(e, from, to)
  PROVE  ExpTurned(e, from, to)
BY DEF ExpType, ExpState, ExportStep, ExpMoved, ExpTurned

LEMMA RestoreTurns ==
  ASSUME ResType, NEW r \in Restorers, NEW from, NEW to \in RestoreStages,
         RestoreStep(r, from, to)
  PROVE  ResTurned(r, from, to)
BY DEF ResType, ResState, RestoreStep, ResMoved, ResTurned

\* The steps of an export that do more to its thread than turn its stage.
LEMMA ExportMoves ==
  ASSUME ExpType, NEW e \in Exporters
  PROVE  /\ \A d \in Targets: ChooseTarget(e, d) =>
              exp[e].stage = "idle" /\ ExpMoved(e, "load", d, None, None)
         /\ LoadVerifier(e) =>
              \E to \in {"warn", "reentry"}, ph \in Phrases \union {None}:
                /\ exp[e].stage = "load" /\ (to = "reentry" => ph # None)
                /\ ExpMoved(e, to, exp[e].target, ph, exp[e].plain)
         /\ \A ph \in Phrases: Reenter(e, ph) =>
              /\ exp[e].stage = "reentry"
              /\ \/ ph = exp[e].phrase /\ ph \in known /\ ExpTurned(e, "reentry", "seal")
                 \/ ExpMoved(e, "idle", None, None, None)
         /\ \A ph \in Phrases: SealNewPhrase(e, ph) =>
              exp[e].stage = "warn" /\ ExpMoved(e, "verifier", exp[e].target, ph, exp[e].plain)
         /\ BeginSnapshot(e) /\ main.body \in Body =>
              /\ exp[e].stage = "snapshot"
              /\ ExpMoved(e, "copy", exp[e].target, exp[e].phrase, main.body)
         /\ ReadSnapshot(e) /\ snap.body \in Body =>
              /\ exp[e].stage = "read"
              /\ ExpMoved(e, "partial", exp[e].target, exp[e].phrase, snap.body)
         /\ CancelExport(e) \/ CheckBackup(e) \/ ExportFails(e) =>
              exp[e].stage # "idle" /\ ExpMoved(e, "idle", None, None, None)
<1> USE DEF ExpType, ExpState, ExpMoved
<1>1. ASSUME NEW d \in Targets, ChooseTarget(e, d)
      PROVE  exp[e].stage = "idle" /\ ExpMoved(e, "load", d, None, None)
  BY <1>1 DEF ChooseTarget, IdleExport, ExportStages
<1>2. ASSUME LoadVerifier(e)
      PROVE  \E to \in {"warn", "reentry"}, ph \in Phrases \union {None}:
               /\ exp[e].stage = "load" /\ (to = "reentry" => ph # None)
               /\ ExpMoved(e, to, exp[e].target, ph, exp[e].plain)
  <2> DEFINE ph == main.body.verifier
             to == IF ph = None THEN "warn" ELSE "reentry"
  <2>1. ph \in Phrases \union {None}
    BY <1>2 DEF LoadVerifier, Served, Database
  <2>2. exp[e].stage = "load" /\ exp' = [exp EXCEPT ![e].stage = to, ![e].phrase = ph]
    BY <1>2 DEF LoadVerifier
  <2>3. to \in {"warn", "reentry"} /\ (to = "reentry" => ph # None)
    OBVIOUS
  <2> HIDE DEF ph, to
  <2>4. ExpMoved(e, to, exp[e].target, ph, exp[e].plain)
    BY <2>1, <2>2, <2>3 DEF ExportStages
  <2> QED
    BY <2>1, <2>2, <2>3, <2>4
<1>3. ASSUME NEW ph \in Phrases, Reenter(e, ph)
      PROVE  /\ exp[e].stage = "reentry"
             /\ \/ ph = exp[e].phrase /\ ph \in known /\ ExpTurned(e, "reentry", "seal")
                \/ ExpMoved(e, "idle", None, None, None)
  BY <1>3 DEF Reenter, IdleExport, ExportStages, ExpTurned
<1>4. ASSUME NEW ph \in Phrases, SealNewPhrase(e, ph)
      PROVE  exp[e].stage = "warn" /\ ExpMoved(e, "verifier", exp[e].target, ph, exp[e].plain)
  BY <1>4 DEF SealNewPhrase, ExportStages
<1>5. ASSUME BeginSnapshot(e), main.body \in Body
      PROVE  /\ exp[e].stage = "snapshot"
             /\ ExpMoved(e, "copy", exp[e].target, exp[e].phrase, main.body)
  BY <1>5 DEF BeginSnapshot, ExportStages, Holding
<1>6. ASSUME ReadSnapshot(e), snap.body \in Body
      PROVE  /\ exp[e].stage = "read"
             /\ ExpMoved(e, "partial", exp[e].target, exp[e].phrase, snap.body)
  BY <1>6 DEF ReadSnapshot, ExportStages, Holding
<1>7. ASSUME CancelExport(e) \/ CheckBackup(e) \/ ExportFails(e)
      PROVE  exp[e].stage # "idle" /\ ExpMoved(e, "idle", None, None, None)
  BY <1>7 DEF CancelExport, CheckBackup, ExportFails, IdleExport, ExportStages, Holding
<1> HIDE DEF ExpType, ExpState, ExpMoved
<1> QED
  BY <1>1, <1>2, <1>3, <1>4, <1>5, <1>6, <1>7

\* The same of a restore.
LEMMA RestoreMoves ==
  ASSUME ResType, NEW r \in Restorers
  PROVE  /\ \A d \in Targets, ph \in Phrases, pw \in Passwords: Submit(r, d, ph, pw) =>
              res[r].stage = "idle" /\ ResMoved(r, "clean", d, ph, pw, None, None)
         /\ ReadBackup(r) =>
              LET x == res[r] IN
              /\ x.stage = "read"
              /\ ResMoved(r, "create", x.target, x.phrase, x.password, backup[x.target].body,
                          x.holds)
              /\ backup[x.target].body \in Body
         /\ OpenStaged(r) /\ staged \in DatabaseFile =>
              LET x == res[r] IN
              /\ x.stage = "open"
              /\ ResMoved(r, "reset", x.target, x.phrase, x.password, staged.body, staged.by)
         /\ PlaceFails(r) \/ RestoreFails(r) =>
              res[r].stage # "idle" /\ ResMoved(r, "idle", None, None, None, None, None)
<1> USE DEF ResType, ResState, ResMoved
<1>1. ASSUME NEW d \in Targets, NEW ph \in Phrases, NEW pw \in Passwords, Submit(r, d, ph, pw)
      PROVE  res[r].stage = "idle" /\ ResMoved(r, "clean", d, ph, pw, None, None)
  BY <1>1 DEF Submit, IdleRestore, RestoreStages
<1>2. ASSUME ReadBackup(r)
      PROVE  LET x == res[r] IN
             /\ x.stage = "read"
             /\ ResMoved(r, "create", x.target, x.phrase, x.password, backup[x.target].body,
                         x.holds)
             /\ backup[x.target].body \in Body
  <2>1. backup[res[r].target].body \in Body
    BY <1>2 DEF ReadBackup, Opens, Backup, Body
  <2> QED
    BY <1>2, <2>1 DEF ReadBackup, RestoreStages
<1>3. ASSUME OpenStaged(r), staged \in DatabaseFile
      PROVE  LET x == res[r] IN
             /\ x.stage = "open"
             /\ ResMoved(r, "reset", x.target, x.phrase, x.password, staged.body, staged.by)
  <2>1. staged.body \in Body /\ staged.by \in Restorers \union {None}
    BY <1>3, DatabaseFileFacts DEF OpenStaged, Readable
  <2> QED
    BY ZenonT(60), <1>3, <2>1 DEF OpenStaged, RestoreStages
<1>4. ASSUME PlaceFails(r) \/ RestoreFails(r)
      PROVE  res[r].stage # "idle" /\ ResMoved(r, "idle", None, None, None, None, None)
  BY <1>4 DEF PlaceFails, RestoreFails, IdleRestore, RestoreStages
<1> HIDE DEF ResType, ResState, ResMoved
<1> QED
  BY <1>1, <1>2, <1>3, <1>4

----------------------------------------------------------------------------
(* The invariants.                                                           *)

Closing == {"drop", "rotate", "place", "done"}
Placing == \E r \in Restorers: res[r].stage = "place"
Done == \E r \in Restorers: res[r].stage = "done"

\* The process: a stopped one has no thread; with its pool open, the database has
\* its name and is nobody's; what a restore holds open is a file a restore created.
ProcessInv ==
  /\ ~up => /\ ~pool /\ ~session
            /\ \A e \in Exporters: exp[e].stage = "idle"
            /\ \A r \in Restorers: res[r].stage = "idle"
  /\ \A r \in Restorers: res[r].stage \in Closing => ~pool
  /\ pool => main # None /\ main.by = None
  /\ \A r \in Restorers: res[r].stage \notin {"idle", "clean"} /\ staged # None => staged.by # None
  /\ \A r \in Restorers: res[r].stage \in {"reset", "close"} => res[r].holds # None

\* A session, or an export, is of a database with an account.
InAccount ==
  pool /\ (session \/ \E e \in Exporters: exp[e].stage # "idle") => main.body \in Database

General == Types /\ ProcessInv /\ InAccount

\* What the thread of an export has in hand can be restored with its phrase.
ExpGood(e) ==
  LET x == exp[e] IN
  /\ x.stage \in {"saved", "seal", "snapshot"} \union Holding => x.phrase \in known
  /\ x.stage = "snapshot" /\ pool => main.body.sealed = x.phrase
  /\ x.stage \in Holding => CanReset(x.plain, x.phrase)
  /\ x.stage = "copy" => snap # None /\ snap.by = e
  /\ x.stage = "read" => snap # None /\ snap.body = x.plain
  /\ x.stage = "fill" => partial[x.target] # None /\ partial[x.target].by = e
  /\ x.stage \in {"clear", "place"} =>
       partial[x.target] # None
       /\ partial[x.target].body = [phrase |-> x.phrase, body |-> x.plain]

ExportInv == (\A e \in Exporters: ExpGood(e)) /\ BackupRestorable

\* One restore at a time: the file it prepares is its own until it has the name.
ResGood(r) ==
  LET x == res[r] IN
  /\ x.stage \in {"fill", "open"} => staged # None /\ staged.by = r
  /\ x.stage = "reset" => /\ staged # None /\ staged.by = r /\ x.holds = r
                          /\ staged.body = x.plain /\ x.plain # Torn
  /\ x.stage \in {"close", "drop", "rotate", "place", "done"} => CanReset(x.plain, x.phrase)
  /\ x.stage \in {"close", "drop", "rotate", "place"} =>
       staged # None /\ staged.body = Reset(x.plain, x.phrase, x.password)
  /\ x.stage = "place" => main = None
  /\ x.stage = "done" => main # None /\ main.body = Reset(x.plain, x.phrase, x.password)
  /\ x.stage \in {"place", "done"} =>
       old # None /\ (old.body \in Database => old.body.data = lastData)

RestoreInv ==
  /\ up /\ ~Done /\ main # None => main.by = None
  /\ up /\ old # None => old.by = None
  /\ up /\ ~Placing => main # None
  /\ ServedIsWhole
  /\ up /\ ~Done /\ main # None => (main.body \in Database => main.body.data = lastData)
  /\ \A r \in Restorers: ResGood(r)

----------------------------------------------------------------------------
(* The database under its name.                                              *)

\* What a step of an export leaves of it: at most another seal or verifier.
Resealed ==
  \/ main' = main
  \/ /\ pool /\ main # None /\ main.body \in Database
     /\ main' \in DatabaseFile /\ main' # None /\ main'.by = main.by
     /\ main'.body \in Database /\ main'.body.data = main.body.data

LEMMA BodyEdits ==
  ASSUME FileTypes, main # None, main.body \in Database, NEW file,
         \/ \E ph \in Phrases: file = [main EXCEPT !.body.sealed = ph]
         \/ \E ph \in Phrases: file = [main EXCEPT !.body.verifier = ph]
         \/ \E n \in Nat: file = [main EXCEPT !.body.data = n]
  PROVE  /\ file \in DatabaseFile /\ file # None /\ file.by = main.by /\ file.body \in Database
         /\ \A ph \in Phrases: file = [main EXCEPT !.body.sealed = ph] =>
              file.body.sealed = ph /\ file.body.data = main.body.data
         /\ \A ph \in Phrases: file = [main EXCEPT !.body.verifier = ph] =>
              file.body.sealed = main.body.sealed /\ file.body.data = main.body.data
         /\ \A n \in Nat: file = [main EXCEPT !.body.data = n] =>
              file.body.sealed = main.body.sealed /\ file.body.data = n
<1>1. main \in [by: Restorers \union {None}, body: Body]
  BY DEF FileTypes, DatabaseFile, FileOf
<1>2. \A db \in Database: [main EXCEPT !.body = db] = File(main.by, db)
  BY <1>1, DatabaseFileFacts, BodyFacts DEF FileTypes
<1> DEFINE Edited(db) == file = File(main.by, db)
<1>3. \A ph \in Phrases: file = [main EXCEPT !.body.sealed = ph] =>
        Edited([main.body EXCEPT !.sealed = ph])
  BY <1>1, <1>2, DatabaseEdits
<1>4. \A ph \in Phrases: file = [main EXCEPT !.body.verifier = ph] =>
        Edited([main.body EXCEPT !.verifier = ph])
  BY <1>1, <1>2, DatabaseEdits
<1>5. \A n \in Nat: file = [main EXCEPT !.body.data = n] =>
        Edited([main.body EXCEPT !.data = n])
  BY <1>1, <1>2, DatabaseEdits
<1>6. \A db \in Database: Edited(db) =>
        /\ file \in DatabaseFile /\ file # None /\ file.by = main.by /\ file.body = db
  BY <1>1, DatabaseFileFacts, BodyFacts
<1>7. ASSUME NEW ph \in Phrases
      PROVE  /\ [main.body EXCEPT !.sealed = ph] \in Database
             /\ [main.body EXCEPT !.sealed = ph].sealed = ph
             /\ [main.body EXCEPT !.sealed = ph].data = main.body.data
             /\ [main.body EXCEPT !.verifier = ph] \in Database
             /\ [main.body EXCEPT !.verifier = ph].sealed = main.body.sealed
             /\ [main.body EXCEPT !.verifier = ph].data = main.body.data
  BY DatabaseEdits
<1>8. ASSUME NEW n \in Nat
      PROVE  /\ [main.body EXCEPT !.data = n] \in Database
             /\ [main.body EXCEPT !.data = n].sealed = main.body.sealed
             /\ [main.body EXCEPT !.data = n].data = n
  BY DatabaseEdits
<1> HIDE DEF Edited
<1>9. \E db \in Database: Edited(db)
  <2>1. CASE \E ph \in Phrases: file = [main EXCEPT !.body.sealed = ph]
    BY <2>1, <1>3, <1>7
  <2>2. CASE \E ph \in Phrases: file = [main EXCEPT !.body.verifier = ph]
    BY <2>2, <1>4, <1>7
  <2>3. CASE \E n \in Nat: file = [main EXCEPT !.body.data = n]
    BY <2>3, <1>5, <1>8
  <2> QED
    BY <2>1, <2>2, <2>3
<1>10. ASSUME NEW ph \in Phrases, file = [main EXCEPT !.body.sealed = ph]
       PROVE  file.body.sealed = ph /\ file.body.data = main.body.data
  BY <1>10, <1>3, <1>6, <1>7
<1>11. ASSUME NEW ph \in Phrases, file = [main EXCEPT !.body.verifier = ph]
       PROVE  file.body.sealed = main.body.sealed /\ file.body.data = main.body.data
  BY <1>11, <1>4, <1>6, <1>7
<1>12. ASSUME NEW n \in Nat, file = [main EXCEPT !.body.data = n]
       PROVE  file.body.sealed = main.body.sealed /\ file.body.data = n
  BY ZenonT(60), <1>12, <1>5, <1>6, <1>8
<1>13. /\ file \in DatabaseFile /\ file # None /\ file.by = main.by /\ file.body \in Database
  BY <1>6, <1>9
<1> QED
  BY <1>10, <1>11, <1>12, <1>13

----------------------------------------------------------------------------
(* A step of an export.                                                      *)

\* What it leaves alone, and to whom.
Exported(e) ==
  /\ UNCHANGED <<old, staged, up, pool, session, res, lastData, writes, stops>>
  /\ Resealed
  /\ known \subseteq known'
  /\ exp[e].stage # "idle" \/ session
  /\ \A f \in Exporters: f # e => exp'[f] = exp[f]

LEMMA ExportThreads ==
  ASSUME Types, NEW e \in Exporters, Export(e)
  PROVE  /\ ExpType' /\ ExpCarries'
         /\ exp[e].stage # "idle" \/ session
         /\ \A f \in Exporters: f # e => exp'[f] = exp[f]
<1>1. /\ ExpType /\ ExpCarries /\ ExpCarry(exp[e])
      /\ main # None => main.body \in Body
      /\ snap # None => snap.body \in Body
  BY DatabaseFileFacts, FileFacts DEF Types, ExpCarries, FileTypes, SnapType, FileOf
<1> DEFINE Goal == /\ ExpType' /\ ExpCarries'
                   /\ exp[e].stage # "idle" \/ session
                   /\ \A f \in Exporters: f # e => exp'[f] = exp[f]
<1>2. ASSUME NEW stage, NEW target, NEW phrase, NEW plain,
             ExpMoved(e, stage, target, phrase, plain),
             stage \notin {"idle", "load", "warn"} => phrase \in Phrases,
             stage # "idle" => target \in Targets,
             stage \in Holding => plain \in Body,
             exp[e].stage # "idle" \/ session
      PROVE  Goal
  BY <1>1, <1>2, ExpCarriesOn DEF ExpMoved
<1>3. ASSUME NEW from, NEW to \in ExportStages, ExportStep(e, from, to),
             from # "idle", from \in {"load", "warn"} => to \in {"idle", "load", "warn"},
             to \in Holding => from \in Holding
      PROVE  Goal
  <2>1. /\ exp[e].stage = from
        /\ ExpMoved(e, to, exp[e].target, exp[e].phrase, exp[e].plain)
    BY <1>1, <1>3, ExportTurns DEF ExpTurned
  <2> QED
    BY <1>1, <1>2, <1>3, <2>1 DEF ExpCarry
<1>4. ASSUME NEW d \in Targets, ChooseTarget(e, d) PROVE Goal
  <2>1. session /\ ExpMoved(e, "load", d, None, None)
    BY <1>1, <1>4, ExportMoves DEF ChooseTarget
  <2> QED
    BY <1>2, <2>1 DEF Holding
<1>5. CASE LoadVerifier(e)
  <2>1. PICK to \in {"warn", "reentry"}, ph \in Phrases \union {None}:
          /\ exp[e].stage = "load" /\ (to = "reentry" => ph # None)
          /\ ExpMoved(e, to, exp[e].target, ph, exp[e].plain)
    BY <1>1, <1>5, ExportMoves
  <2> QED
    BY <1>1, <1>2, <2>1 DEF ExpCarry, Holding
<1>6. ASSUME NEW ph \in Phrases, Reenter(e, ph) PROVE Goal
  <2>1. /\ exp[e].stage = "reentry"
        /\ \/ ExpTurned(e, "reentry", "seal") \/ ExpMoved(e, "idle", None, None, None)
    BY <1>1, <1>6, ExportMoves
  <2>2. CASE ExpTurned(e, "reentry", "seal")
    BY <1>1, <1>2, <2>1, <2>2 DEF ExpTurned, ExpCarry, Holding
  <2>3. CASE ExpMoved(e, "idle", None, None, None)
    BY <1>2, <2>1, <2>3 DEF Holding
  <2> QED
    BY <2>1, <2>2, <2>3
<1>7. ASSUME NEW ph \in FreshPhrases, SealNewPhrase(e, ph) PROVE Goal
  <2>1. exp[e].stage = "warn" /\ ExpMoved(e, "verifier", exp[e].target, ph, exp[e].plain)
        /\ ph \in Phrases
    BY <1>1, <1>7, ExportMoves DEF FreshPhrases
  <2> QED
    BY <1>1, <1>2, <2>1 DEF ExpCarry, Holding
<1>8. CASE BeginSnapshot(e)
  <2>1. exp[e].stage = "snapshot" /\ main.body \in Body
        /\ ExpMoved(e, "copy", exp[e].target, exp[e].phrase, main.body)
    BY <1>1, <1>8, ExportMoves DEF BeginSnapshot, Served
  <2> QED
    BY <1>1, <1>2, <2>1 DEF ExpCarry
<1>9. CASE ReadSnapshot(e)
  <2>1. exp[e].stage = "read" /\ snap.body \in Body
        /\ ExpMoved(e, "partial", exp[e].target, exp[e].phrase, snap.body)
    BY <1>1, <1>9, ExportMoves DEF ReadSnapshot
  <2> QED
    BY <1>1, <1>2, <2>1 DEF ExpCarry
<1>10. CASE CancelExport(e) \/ CheckBackup(e) \/ ExportFails(e)
  <2>1. exp[e].stage # "idle" /\ ExpMoved(e, "idle", None, None, None)
    BY <1>1, <1>10, ExportMoves
  <2> QED
    BY <1>2, <2>1 DEF Holding
<1>11. CASE \/ StoreVerifier(e) \/ SavePhrase(e) \/ ConfirmNewKey(e) \/ Seal(e)
            \/ EndSnapshot(e) \/ CreatePartial(e) \/ FillPartial(e) \/ ClearTarget(e)
            \/ PlaceBackup(e)
  BY <1>3, <1>11 DEF StoreVerifier, SavePhrase, ConfirmNewKey, Seal, EndSnapshot, CreatePartial,
     FillPartial, ClearTarget, PlaceBackup, ExportStages, Holding
<1> QED
  BY <1>4, <1>5, <1>6, <1>7, <1>8, <1>9, <1>10, <1>11 DEF Export

LEMMA ExportFiles ==
  ASSUME Types, ProcessInv, NEW e \in Exporters, Export(e)
  PROVE  Resealed /\ FileTypes' /\ SnapType' /\ PartialType' /\ TargetType'
<1> USE DEF Types
<1>1. /\ exp[e].target \in Targets \union {None} /\ exp[e].phrase \in Phrases \union {None}
      /\ exp[e].plain \in Body \union {None}
      /\ exp[e].stage \notin {"idle", "load", "warn"} => exp[e].phrase \in Phrases
      /\ exp[e].stage # "idle" => exp[e].target \in Targets
      /\ exp[e].stage \in Holding => exp[e].plain \in Body
  BY ExpFields DEF ExpCarries, ExpCarry
<1>2. /\ old' = old /\ staged' = staged /\ pool' = pool
  BY DEF Export, ChooseTarget, LoadVerifier, CancelExport, Reenter, SealNewPhrase, StoreVerifier,
     SavePhrase, ConfirmNewKey, Seal, BeginSnapshot, EndSnapshot, ReadSnapshot, CreatePartial,
     FillPartial, ClearTarget, PlaceBackup, CheckBackup, ExportFails, RestOfExport, files, process
<1>3. Resealed /\ main' \in DatabaseFile
  <2>1. CASE main' = main
    BY <2>1 DEF Resealed, FileTypes
  <2>2. CASE \/ \E ph \in FreshPhrases: SealNewPhrase(e, ph)
             \/ StoreVerifier(e) \/ Seal(e)
    <3>1. /\ pool /\ main # None /\ main.body \in Database
          /\ \/ \E ph \in Phrases: main' = [main EXCEPT !.body.sealed = ph]
             \/ \E ph \in Phrases: main' = [main EXCEPT !.body.verifier = ph]
      BY <1>1, <2>2 DEF SealNewPhrase, StoreVerifier, Seal, Served, ExportStep, FreshPhrases
    <3> QED
      BY <3>1, BodyEdits DEF Resealed
  <2>3. CASE ~ \/ \E ph \in FreshPhrases: SealNewPhrase(e, ph)
               \/ StoreVerifier(e) \/ Seal(e)
    <3>1. main' = main
      BY <2>3 DEF Export, ChooseTarget, LoadVerifier, CancelExport, Reenter, SavePhrase,
         ConfirmNewKey, BeginSnapshot, EndSnapshot, ReadSnapshot, CreatePartial, FillPartial,
         ClearTarget, PlaceBackup, CheckBackup, ExportFails, files
    <3> QED
      BY <2>1, <3>1
  <2> QED
    BY <2>2, <2>3
<1>4. SnapType'
  <2>1. CASE snap' \in {snap, None}
    BY <2>1 DEF SnapType, FileOf
  <2>2. CASE BeginSnapshot(e)
    BY <2>2, BodyFacts DEF BeginSnapshot, SnapType, FileOf, File
  <2>3. CASE EndSnapshot(e)
    BY <1>1, <2>3 DEF EndSnapshot, ExportStep, Holding, SnapType, FileOf, File, Through
  <2>4. CASE ~BeginSnapshot(e) /\ ~EndSnapshot(e)
    <3>1. snap' \in {snap, None}
      BY <2>4 DEF Export, ChooseTarget, LoadVerifier, CancelExport, Reenter, SealNewPhrase,
         StoreVerifier, SavePhrase, ConfirmNewKey, Seal, ReadSnapshot, CreatePartial,
         FillPartial, ClearTarget, PlaceBackup, CheckBackup, ExportFails
    <3> QED
      BY <2>1, <3>1
  <2> QED
    BY <2>2, <2>3, <2>4
<1>5. PartialType'
  <2>1. CASE partial' = partial
    BY <2>1 DEF PartialType
  <2>2. ASSUME NEW d \in Targets, NEW file \in FileOf(Exporters, Backup \union {Torn}),
               partial' = [partial EXCEPT ![d] = file]
        PROVE  PartialType'
    BY <2>2 DEF PartialType
  <2>3. /\ None \in FileOf(Exporters, Backup \union {Torn})
        /\ File(e, Torn) \in FileOf(Exporters, Backup \union {Torn})
    BY DEF FileOf, File
  <2>4. CASE CreatePartial(e)
    BY <1>1, <2>2, <2>3, <2>4 DEF CreatePartial, ExportStep
  <2>5. CASE FillPartial(e)
    <3> DEFINE d == exp[e].target
               file == Through(partial[d], e, [phrase |-> exp[e].phrase, body |-> exp[e].plain])
    <3>1. d \in Targets /\ exp[e].phrase \in Phrases /\ exp[e].plain \in Body
          /\ partial' = [partial EXCEPT ![d] = file]
      BY <1>1, <2>5 DEF FillPartial, ExportStep, Holding
    <3>2. file \in FileOf(Exporters, Backup \union {Torn})
      BY <3>1 DEF Through, File, FileOf, PartialType, Backup, Body
    <3> QED
      BY <2>2, <3>1, <3>2
  <2>6. CASE PlaceBackup(e)
    BY <1>1, <2>2, <2>3, <2>6 DEF PlaceBackup, ExportStep
  <2>7. CASE ExportFails(e)
    BY <1>1, <2>1, <2>2, <2>3, <2>7 DEF ExportFails
  <2>8. CASE ~CreatePartial(e) /\ ~FillPartial(e) /\ ~PlaceBackup(e) /\ ~ExportFails(e)
    <3>1. partial' = partial
      BY <2>8 DEF Export, ChooseTarget, LoadVerifier, CancelExport, Reenter, SealNewPhrase,
         StoreVerifier, SavePhrase, ConfirmNewKey, Seal, BeginSnapshot, EndSnapshot, ReadSnapshot,
         ClearTarget, CheckBackup
    <3> QED
      BY <2>1, <3>1
  <2> QED
    BY <2>4, <2>5, <2>6, <2>7, <2>8
<1>6. TargetType'
  <2>1. ASSUME NEW d \in Targets, NEW file \in Backup \union {None, Torn},
               backup' = [backup EXCEPT ![d] = file]
        PROVE  TargetType'
    BY <2>1 DEF TargetType
  <2>2. CASE ClearTarget(e)
    BY <1>1, <2>1, <2>2 DEF ClearTarget, ExportStep
  <2>3. CASE PlaceBackup(e)
    <3> DEFINE d == exp[e].target
    <3>1. d \in Targets /\ partial[d] # None /\ backup' = [backup EXCEPT ![d] = partial[d].body]
      BY <1>1, <2>3 DEF PlaceBackup, ExportStep
    <3>2. partial[d].body \in Backup \union {Torn}
      BY <3>1 DEF PartialType, FileOf
    <3> QED
      BY <2>1, <3>1, <3>2
  <2>4. CASE CheckBackup(e)
    <3> DEFINE d == exp[e].target
    <3>1. /\ d \in Targets
          /\ \E file \in {None, backup[d]}: backup' = [backup EXCEPT ![d] = file]
      BY <1>1, <2>4 DEF CheckBackup
    <3>2. backup[d] \in Backup \union {None, Torn}
      BY <3>1 DEF TargetType
    <3> QED
      BY <2>1, <3>1, <3>2
  <2>5. CASE ~ClearTarget(e) /\ ~PlaceBackup(e) /\ ~CheckBackup(e)
    <3>1. backup' = backup
      BY <2>5 DEF Export, ChooseTarget, LoadVerifier, CancelExport, Reenter, SealNewPhrase,
         StoreVerifier, SavePhrase, ConfirmNewKey, Seal, BeginSnapshot, EndSnapshot, ReadSnapshot,
         CreatePartial, FillPartial, ExportFails
    <3> QED
      BY <3>1 DEF TargetType
  <2> QED
    BY <2>2, <2>3, <2>4, <2>5
<1> QED
  BY <1>2, <1>3, <1>4, <1>5, <1>6 DEF FileTypes

LEMMA ExportKeeps ==
  ASSUME Types, ProcessInv, NEW e \in Exporters, Export(e)
  PROVE  Types' /\ Exported(e)
<1>1. /\ UNCHANGED <<old, staged, up, pool, session, res, lastData, writes, stops>>
      /\ failures' \in 0..MaxFailures
  <2>1. CASE ExportFails(e)
    <3>1. failures \in 0..MaxFailures /\ MaxFailures \in Nat
      BY BackupAssumption DEF Types, CountTypes
    <3>2. failures' \in 0..MaxFailures
      BY <2>1, <3>1 DEF ExportFails
    <3> QED
      BY <2>1, <3>2 DEF ExportFails, files, process
  <2>2. CASE ~ExportFails(e)
    <3>1. UNCHANGED RestOfExport
      BY <2>2 DEF Export, ChooseTarget, LoadVerifier, CancelExport, Reenter, SealNewPhrase,
         StoreVerifier, SavePhrase, ConfirmNewKey, Seal, BeginSnapshot, EndSnapshot, ReadSnapshot,
         CreatePartial, FillPartial, ClearTarget, PlaceBackup, CheckBackup
    <3> QED
      BY <3>1 DEF RestOfExport, process, counts, Types, CountTypes
  <2> QED
    BY <2>1, <2>2
<1>2. known \subseteq known' /\ known' \subseteq Phrases
  <2>1. CASE SavePhrase(e)
    <3>1. known' = known \union {exp[e].phrase} /\ exp[e].phrase \in Phrases
      BY <2>1 DEF SavePhrase, ExportStep, Types, ExpCarries, ExpCarry
    <3> QED
      BY <3>1 DEF Types, CountTypes
  <2>2. CASE ~SavePhrase(e)
    BY <2>2 DEF Export, ChooseTarget, LoadVerifier, CancelExport, Reenter, SealNewPhrase,
       StoreVerifier, ConfirmNewKey, Seal, BeginSnapshot, EndSnapshot, ReadSnapshot,
       CreatePartial, FillPartial, ClearTarget, PlaceBackup, CheckBackup, ExportFails,
       Types, CountTypes
  <2> QED
    BY <2>1, <2>2
<1>3. Exported(e)
  BY <1>1, <1>2, ExportThreads, ExportFiles DEF Exported
<1>4. ProcessTypes' /\ ResType' /\ ResCarries' /\ CountTypes'
  BY <1>1, <1>2 DEF Types, ProcessTypes, ResType, ResCarries, CountTypes
<1>5. ExpType' /\ ExpCarries'
  BY ExportThreads
<1>6. FileTypes' /\ SnapType' /\ PartialType' /\ TargetType'
  BY ExportFiles
<1> QED
  BY <1>3, <1>4, <1>5, <1>6 DEF Types

\* What it has in hand, and the backups, when it is the only export.
LEMMA ExportGood ==
  ASSUME General, ExportInv, NEW e \in Exporters, Export(e)
  PROVE  ExpGood(e)'
<1>1. /\ Types /\ ExpType /\ SnapType /\ PartialType /\ ExpGood(e) /\ ExpCarry(exp[e])
      /\ main # None => main.body \in Body
      /\ snap # None => snap.body \in Body
  BY DatabaseFileFacts, FileFacts
  DEF General, Types, ExpCarries, FileTypes, SnapType, FileOf, ExportInv
<1>2. known \subseteq known' /\ pool' = pool
  BY <1>1, ExportKeeps DEF General, Exported
<1>3. ASSUME NEW stage \in {"idle", "load", "warn", "reentry", "verifier", "newkey", "saved"},
             NEW target, NEW phrase, NEW plain, ExpMoved(e, stage, target, phrase, plain),
             stage = "saved" => phrase \in known'
      PROVE  ExpGood(e)'
  BY <1>3 DEF ExpMoved, ExpGood, Holding
<1>4. CASE \/ \E d \in Targets: ChooseTarget(e, d)
           \/ LoadVerifier(e) \/ CancelExport(e)
           \/ \E ph \in FreshPhrases: SealNewPhrase(e, ph)
           \/ CheckBackup(e) \/ ExportFails(e)
  BY <1>1, <1>3, <1>4, ExportMoves DEF FreshPhrases
<1>5. CASE StoreVerifier(e) \/ SavePhrase(e)
  <2>1. ExpTurned(e, "verifier", "newkey") \/ ExpTurned(e, "newkey", "saved")
    BY <1>1, <1>5, ExportTurns DEF StoreVerifier, SavePhrase, ExportStages
  <2>2. SavePhrase(e) => exp[e].phrase \in known'
    BY DEF SavePhrase
  <2>3. ExpTurned(e, "verifier", "newkey") \/ SavePhrase(e)
    BY <1>1, <1>5, ExportTurns DEF StoreVerifier, ExportStages
  <2> QED
    BY <1>3, <2>1, <2>2, <2>3 DEF ExpTurned
<1>6. ASSUME NEW ph \in Phrases, Reenter(e, ph) PROVE ExpGood(e)'
  <2>1. \/ ph = exp[e].phrase /\ ph \in known /\ ExpTurned(e, "reentry", "seal")
        \/ ExpMoved(e, "idle", None, None, None)
    BY <1>1, <1>6, ExportMoves
  <2>2. CASE ph = exp[e].phrase /\ ph \in known /\ ExpTurned(e, "reentry", "seal")
    BY <1>2, <2>2 DEF ExpTurned, ExpMoved, ExpGood, Holding
  <2> QED
    BY <1>3, <2>1, <2>2
<1>7. CASE ConfirmNewKey(e)
  <2>1. ExpTurned(e, "saved", "seal")
    BY <1>1, <1>7, ExportTurns DEF ConfirmNewKey, ExportStages
  <2>2. exp[e].phrase \in known
    BY <1>1, <2>1 DEF ExpTurned, ExpGood
  <2> QED
    BY <1>2, <2>1, <2>2 DEF ExpTurned, ExpMoved, ExpGood, Holding
<1>8. CASE Seal(e)
  <2>1. ExpTurned(e, "seal", "snapshot")
    BY <1>1, <1>8, ExportTurns DEF Seal, ExportStages
  <2>2. exp[e].phrase \in known /\ exp[e].phrase \in Phrases
    BY <1>1, <2>1 DEF ExpTurned, ExpGood, ExpCarry
  <2>3. main' = [main EXCEPT !.body.sealed = exp[e].phrase] /\ main # None
        /\ main.body \in Database
    BY <1>8 DEF Seal, Served
  <2>4. main'.body.sealed = exp[e].phrase
    BY <1>1, <2>2, <2>3, BodyEdits DEF Types
  <2> QED
    BY <1>2, <2>1, <2>2, <2>4 DEF ExpTurned, ExpMoved, ExpGood, Holding
<1>9. CASE BeginSnapshot(e)
  <2>1. /\ exp[e].stage = "snapshot" /\ pool /\ main.body \in Database /\ snap' = File(e, Torn)
        /\ ExpMoved(e, "copy", exp[e].target, exp[e].phrase, main.body)
    BY <1>1, <1>9, ExportMoves DEF BeginSnapshot, Served
  <2>2. CanReset(main.body, exp[e].phrase) /\ exp[e].phrase \in known
    BY <1>1, <2>1 DEF ExpGood, CanReset
  <2>3. snap' # None /\ snap'.by = e
    BY <2>1, FileFacts, BodyFacts
  <2> QED
    BY <1>2, <2>1, <2>2, <2>3 DEF ExpMoved, ExpGood, Holding
<1>10. CASE EndSnapshot(e)
  <2>1. ExpTurned(e, "copy", "read") /\ snap' = Through(snap, e, exp[e].plain)
    BY <1>1, <1>10, ExportTurns DEF EndSnapshot, ExportStages, Holding
  <2>2. /\ snap # None /\ snap.by = e /\ exp[e].plain \in Body
        /\ CanReset(exp[e].plain, exp[e].phrase) /\ exp[e].phrase \in known
    BY <1>1, <2>1 DEF ExpTurned, ExpGood, ExpCarry, Holding
  <2>3. snap' # None /\ snap'.body = exp[e].plain
    BY <2>1, <2>2, FileFacts DEF Through
  <2> QED
    BY <1>2, <2>1, <2>2, <2>3 DEF ExpTurned, ExpMoved, ExpGood, Holding
<1>11. CASE ReadSnapshot(e)
  <2>1. /\ exp[e].stage = "read" /\ snap # None
        /\ ExpMoved(e, "partial", exp[e].target, exp[e].phrase, snap.body)
    BY <1>1, <1>11, ExportMoves DEF ReadSnapshot
  <2>2. CanReset(snap.body, exp[e].phrase) /\ exp[e].phrase \in known
    BY <1>1, <2>1 DEF ExpGood, Holding
  <2> QED
    BY <1>2, <2>1, <2>2 DEF ExpMoved, ExpGood, Holding
<1>12. CASE CreatePartial(e)
  <2>1. ExpTurned(e, "partial", "fill")
        /\ partial' = [partial EXCEPT ![exp[e].target] = File(e, Torn)]
    BY <1>1, <1>12, ExportTurns DEF CreatePartial, ExportStages, Holding
  <2>2. /\ exp[e].target \in Targets
        /\ CanReset(exp[e].plain, exp[e].phrase) /\ exp[e].phrase \in known
    BY <1>1, <2>1 DEF ExpTurned, ExpGood, ExpCarry, Holding
  <2>3. partial'[exp[e].target] = File(e, Torn) /\ File(e, Torn) # None /\ File(e, Torn).by = e
    BY <1>1, <2>1, <2>2, FileFacts, BodyFacts DEF PartialType
  <2> QED
    BY <1>2, <2>1, <2>2, <2>3 DEF ExpTurned, ExpMoved, ExpGood, Holding
<1>13. CASE FillPartial(e)
  <2> DEFINE d == exp[e].target
             made == [phrase |-> exp[e].phrase, body |-> exp[e].plain]
  <2>1. ExpTurned(e, "fill", "clear")
        /\ partial' = [partial EXCEPT ![d] = Through(partial[d], e, made)]
    BY <1>1, <1>13, ExportTurns DEF FillPartial, ExportStages, Holding
  <2>2. /\ d \in Targets /\ exp[e].phrase \in Phrases /\ exp[e].plain \in Body
        /\ CanReset(exp[e].plain, exp[e].phrase) /\ exp[e].phrase \in known
        /\ partial[d] # None /\ partial[d].by = e
    BY <1>1, <2>1 DEF ExpTurned, ExpGood, ExpCarry, Holding
  <2>3. made \in Backup
    BY <2>2 DEF Backup, Body
  <2> HIDE DEF made
  <2>4. partial'[d] = File(e, made) /\ File(e, made) # None /\ File(e, made).body = made
    BY <1>1, <2>1, <2>2, <2>3, FileFacts DEF PartialType, Through
  <2> QED
    BY <1>2, <2>1, <2>2, <2>4 DEF ExpTurned, ExpMoved, ExpGood, Holding, made
<1>14. CASE ClearTarget(e)
  <2>1. ExpTurned(e, "clear", "place") /\ partial' = partial
    BY <1>1, <1>14, ExportTurns DEF ClearTarget, ExportStages, Holding
  <2>2. /\ CanReset(exp[e].plain, exp[e].phrase) /\ exp[e].phrase \in known
        /\ partial[exp[e].target] # None
        /\ partial[exp[e].target].body = [phrase |-> exp[e].phrase, body |-> exp[e].plain]
    BY <1>1, <2>1 DEF ExpTurned, ExpGood, Holding
  <2> QED
    BY <1>2, <2>1, <2>2 DEF ExpTurned, ExpMoved, ExpGood, Holding
<1>15. CASE PlaceBackup(e)
  <2>1. ExpTurned(e, "place", "check")
    BY <1>1, <1>15, ExportTurns DEF PlaceBackup, ExportStages, Holding
  <2>2. CanReset(exp[e].plain, exp[e].phrase) /\ exp[e].phrase \in known
    BY <1>1, <2>1 DEF ExpTurned, ExpGood, Holding
  <2> QED
    BY <1>2, <2>1, <2>2 DEF ExpTurned, ExpMoved, ExpGood, Holding
<1> QED
  BY <1>4, <1>5, <1>6, <1>7, <1>8, <1>9, <1>10, <1>11, <1>12, <1>13, <1>14, <1>15 DEF Export

LEMMA BackupsGood ==
  ASSUME General, ExportInv, NEW e \in Exporters, Export(e)
  PROVE  BackupRestorable'
<1>1. /\ Types /\ ExpType /\ TargetType /\ PartialType /\ ExpGood(e) /\ ExpCarry(exp[e])
      /\ BackupRestorable
  BY DEF General, Types, ExpCarries, ExportInv
<1>2. known \subseteq known'
  BY <1>1, ExportKeeps DEF General, Exported
<1>3. ASSUME \A d \in Targets: backup'[d] \in {None, backup[d]} PROVE BackupRestorable'
  <2>1. ASSUME NEW d \in Targets, backup'[d] # None
        PROVE  /\ backup'[d] \in Backup /\ backup'[d].phrase \in known'
               /\ CanReset(backup'[d].body, backup'[d].phrase)
    <3>1. backup'[d] = backup[d] /\ backup[d] # None
      BY <1>3, <2>1
    <3>2. /\ backup[d] \in Backup /\ backup[d].phrase \in known
          /\ CanReset(backup[d].body, backup[d].phrase)
      BY <1>1, <3>1 DEF BackupRestorable
    <3> QED
      BY <1>2, <3>1, <3>2
  <2> QED
    BY <2>1 DEF BackupRestorable
<1>4. CASE PlaceBackup(e)
  <2> DEFINE x == exp[e]
             made == [phrase |-> x.phrase, body |-> x.plain]
  <2>1. /\ x.stage = "place" /\ backup' = [backup EXCEPT ![x.target] = partial[x.target].body]
    BY <1>4 DEF PlaceBackup, ExportStep
  <2>2. /\ x.target \in Targets /\ x.phrase \in Phrases /\ x.plain \in Body
        /\ x.phrase \in known /\ CanReset(x.plain, x.phrase)
        /\ partial[x.target].body = made
    BY <1>1, <2>1 DEF ExpCarry, ExpGood, Holding
  <2>3. made \in Backup /\ made.phrase = x.phrase /\ made.body = x.plain
    BY <2>2 DEF Backup, Body
  <2>4. \A d \in Targets: backup'[d] = IF d = x.target THEN made ELSE backup[d]
    BY <1>1, <2>1, <2>2 DEF TargetType
  <2> HIDE DEF made, x
  <2>5. ASSUME NEW d \in Targets, backup'[d] # None
        PROVE  /\ backup'[d] \in Backup /\ backup'[d].phrase \in known'
               /\ CanReset(backup'[d].body, backup'[d].phrase)
    <3>1. CASE d = x.target
      BY <1>2, <2>2, <2>3, <2>4, <3>1
    <3>2. CASE d # x.target
      <4>1. backup'[d] = backup[d] /\ backup[d] # None
        BY <2>4, <2>5, <3>2
      <4>2. /\ backup[d] \in Backup /\ backup[d].phrase \in known
            /\ CanReset(backup[d].body, backup[d].phrase)
        BY <1>1, <4>1 DEF BackupRestorable
      <4> QED
        BY <1>2, <4>1, <4>2
    <3> QED
      BY <3>1, <3>2
  <2> QED
    BY <2>5 DEF BackupRestorable
<1>5. CASE CheckBackup(e) \/ ClearTarget(e)
  <2>1. \/ backup' = backup
        \/ backup' = [backup EXCEPT ![exp[e].target] = None]
        \/ backup' = [backup EXCEPT ![exp[e].target] = backup[exp[e].target]]
    BY <1>5 DEF CheckBackup, ClearTarget
  <2> QED
    BY <1>1, <1>3, <2>1 DEF TargetType
<1>6. CASE ~PlaceBackup(e) /\ ~CheckBackup(e) /\ ~ClearTarget(e)
  <2>1. backup' = backup
    BY <1>6 DEF Export, ChooseTarget, LoadVerifier, CancelExport, Reenter, SealNewPhrase,
       StoreVerifier, SavePhrase, ConfirmNewKey, Seal, BeginSnapshot, EndSnapshot, ReadSnapshot,
       CreatePartial, FillPartial, ExportFails
  <2> QED
    BY <1>3, <2>1
<1> QED
  BY <1>4, <1>5, <1>6

----------------------------------------------------------------------------
(* A step of a restore, up to the restart.                                   *)

Restored(r) ==
  /\ UNCHANGED <<snap, partial, backup, exp, up, session, known, lastData, writes, stops>>
  /\ pool' => pool /\ main' = main
  /\ \A q \in Restorers: q # r => res'[q] = res[q]

LEMMA RestoreThreads ==
  ASSUME Types, NEW r \in Restorers, Restore(r), ~Restart(r)
  PROVE  /\ ResType' /\ ResCarries'
         /\ \A q \in Restorers: q # r => res'[q] = res[q]
<1>1. ResType /\ ResCarries /\ ResCarry(res[r]) /\ staged \in DatabaseFile
  BY DEF Types, ResCarries, FileTypes
<1> DEFINE Goal == ResType' /\ ResCarries' /\ \A q \in Restorers: q # r => res'[q] = res[q]
<1>2. ASSUME NEW stage, NEW target, NEW phrase, NEW password, NEW plain, NEW holds,
             ResMoved(r, stage, target, phrase, password, plain, holds),
             stage # "idle" => target \in Targets /\ phrase \in Phrases /\ password \in Passwords,
             stage \notin {"idle", "clean", "read"} => plain \in Body
      PROVE  Goal
  BY <1>1, <1>2, ResCarriesOn DEF ResMoved
<1>3. ASSUME NEW from, NEW to \in RestoreStages, RestoreStep(r, from, to),
             from # "idle", from \in {"clean", "read"} => to \in {"idle", "clean", "read"}
      PROVE  Goal
  <2>1. /\ res[r].stage = from
        /\ ResMoved(r, to, res[r].target, res[r].phrase, res[r].password, res[r].plain,
                    res[r].holds)
    BY <1>1, <1>3, RestoreTurns DEF ResTurned
  <2> QED
    BY <1>1, <1>2, <1>3, <2>1 DEF ResCarry
<1>4. ASSUME NEW d \in Targets, NEW ph \in Phrases, NEW pw \in Passwords, Submit(r, d, ph, pw)
      PROVE  Goal
  <2>1. ResMoved(r, "clean", d, ph, pw, None, None)
    BY <1>1, <1>4, RestoreMoves
  <2> QED
    BY <1>2, <2>1
<1>5. CASE ReadBackup(r)
  <2> DEFINE x == res[r]
  <2>1. /\ x.stage = "read"
        /\ ResMoved(r, "create", x.target, x.phrase, x.password, backup[x.target].body, x.holds)
        /\ backup[x.target].body \in Body
    BY <1>1, <1>5, RestoreMoves
  <2>2. x.target \in Targets /\ x.phrase \in Phrases /\ x.password \in Passwords
    BY <1>1, <2>1 DEF ResCarry
  <2> HIDE DEF x
  <2> QED
    BY <1>2, <2>1, <2>2
<1>6. CASE OpenStaged(r)
  <2> DEFINE x == res[r]
  <2>1. /\ x.stage = "open"
        /\ ResMoved(r, "reset", x.target, x.phrase, x.password, staged.body, staged.by)
    BY <1>1, <1>6, RestoreMoves
  <2>2. /\ x.target \in Targets /\ x.phrase \in Phrases /\ x.password \in Passwords
        /\ staged.body \in Body
    BY <1>1, <1>6, <2>1, DatabaseFileFacts DEF ResCarry, OpenStaged, Readable
  <2> HIDE DEF x
  <2> QED
    BY <1>2, <2>1, <2>2
<1>7. CASE PlaceFails(r) \/ RestoreFails(r)
  <2>1. ResMoved(r, "idle", None, None, None, None, None)
    BY <1>1, <1>7, RestoreMoves
  <2> QED
    BY <1>2, <2>1
<1>8. CASE \/ CleanStaging(r) \/ CreateStaged(r) \/ FillStaged(r) \/ ResetPassword(r)
           \/ ClosePool(r) \/ DropOld(r) \/ Rotate(r) \/ Place(r)
  BY <1>3, <1>8 DEF CleanStaging, CreateStaged, FillStaged, ResetPassword, ClosePool, DropOld,
     Rotate, Place, RestoreStages
<1> QED
  BY <1>4, <1>5, <1>6, <1>7, <1>8 DEF Restore

\* What a write through a handle does: to no file of the process when a pool is open.
LEMMA WriteFacts ==
  ASSUME FileTypes, NEW h, NEW body \in Body, WriteThrough(h, body)
  PROVE  /\ FileTypes'
         /\ main # None => main' # None /\ main'.by = main.by
                           /\ main'.body = IF main.by = h THEN body ELSE main.body
         /\ old # None => old' # None /\ old'.by = old.by
                          /\ old'.body = IF old.by = h THEN body ELSE old.body
         /\ staged # None => staged' # None /\ staged'.by = staged.by
                             /\ staged'.body = IF staged.by = h THEN body ELSE staged.body
         /\ main = None => main' = None
         /\ old = None => old' = None
         /\ staged = None => staged' = None
         /\ main # None /\ main.by # h => main' = main
         /\ old # None /\ old.by # h => old' = old
<1>1. ASSUME NEW f \in DatabaseFile
      PROVE  /\ Through(f, h, body) \in DatabaseFile
             /\ f # None => /\ Through(f, h, body) # None /\ Through(f, h, body).by = f.by
                            /\ Through(f, h, body).body = IF f.by = h THEN body ELSE f.body
             /\ f = None => Through(f, h, body) = None
             /\ f # None /\ f.by # h => Through(f, h, body) = f
  <2>1. CASE f # None /\ f.by = h
    <3>1. Through(f, h, body) = File(h, body) /\ h \in Restorers \union {None}
      BY <2>1, DatabaseFileFacts DEF Through
    <3> QED
      BY <2>1, <3>1, DatabaseFileFacts
  <2>2. CASE ~(f # None /\ f.by = h)
    BY <2>2 DEF Through
  <2> QED
    BY <2>1, <2>2
<1>2. main \in DatabaseFile /\ old \in DatabaseFile /\ staged \in DatabaseFile
  BY DEF FileTypes
<1>3. /\ main' = Through(main, h, body) /\ old' = Through(old, h, body)
      /\ staged' = Through(staged, h, body)
  BY DEF WriteThrough
<1> QED
  BY <1>1, <1>2, <1>3 DEF FileTypes

LEMMA RestoreFiles ==
  ASSUME Types, ProcessInv, NEW r \in Restorers, Restore(r), ~Restart(r)
  PROVE  FileTypes' /\ (pool' => pool /\ main' = main)
<1>1. FileTypes /\ ResCarry(res[r]) /\ r # None /\ ResType
  BY BackupAssumption DEF Types, ResCarries
<1>2. CASE \/ CleanStaging(r) \/ CreateStaged(r)
  <2>1. staged' = None \/ staged' = File(r, Torn)
    BY <1>2 DEF CleanStaging, CreateStaged
  <2>2. staged' \in DatabaseFile
    BY <2>1, DatabaseFileFacts, BodyFacts
  <2> QED
    BY <1>1, <1>2, <2>2 DEF CleanStaging, CreateStaged, FileTypes
<1>3. CASE FillStaged(r)
  <2>1. res[r].stage = "fill" /\ WriteThrough(r, res[r].plain) /\ pool' = pool
    BY <1>3 DEF FillStaged, RestoreStep
  <2>2. res[r].plain \in Body
    BY <1>1, <2>1 DEF ResCarry
  <2> QED
    BY <1>1, <2>1, <2>2, WriteFacts DEF ProcessInv
<1>4. CASE ResetPassword(r)
  <2> DEFINE body == Reset(res[r].plain, res[r].phrase, res[r].password)
  <2>1. /\ res[r].stage = "reset" /\ WriteThrough(res[r].holds, body) /\ pool' = pool
        /\ CanReset(res[r].plain, res[r].phrase)
    BY <1>4 DEF ResetPassword, RestoreStep
  <2>2. body \in Body
    BY <1>1, <2>1, ResetFacts, BodyFacts DEF ResCarry
  <2>3. res[r].holds # None
    BY <2>1 DEF ProcessInv
  <2> HIDE DEF body
  <2> QED
    BY <1>1, <2>1, <2>2, <2>3, WriteFacts DEF ProcessInv
<1>5. CASE DropOld(r) \/ Rotate(r) \/ Place(r) \/ PlaceFails(r)
  <2>1. ~pool /\ pool' = pool
    BY <1>5 DEF DropOld, Rotate, Place, PlaceFails, RestoreStep, ProcessInv, Closing
  <2>2. /\ main' \in {main, staged, old, None} /\ old' \in {main, old, None}
        /\ staged' \in {staged, None}
    BY <1>5 DEF DropOld, Rotate, Place, PlaceFails
  <2> QED
    BY <1>1, <2>1, <2>2, DatabaseFileFacts DEF FileTypes
<1>6. CASE ClosePool(r)
  BY <1>1, <1>6 DEF ClosePool, files, FileTypes
<1>7. CASE \/ \E d \in Targets, ph \in Phrases, pw \in Passwords: Submit(r, d, ph, pw)
           \/ ReadBackup(r) \/ OpenStaged(r) \/ RestoreFails(r)
  <2>1. UNCHANGED <<files, pool>>
    BY <1>7 DEF Submit, ReadBackup, OpenStaged, RestoreFails
  <2> QED
    BY <1>1, <2>1 DEF files, FileTypes
<1> QED
  BY <1>2, <1>3, <1>4, <1>5, <1>6, <1>7 DEF Restore

LEMMA RestoreKeeps ==
  ASSUME Types, ProcessInv, NEW r \in Restorers, Restore(r), ~Restart(r)
  PROVE  Types' /\ Restored(r)
<1>1. /\ UNCHANGED <<snap, partial, backup, exp, session, known, lastData, writes, stops>>
      /\ up' = up /\ pool' \in BOOLEAN
  <2>1. UNCHANGED RestOfRestore /\ up' = up /\ pool' \in {pool, FALSE}
    BY DEF Restore, Submit, CleanStaging, ReadBackup, CreateStaged, FillStaged, OpenStaged,
       ResetPassword, ClosePool, DropOld, Rotate, Place, PlaceFails, RestoreFails
  <2> QED
    BY <2>1 DEF RestOfRestore, exports, Types, ProcessTypes
<1>2. failures' \in 0..MaxFailures
  <2>1. failures \in 0..MaxFailures /\ MaxFailures \in Nat
    BY BackupAssumption DEF Types, CountTypes
  <2>2. CASE RestoreFails(r)
    BY <2>1, <2>2 DEF RestoreFails
  <2>3. CASE PlaceFails(r)
    BY <2>1, <2>3 DEF PlaceFails
  <2>4. CASE ~RestoreFails(r) /\ ~PlaceFails(r)
    <3>1. failures' = failures
      BY <2>4 DEF Restore, Submit, CleanStaging, ReadBackup, CreateStaged, FillStaged, OpenStaged,
         ResetPassword, ClosePool, DropOld, Rotate, Place
    <3> QED
      BY <2>1, <3>1
  <2> QED
    BY <2>2, <2>3, <2>4
<1>3. Restored(r)
  BY <1>1, RestoreThreads, RestoreFiles DEF Restored
<1>4. /\ SnapType' /\ PartialType' /\ TargetType' /\ ProcessTypes' /\ ExpType' /\ ExpCarries'
      /\ CountTypes'
  BY <1>1, <1>2 DEF Types, SnapType, PartialType, TargetType, ProcessTypes, ExpType, ExpCarries,
     CountTypes
<1>5. ResType' /\ ResCarries' /\ FileTypes'
  BY RestoreThreads, RestoreFiles
<1> QED
  BY <1>3, <1>4, <1>5 DEF Types

\* The invariant of the files, said of the one thread of a restore.
Alone(r) ==
  /\ up /\ res[r].stage # "done" /\ main # None =>
       main.by = None /\ (main.body \in Database => main.body.data = lastData)
  /\ up /\ old # None => old.by = None
  /\ up /\ res[r].stage # "place" => main # None
  /\ ServedIsWhole
  /\ ResGood(r)

LEMMA AloneFacts ==
  ASSUME OneRestorer, NEW r \in Restorers
  PROVE  (RestoreInv <=> Alone(r)) /\ (RestoreInv' <=> Alone(r)')
<1>1. \A q \in Restorers: q = r
  BY DEF OneRestorer
<1>2. (Done <=> res[r].stage = "done") /\ (Placing <=> res[r].stage = "place")
  BY <1>1 DEF Done, Placing
<1>3. (Done' <=> res'[r].stage = "done") /\ (Placing' <=> res'[r].stage = "place")
  BY <1>1 DEF Done, Placing
<1>4. (\A q \in Restorers: ResGood(q)) <=> ResGood(r)
  BY <1>1
<1>5. (\A q \in Restorers: ResGood(q)') <=> ResGood(r)'
  BY <1>1
<1>6. RestoreInv <=> Alone(r)
  BY <1>2, <1>4 DEF RestoreInv, Alone
<1>7. RestoreInv' <=> Alone(r)'
  BY <1>3, <1>5 DEF RestoreInv, Alone
<1> QED
  BY <1>6, <1>7

LEMMA RestoreGood ==
  ASSUME General, RestoreInv, OneRestorer, NEW r \in Restorers, Restore(r), ~Restart(r)
  PROVE  RestoreInv'
<1>1. /\ Types /\ ResType /\ FileTypes /\ ResCarry(res[r]) /\ Alone(r) /\ r # None
      /\ res[r].stage # "idle" => up
  BY AloneFacts, BackupAssumption DEF General, Types, ResCarries, ProcessInv
<1>2. up' = up /\ lastData' = lastData
  BY <1>1, RestoreKeeps DEF General, Restored
<1>3. SUFFICES Alone(r)'
  BY AloneFacts
<1>4. ASSUME main' = main, old' = old, res[r].stage \notin {"place", "done"},
             res'[r].stage \notin {"place", "done"}, ResGood(r)'
      PROVE  Alone(r)'
  BY <1>1, <1>2, <1>4 DEF Alone, ServedIsWhole
<1>5. ASSUME NEW stage \in {"idle", "clean", "read", "create"}, NEW target, NEW phrase,
             NEW password, NEW plain, NEW holds,
             ResMoved(r, stage, target, phrase, password, plain, holds),
             main' = main, old' = old, res[r].stage \notin {"place", "done"}
      PROVE  Alone(r)'
  <2>1. ResGood(r)' /\ res'[r].stage \notin {"place", "done"}
    BY <1>5 DEF ResMoved, ResGood
  <2> QED
    BY <1>4, <1>5, <2>1
<1>6. ASSUME NEW d \in Targets, NEW ph \in Phrases, NEW pw \in Passwords, Submit(r, d, ph, pw)
      PROVE  Alone(r)'
  <2>1. res[r].stage = "idle" /\ ResMoved(r, "clean", d, ph, pw, None, None)
        /\ main' = main /\ old' = old
    BY <1>1, <1>6, RestoreMoves DEF Submit, files
  <2> QED
    BY <1>5, <2>1
<1>7. CASE CleanStaging(r)
  <2>1. ResTurned(r, "clean", "read") /\ main' = main /\ old' = old
    BY <1>1, <1>7, RestoreTurns DEF CleanStaging, RestoreStages
  <2> QED
    BY <1>5, <2>1 DEF ResTurned
<1>8. CASE ReadBackup(r)
  <2> DEFINE x == res[r]
  <2>1. /\ x.stage = "read" /\ main' = main /\ old' = old
        /\ ResMoved(r, "create", x.target, x.phrase, x.password, backup[x.target].body, x.holds)
    BY <1>1, <1>8, RestoreMoves DEF ReadBackup, files
  <2> HIDE DEF x
  <2> QED
    BY <1>5, <2>1 DEF x
<1>9. CASE RestoreFails(r)
  <2>1. /\ ResMoved(r, "idle", None, None, None, None, None)
        /\ main' = main /\ old' = old /\ res[r].stage \notin {"place", "done"}
    BY <1>1, <1>9, RestoreMoves DEF RestoreFails, files
  <2> QED
    BY <1>5, <2>1
<1>10. CASE CreateStaged(r)
  <2>1. ResTurned(r, "create", "fill") /\ main' = main /\ old' = old /\ staged' = File(r, Torn)
    BY <1>1, <1>10, RestoreTurns DEF CreateStaged, RestoreStages
  <2>2. staged' # None /\ staged'.by = r
    BY <2>1, FileFacts, BodyFacts
  <2> QED
    BY <1>4, <2>1, <2>2 DEF ResTurned, ResMoved, ResGood
<1>11. CASE FillStaged(r)
  <2>1. ResTurned(r, "fill", "open") /\ WriteThrough(r, res[r].plain)
    BY <1>1, <1>11, RestoreTurns DEF FillStaged, RestoreStages
  <2>2. /\ staged # None /\ staged.by = r /\ up /\ res[r].plain \in Body
        /\ main # None => main.by = None
        /\ old # None => old.by = None
    BY <1>1, <2>1 DEF ResTurned, Alone, ResGood, ResCarry
  <2>3. main' = main /\ old' = old /\ staged' # None /\ staged'.by = r
    BY <1>1, <2>1, <2>2, WriteFacts
  <2> QED
    BY <1>4, <2>1, <2>3 DEF ResTurned, ResMoved, ResGood
<1>12. CASE OpenStaged(r)
  <2> DEFINE x == res[r]
  <2>1. /\ x.stage = "open" /\ staged # None /\ staged.body # Torn
        /\ ResMoved(r, "reset", x.target, x.phrase, x.password, staged.body, staged.by)
        /\ main' = main /\ old' = old /\ staged' = staged
    BY <1>1, <1>12, RestoreMoves DEF OpenStaged, Readable, files, FileTypes
  <2>2. staged.by = r
    BY <1>1, <2>1 DEF Alone, ResGood
  <2> QED
    BY <1>4, <2>1, <2>2 DEF ResMoved, ResGood
<1>13. CASE ResetPassword(r)
  <2> DEFINE made == Reset(res[r].plain, res[r].phrase, res[r].password)
  <2>1. /\ ResTurned(r, "reset", "close") /\ CanReset(res[r].plain, res[r].phrase)
        /\ WriteThrough(res[r].holds, made)
    BY <1>1, <1>13, RestoreTurns DEF ResetPassword, RestoreStages
  <2>2. /\ staged # None /\ staged.by = r /\ res[r].holds = r /\ up
        /\ res[r].plain \in Body /\ res[r].phrase \in Phrases /\ res[r].password \in Passwords
        /\ main # None => main.by = None
        /\ old # None => old.by = None
    BY <1>1, <2>1 DEF ResTurned, Alone, ResGood, ResCarry
  <2>3. made \in Body
    BY <2>1, <2>2, ResetFacts, BodyFacts
  <2> HIDE DEF made
  <2>4. main' = main /\ old' = old /\ staged' # None /\ staged'.body = made
    BY <1>1, <2>1, <2>2, <2>3, WriteFacts
  <2> QED
    BY <1>4, <2>1, <2>4 DEF ResTurned, ResMoved, ResGood, made
<1>14. CASE ClosePool(r)
  <2>1. ResTurned(r, "close", "drop") /\ main' = main /\ old' = old /\ staged' = staged
    BY <1>1, <1>14, RestoreTurns DEF ClosePool, RestoreStages, files
  <2>2. /\ CanReset(res[r].plain, res[r].phrase) /\ staged # None
        /\ staged.body = Reset(res[r].plain, res[r].phrase, res[r].password)
    BY <1>1, <2>1 DEF ResTurned, Alone, ResGood
  <2> QED
    BY <1>4, <2>1, <2>2 DEF ResTurned, ResMoved, ResGood
<1>15. CASE DropOld(r)
  <2>1. ResTurned(r, "drop", "rotate") /\ main' = main /\ old' = None /\ staged' = staged
    BY <1>1, <1>15, RestoreTurns DEF DropOld, RestoreStages
  <2>2. /\ CanReset(res[r].plain, res[r].phrase) /\ staged # None
        /\ staged.body = Reset(res[r].plain, res[r].phrase, res[r].password)
    BY <1>1, <2>1 DEF ResTurned, Alone, ResGood
  <2>3. ResGood(r)'
    BY <2>1, <2>2 DEF ResTurned, ResMoved, ResGood
  <2> QED
    BY <1>1, <1>2, <2>1, <2>3 DEF ResTurned, ResMoved, Alone, ServedIsWhole
<1>16. CASE Rotate(r)
  <2>1. /\ ResTurned(r, "rotate", "place") /\ main' = None /\ staged' = staged
        /\ old' = IF main = None THEN old ELSE main
    BY <1>1, <1>16, RestoreTurns DEF Rotate, RestoreStages
  <2>2. /\ CanReset(res[r].plain, res[r].phrase) /\ staged # None /\ up
        /\ staged.body = Reset(res[r].plain, res[r].phrase, res[r].password)
        /\ main # None /\ main.by = None
        /\ main.body \in Database => main.body.data = lastData
    BY <1>1, <2>1 DEF ResTurned, Alone, ResGood
  <2>3. old' = main
    BY <2>1, <2>2
  <2>4. ResGood(r)'
    BY <1>2, <2>1, <2>2, <2>3 DEF ResTurned, ResMoved, ResGood
  <2> QED
    BY <1>1, <1>2, <2>1, <2>2, <2>3, <2>4 DEF ResTurned, ResMoved, Alone, ServedIsWhole
<1>17. CASE Place(r)
  <2>1. ResTurned(r, "place", "done") /\ main' = staged /\ staged' = None /\ old' = old
    BY <1>1, <1>17, RestoreTurns DEF Place, RestoreStages
  <2>2. /\ CanReset(res[r].plain, res[r].phrase) /\ staged # None
        /\ staged.body = Reset(res[r].plain, res[r].phrase, res[r].password)
        /\ old # None /\ (old.body \in Database => old.body.data = lastData)
    BY <1>1, <2>1 DEF ResTurned, Alone, ResGood
  <2>3. staged.body # Torn
    BY <1>1, <2>1, <2>2, ResetFacts, BodyFacts DEF ResCarry, ResTurned
  <2>4. ResGood(r)'
    BY <1>2, <2>1, <2>2 DEF ResTurned, ResMoved, ResGood
  <2> QED
    BY <1>1, <1>2, <2>1, <2>2, <2>3, <2>4 DEF ResTurned, ResMoved, Alone, ServedIsWhole
<1>18. CASE PlaceFails(r)
  <2>1. res[r].stage = "place" /\ ResMoved(r, "idle", None, None, None, None, None)
    BY <1>1, <1>18, RestoreMoves DEF PlaceFails
  <2>2. /\ old # None /\ (old.body \in Database => old.body.data = lastData) /\ up
        /\ old.by = None
    BY <1>1, <2>1 DEF Alone, ResGood
  <2>3. main' = old /\ old' = None
    BY <1>18, <2>2 DEF PlaceFails
  <2>4. ResGood(r)'
    BY <2>1 DEF ResMoved, ResGood
  <2> QED
    BY <1>1, <1>2, <2>1, <2>2, <2>3, <2>4 DEF ResMoved, Alone, ServedIsWhole
<1> QED
  BY <1>6, <1>7, <1>8, <1>9, <1>10, <1>11, <1>12, <1>13, <1>14, <1>15, <1>16, <1>17, <1>18
  DEF Restore

----------------------------------------------------------------------------
(* What the threads leave to one another.                                    *)

LEMMA ExportGeneral ==
  ASSUME General, NEW e \in Exporters, Export(e)
  PROVE  General'
<1>1. /\ Types /\ ProcessInv /\ InAccount /\ Types' /\ Exported(e) /\ up
  BY ExportKeeps DEF General, Exported, ProcessInv
<1>2. /\ pool => main' # None /\ main'.by = None
      /\ main.body \in Database => main'.body \in Database
  BY <1>1 DEF Exported, Resealed, ProcessInv
<1>3. ProcessInv'
  BY <1>1, <1>2 DEF ProcessInv, Exported
<1>4. InAccount'
  <2>1. (\E f \in Exporters: exp'[f].stage # "idle") =>
          session \/ \E f \in Exporters: exp[f].stage # "idle"
    BY <1>1 DEF Exported
  <2> QED
    BY <1>1, <1>2, <2>1 DEF InAccount, Exported
<1> QED
  BY <1>1, <1>3, <1>4 DEF General

LEMMA ExportLeavesRestore ==
  ASSUME General, RestoreInv, NEW e \in Exporters, Export(e)
  PROVE  RestoreInv'
<1>1. /\ Exported(e) /\ ProcessInv
  BY ExportKeeps DEF General
<1>2. CASE main' = main
  <2>1. \A r \in Restorers: ResGood(r)'
    BY <1>1, <1>2 DEF Exported, RestoreInv, ResGood
  <2> QED
    BY <1>1, <1>2, <2>1 DEF Exported, RestoreInv, ServedIsWhole, Done, Placing
<1>3. CASE main' # main
  <2>1. /\ pool /\ main # None /\ main' # None /\ main'.by = main.by
        /\ main.body \in Database /\ main'.body \in Database
        /\ main'.body.data = main.body.data /\ main'.body # Torn
    BY <1>1, <1>3, BodyFacts DEF Exported, Resealed
  <2>2. \A r \in Restorers: res[r].stage \notin Closing
    BY <1>1, <2>1 DEF ProcessInv
  <2>3. \A r \in Restorers: ResGood(r)'
    BY <1>1, <2>2 DEF Exported, RestoreInv, ResGood, Closing
  <2> QED
    BY <1>1, <2>1, <2>2, <2>3 DEF Exported, RestoreInv, ServedIsWhole, Done, Placing, Closing
<1> QED
  BY <1>2, <1>3

\* The stages a restore comes from, and what it holds open.
LEMMA RestoreOrder ==
  ASSUME General, NEW r \in Restorers, Restore(r), ~Restart(r)
  PROVE  /\ up
         /\ res'[r].stage \in Closing => ~pool'
         /\ res'[r].stage \in {"reset", "close"} => res'[r].holds # None
         /\ \/ staged' = None
            \/ staged' # None /\ staged'.by = r
            \/ staged # None /\ staged' # None /\ staged'.by = staged.by
               /\ (res'[r].stage \notin {"idle", "clean"} => res[r].stage \notin {"idle", "clean"})
<1>1. /\ Types /\ ResType /\ FileTypes /\ ResCarry(res[r]) /\ ProcessInv
  BY DEF General, Types, ResCarries
<1> DEFINE Goal == /\ up
                   /\ res'[r].stage \in Closing => ~pool'
                   /\ res'[r].stage \in {"reset", "close"} => res'[r].holds # None
                   /\ \/ staged' = None
                      \/ staged' # None /\ staged'.by = r
                      \/ staged # None /\ staged' # None /\ staged'.by = staged.by
                         /\ (res'[r].stage \notin {"idle", "clean"} =>
                               res[r].stage \notin {"idle", "clean"})
<1>2. ASSUME NEW d \in Targets, NEW ph \in Phrases, NEW pw \in Passwords, Submit(r, d, ph, pw)
      PROVE  Goal
  <2>1. ResMoved(r, "clean", d, ph, pw, None, None) /\ staged' = staged /\ up
    BY <1>1, <1>2, RestoreMoves DEF Submit, files
  <2> QED
    BY <2>1 DEF ResMoved, Closing
<1>3. CASE CleanStaging(r)
  <2>1. ResTurned(r, "clean", "read") /\ staged' = None
    BY <1>1, <1>3, RestoreTurns DEF CleanStaging, RestoreStages
  <2> QED
    BY <1>1, <2>1 DEF ResTurned, ResMoved, Closing, ProcessInv
<1>4. CASE ReadBackup(r)
  <2>1. /\ res[r].stage = "read" /\ staged' = staged /\ res'[r].stage = "create"
    BY <1>1, <1>4, RestoreMoves DEF ReadBackup, files, ResMoved
  <2> QED
    BY <1>1, <2>1 DEF Closing, ProcessInv
<1>5. CASE CreateStaged(r)
  <2>1. ResTurned(r, "create", "fill") /\ staged' = File(r, Torn)
    BY <1>1, <1>5, RestoreTurns DEF CreateStaged, RestoreStages
  <2>2. staged' # None /\ staged'.by = r
    BY <2>1, FileFacts, BodyFacts
  <2> QED
    BY <1>1, <2>1, <2>2 DEF ResTurned, ResMoved, Closing, ProcessInv
<1>6. CASE FillStaged(r)
  <2>1. ResTurned(r, "fill", "open") /\ WriteThrough(r, res[r].plain)
    BY <1>1, <1>6, RestoreTurns DEF FillStaged, RestoreStages
  <2>2. res[r].plain \in Body
    BY <1>1, <2>1 DEF ResTurned, ResCarry
  <2>3. /\ staged # None => staged' # None /\ staged'.by = staged.by
        /\ staged = None => staged' = None
    BY <1>1, <2>1, <2>2, WriteFacts
  <2> QED
    BY <1>1, <2>1, <2>3 DEF ResTurned, ResMoved, Closing, ProcessInv
<1>7. CASE OpenStaged(r)
  <2>1. /\ res[r].stage = "open" /\ staged # None /\ staged' = staged
        /\ res'[r].stage = "reset" /\ res'[r].holds = staged.by
    BY <1>1, <1>7, RestoreMoves DEF OpenStaged, Readable, files, FileTypes, ResMoved
  <2>2. staged.by # None
    BY <1>1, <2>1 DEF ProcessInv
  <2> QED
    BY <1>1, <2>1, <2>2 DEF Closing, ProcessInv
<1>8. CASE ResetPassword(r)
  <2> DEFINE made == Reset(res[r].plain, res[r].phrase, res[r].password)
  <2>1. /\ ResTurned(r, "reset", "close") /\ WriteThrough(res[r].holds, made)
        /\ CanReset(res[r].plain, res[r].phrase)
    BY <1>1, <1>8, RestoreTurns DEF ResetPassword, RestoreStages
  <2>2. made \in Body /\ res[r].holds # None
    BY <1>1, <2>1, ResetFacts, BodyFacts DEF ResTurned, ResCarry, ProcessInv
  <2> HIDE DEF made
  <2>3. /\ staged # None => staged' # None /\ staged'.by = staged.by
        /\ staged = None => staged' = None
    BY <1>1, <2>1, <2>2, WriteFacts
  <2> QED
    BY <1>1, <2>1, <2>2, <2>3 DEF ResTurned, ResMoved, Closing, ProcessInv
<1>9. CASE ClosePool(r)
  <2>1. ResTurned(r, "close", "drop") /\ staged' = staged /\ ~pool'
    BY <1>1, <1>9, RestoreTurns DEF ClosePool, RestoreStages, files
  <2> QED
    BY <1>1, <2>1 DEF ResTurned, ResMoved, Closing, ProcessInv
<1>10. CASE DropOld(r) \/ Rotate(r)
  <2>1. ResTurned(r, "drop", "rotate") \/ ResTurned(r, "rotate", "place")
    BY <1>1, <1>10, RestoreTurns DEF DropOld, Rotate, RestoreStages
  <2>2. staged' = staged /\ pool' = pool
    BY <1>10 DEF DropOld, Rotate
  <2> QED
    BY <1>1, <2>1, <2>2 DEF ResTurned, ResMoved, Closing, ProcessInv
<1>11. CASE Place(r)
  <2>1. ResTurned(r, "place", "done") /\ staged' = None /\ pool' = pool
    BY <1>1, <1>11, RestoreTurns DEF Place, RestoreStages
  <2> QED
    BY <1>1, <2>1 DEF ResTurned, ResMoved, Closing, ProcessInv
<1>12. CASE PlaceFails(r) \/ RestoreFails(r)
  <2>1. /\ res[r].stage # "idle" /\ res'[r].stage = "idle" /\ staged' = staged
    BY <1>1, <1>12, RestoreMoves DEF PlaceFails, RestoreFails, files, ResMoved
  <2> QED
    BY <1>1, <2>1 DEF Closing, ProcessInv
<1> QED
  BY <1>2, <1>3, <1>4, <1>5, <1>6, <1>7, <1>8, <1>9, <1>10, <1>11, <1>12 DEF Restore

LEMMA RestoreGeneral ==
  ASSUME General, NEW r \in Restorers, Restore(r), ~Restart(r)
  PROVE  General'
<1>1. /\ Types /\ ProcessInv /\ InAccount /\ Types' /\ Restored(r)
  BY RestoreKeeps DEF General
<1>2. InAccount'
  BY <1>1 DEF InAccount, Restored
<1>3. \A q \in Restorers: res'[q].stage \in Closing => ~pool'
  BY <1>1, RestoreOrder DEF Restored, ProcessInv
<1>4. \A q \in Restorers: res'[q].stage \in {"reset", "close"} => res'[q].holds # None
  BY <1>1, RestoreOrder DEF Restored, ProcessInv
<1>5. ASSUME NEW q \in Restorers, res'[q].stage \notin {"idle", "clean"}, staged' # None
      PROVE  staged'.by # None
  <2>1. CASE staged'.by = r
    BY <2>1, BackupAssumption
  <2>2. CASE staged'.by # r
    <3>1. /\ staged # None /\ staged'.by = staged.by
          /\ res'[r].stage \notin {"idle", "clean"} => res[r].stage \notin {"idle", "clean"}
      BY <1>5, <2>2, RestoreOrder
    <3>2. res[q].stage \notin {"idle", "clean"}
      BY <1>1, <1>5, <3>1 DEF Restored
    <3> QED
      BY <1>1, <3>1, <3>2 DEF ProcessInv
  <2> QED
    BY <2>1, <2>2
<1>6. up' /\ (pool' => main' # None /\ main'.by = None)
  BY <1>1, RestoreOrder DEF Restored, ProcessInv
<1>7. ProcessInv'
  BY <1>3, <1>4, <1>5, <1>6 DEF ProcessInv
<1> QED
  BY <1>1, <1>2, <1>7 DEF General

LEMMA RestoreLeavesExport ==
  ASSUME General, ExportInv, NEW r \in Restorers, Restore(r), ~Restart(r)
  PROVE  ExportInv'
<1>1. Restored(r)
  BY RestoreKeeps DEF General
<1>2. BackupRestorable'
  BY <1>1 DEF Restored, ExportInv, BackupRestorable
<1>3. ASSUME NEW e \in Exporters PROVE ExpGood(e)'
  BY <1>1 DEF Restored, ExportInv, ExpGood
<1> QED
  BY <1>2, <1>3 DEF ExportInv

----------------------------------------------------------------------------
(* The process.                                                              *)

AllInv ==
  General /\ (OneExporter => ExportInv) /\ (OneRestorer => RestoreInv)

LEMMA IdleFacts ==
  /\ IdleExport \in ExpState /\ IdleRestore \in ResState
  /\ IdleExport.stage = "idle" /\ IdleRestore.stage = "idle"
  /\ ExpCarry(IdleExport) /\ ResCarry(IdleRestore)
BY DEF IdleExport, IdleRestore, ExpState, ResState, ExportStages, RestoreStages, ExpCarry,
       ResCarry, Holding

\* Threads that are none promise nothing.
LEMMA IdleIsGood ==
  ASSUME \A e \in Exporters: exp[e].stage = "idle", \A r \in Restorers: res[r].stage = "idle"
  PROVE  /\ \A e \in Exporters: ExpGood(e)
         /\ \A r \in Restorers: ResGood(r)
         /\ ~Done /\ ~Placing
BY DEF ExpGood, ResGood, Done, Placing, Holding

LEMMA InitAll ==
  ASSUME Init
  PROVE  AllInv
<1>1. /\ exp \in [Exporters -> ExpState] /\ res \in [Restorers -> ResState]
      /\ \A e \in Exporters: exp[e] = IdleExport
      /\ \A r \in Restorers: res[r] = IdleRestore
  BY IdleFacts DEF Init
<1>2. PICK pw \in Passwords, f \in Formats, ph \in Phrases \union {None}, whole \in BOOLEAN:
        /\ main \in {None, File(None, [NewAccount(0, pw, ph, f)
                                         EXCEPT !.sealed = IF whole THEN ph ELSE None])}
        /\ known = IF main = None THEN {} ELSE {ph} \ {None}
  BY DEF Init
<1> DEFINE seal == IF whole THEN ph ELSE None
           db == [NewAccount(0, pw, ph, f) EXCEPT !.sealed = seal]
<1>3. db \in Database /\ db.data = 0
  BY SMTT(60), AccountFacts
<1> HIDE DEF seal, db
<1>4. /\ main = None \/ main = File(None, db)
      /\ known \subseteq Phrases
  BY <1>2 DEF seal, db
<1>5. /\ main \in DatabaseFile
      /\ main # None => main.by = None /\ main.body \in Database /\ main.body.data = 0
  BY <1>3, <1>4, DatabaseFileFacts, BodyFacts
<1>6. /\ FileTypes /\ SnapType /\ ProcessTypes /\ CountTypes
  <2>1. FileTypes /\ SnapType
    BY <1>5, DatabaseFileFacts DEF Init, FileTypes, SnapType, FileOf
  <2>2. ProcessTypes
    BY DEF Init, ProcessTypes
  <2>3. MaxWrites \in Nat /\ MaxStops \in Nat /\ MaxFailures \in Nat
    BY BackupAssumption
  <2>4. CountTypes
    BY <1>4, <2>3 DEF Init, CountTypes
  <2> QED
    BY <2>1, <2>2, <2>4
<1>7. PartialType /\ TargetType
  BY DEF Init, PartialType, TargetType, FileOf
<1>8. ExpCarries /\ ResCarries
  BY <1>1, IdleFacts, Zenon DEF ExpCarries, ResCarries
<1>9. General
  BY <1>1, <1>6, <1>7, <1>8, IdleFacts
  DEF General, Types, ExpType, ResType, ProcessInv, InAccount, Init, Closing
<1>10. /\ \A e \in Exporters: exp[e].stage = "idle"
       /\ \A r \in Restorers: res[r].stage = "idle"
       /\ ~up /\ lastData = 0 /\ old = None
       /\ \A d \in Targets: backup[d] = None
  BY <1>1, IdleFacts DEF Init
<1>11. ExportInv
  BY <1>10, IdleIsGood DEF ExportInv, BackupRestorable
<1>12. RestoreInv
  BY <1>5, <1>10, IdleIsGood, BodyFacts DEF RestoreInv, ServedIsWhole
<1> QED
  BY <1>9, <1>11, <1>12 DEF AllInv

LEMMA DownKeeps ==
  ASSUME AllInv, Stop \/ Quit \/ \E r \in Restorers: Restart(r)
  PROVE  AllInv'
<1>1. /\ up' = FALSE /\ pool' = FALSE /\ session' = FALSE
      /\ exp' = [e \in Exporters |-> IdleExport]
      /\ res' = [r \in Restorers |-> IdleRestore]
      /\ UNCHANGED <<main, old, staged, snap, partial, backup, known, lastData, writes, failures>>
      /\ stops' \in 0..MaxStops
  <2>1. stops \in 0..MaxStops /\ MaxStops \in Nat
    BY BackupAssumption DEF AllInv, General, Types, CountTypes
  <2>2. stops' \in 0..MaxStops
    BY <2>1 DEF Stop, Quit, Restart, counts
  <2> QED
    BY <2>2 DEF Stop, Quit, Restart, Down, files, counts
<1>2. /\ exp' \in [Exporters -> ExpState] /\ res' \in [Restorers -> ResState]
      /\ \A e \in Exporters: exp'[e] = IdleExport
      /\ \A r \in Restorers: res'[r] = IdleRestore
  BY <1>1, IdleFacts
<1>3. ExpCarries' /\ ResCarries'
  BY <1>2, IdleFacts, Zenon DEF ExpCarries, ResCarries
<1>4. /\ \A e \in Exporters: exp'[e].stage = "idle"
      /\ \A r \in Restorers: res'[r].stage = "idle"
  BY <1>2, IdleFacts
<1>5. Types'
  BY <1>1, <1>2, <1>3 DEF AllInv, General, Types, FileTypes, SnapType, PartialType, TargetType,
     ProcessTypes, ExpType, ResType, CountTypes
<1>6. General'
  BY <1>1, <1>4, <1>5 DEF General, ProcessInv, InAccount, Closing
<1>7. /\ \A e \in Exporters: ExpGood(e)'
      /\ \A r \in Restorers: ResGood(r)'
      /\ ~Done' /\ ~Placing'
  BY <1>4 DEF ExpGood, ResGood, Done, Placing, Holding
<1>8. OneExporter => ExportInv'
  BY <1>1, <1>7 DEF AllInv, ExportInv, BackupRestorable
<1>9. OneRestorer => RestoreInv'
  BY <1>1, <1>7 DEF AllInv, RestoreInv, ServedIsWhole
<1> QED
  BY <1>6, <1>8, <1>9 DEF AllInv, OneExporter, OneRestorer

LEMMA StartKeeps ==
  ASSUME AllInv, Start
  PROVE  AllInv'
<1>1. /\ Types /\ ProcessInv /\ FileTypes /\ ~up /\ ~session
      /\ \A e \in Exporters: exp[e].stage = "idle"
      /\ \A r \in Restorers: res[r].stage = "idle"
  BY DEF AllInv, General, Types, ProcessInv, Start
<1>2. /\ main # None => main.body # Torn
      /\ main' = IF main = None THEN File(None, Empty) ELSE Orphan(main)
      /\ old' = Orphan(old) /\ staged' = Orphan(staged)
      /\ up' = TRUE /\ pool' = TRUE
      /\ lastData' = IF main'.body \in Database THEN main'.body.data ELSE lastData
      /\ UNCHANGED <<session, snap, partial, backup, exp, res, known, writes, stops, failures>>
  BY DEF Start, exports, counts
<1>3. /\ main' \in DatabaseFile /\ main' # None /\ main'.by = None /\ main'.body # Torn
  BY ZenonT(60), <1>1, <1>2, OrphanFacts, DatabaseFileFacts, BodyFacts DEF FileTypes
<1>4. /\ old' \in DatabaseFile /\ staged' \in DatabaseFile
      /\ old' # None => old # None /\ old'.by = None /\ old'.body = old.body
  BY <1>1, <1>2, OrphanFacts DEF FileTypes
<1>5. lastData' \in Nat /\ (main'.body \in Database => main'.body.data = lastData')
  BY <1>1, <1>2 DEF Types, CountTypes, Database
<1>6. Types'
  BY <1>1, <1>2, <1>3, <1>4, <1>5 DEF Types, FileTypes, SnapType, PartialType, TargetType,
     ProcessTypes, ExpType, ResType, CountTypes, ExpCarries, ResCarries
<1>7. /\ \A e \in Exporters: exp'[e].stage = "idle"
      /\ \A r \in Restorers: res'[r].stage = "idle"
  BY <1>1, <1>2
<1>8. General'
  BY <1>1, <1>2, <1>3, <1>6, <1>7 DEF General, ProcessInv, InAccount, Closing
<1>9. /\ \A e \in Exporters: ExpGood(e)'
      /\ \A r \in Restorers: ResGood(r)'
      /\ ~Done' /\ ~Placing'
  BY <1>7 DEF ExpGood, ResGood, Done, Placing, Holding
<1>10. OneExporter => ExportInv'
  BY <1>2, <1>9 DEF AllInv, ExportInv, BackupRestorable
<1>11. ASSUME OneRestorer PROVE RestoreInv'
  <2>1. ServedIsWhole
    BY <1>11 DEF AllInv, RestoreInv
  <2>2. ServedIsWhole'
    BY <1>3, <1>4, <2>1 DEF ServedIsWhole
  <2> QED
    BY <1>3, <1>4, <1>5, <1>9, <2>2 DEF RestoreInv
<1> QED
  BY <1>8, <1>10, <1>11 DEF AllInv, OneExporter, OneRestorer

LEMMA SessionKeeps ==
  ASSUME AllInv, SignIn \/ SignOut
  PROVE  AllInv'
<1>1. UNCHANGED <<main, old, staged, snap, partial, backup, up, pool, exp, res, known, lastData,
                  writes, stops, failures>>
  BY DEF SignIn, SignOut, files, exports, counts
<1>2. session' \in BOOLEAN /\ (session' => up /\ (pool => main.body \in Database))
  BY DEF SignIn, SignOut, Served
<1>3. Types'
  BY <1>1, <1>2 DEF AllInv, General, Types, FileTypes, SnapType, PartialType, TargetType,
     ProcessTypes, ExpType, ResType, CountTypes, ExpCarries, ResCarries
<1>4. General'
  BY <1>1, <1>2, <1>3 DEF AllInv, General, ProcessInv, InAccount
<1>5. (\A e \in Exporters: ExpGood(e)) => \A e \in Exporters: ExpGood(e)'
  BY <1>1 DEF ExpGood
<1>6. (\A r \in Restorers: ResGood(r)) => \A r \in Restorers: ResGood(r)'
  BY <1>1 DEF ResGood
<1>7. OneExporter => ExportInv'
  BY <1>1, <1>5 DEF AllInv, ExportInv, BackupRestorable
<1>8. OneRestorer => RestoreInv'
  BY <1>1, <1>6 DEF AllInv, RestoreInv, ServedIsWhole, Done, Placing
<1> QED
  BY <1>4, <1>7, <1>8 DEF AllInv, OneExporter, OneRestorer

\* A write of a session, or the first account: other data, the same seal if one was there.
LEMMA WriteKeeps ==
  ASSUME AllInv, Edit \/ \E pw \in Passwords, ph \in FreshPhrases: Bootstrap(pw, ph)
  PROVE  AllInv'
<1>1. /\ Types /\ FileTypes /\ ProcessInv /\ InAccount /\ up /\ pool /\ main # None
      /\ main.by = None
      /\ \A r \in Restorers: res[r].stage \notin Closing
  BY DEF AllInv, General, Types, ProcessInv, Edit, Bootstrap, Served
<1>2. /\ UNCHANGED <<old, staged, snap, partial, backup, up, pool, session, exp, res, stops,
                     failures>>
      /\ writes' \in 0..MaxWrites /\ writes' \in Nat /\ lastData' = writes'
  <2>1. writes \in 0..MaxWrites /\ MaxWrites \in Nat
    BY <1>1, BackupAssumption DEF Types, CountTypes
  <2>2. writes < MaxWrites /\ writes' = writes + 1 /\ lastData' = writes'
    BY DEF Edit, Bootstrap
  <2>3. UNCHANGED <<old, staged, snap, partial, backup, up, pool, session, exp, res, stops,
                    failures>>
    BY DEF Edit, Bootstrap, exports, process
  <2> QED
    BY <2>1, <2>2, <2>3
<1>3. known \subseteq known' /\ known' \subseteq Phrases
  BY <1>1 DEF Edit, Bootstrap, FreshPhrases, Types, CountTypes
<1>4. /\ main' \in DatabaseFile /\ main' # None /\ main'.by = None /\ main'.body \in Database
      /\ main'.body.data = lastData'
      /\ main.body \in Database => main'.body.sealed = main.body.sealed
  <2>1. CASE Edit
    <3>1. main' = [main EXCEPT !.body.data = writes'] /\ main.body \in Database
      BY <2>1 DEF Edit, Served
    <3> QED
      BY <1>1, <1>2, <3>1, BodyEdits
  <2>2. ASSUME NEW pw \in Passwords, NEW ph \in FreshPhrases, Bootstrap(pw, ph)
        PROVE  /\ main' \in DatabaseFile /\ main' # None /\ main'.by = None
               /\ main'.body \in Database /\ main'.body.data = lastData'
               /\ main.body \in Database => main'.body.sealed = main.body.sealed
    <3> DEFINE db == NewAccount(writes', pw, ph, "account")
    <3>1. db \in Database /\ db.data = writes'
      BY <1>2, AccountFacts, BackupAssumption DEF FreshPhrases
    <3>2. main' = [main EXCEPT !.body = db] /\ main.body = Empty
      BY <2>2 DEF Bootstrap
    <3> HIDE DEF db
    <3>3. main' = File(main.by, db)
      BY <1>1, <3>1, <3>2, DatabaseFileFacts, BodyFacts DEF FileTypes
    <3>4. main' \in DatabaseFile /\ main' # None /\ main'.by = main.by /\ main'.body = db
      BY <1>1, <3>1, <3>3, DatabaseFileFacts, BodyFacts DEF FileTypes
    <3> QED
      BY <1>1, <1>2, <3>1, <3>2, <3>4, BodyFacts
  <2> QED
    BY <2>1, <2>2
<1>5. Types'
  BY <1>1, <1>2, <1>3, <1>4 DEF Types, FileTypes, SnapType, PartialType, TargetType,
     ProcessTypes, ExpType, ResType, CountTypes, ExpCarries, ResCarries
<1>6. General'
  BY <1>1, <1>2, <1>4, <1>5 DEF General, ProcessInv, InAccount
<1>7. ASSUME NEW e \in Exporters, ExpGood(e) PROVE ExpGood(e)'
  <2>1. exp[e].stage # "idle" => main.body \in Database
    BY <1>1 DEF InAccount
  <2> QED
    BY <1>2, <1>3, <1>4, <1>7, <2>1 DEF ExpGood
<1>8. ASSUME NEW r \in Restorers, ResGood(r) PROVE ResGood(r)'
  BY <1>1, <1>2, <1>8 DEF ResGood, Closing
<1>9. ASSUME ExportInv PROVE ExportInv'
  <2>1. BackupRestorable'
    BY <1>2, <1>3, <1>9 DEF ExportInv, BackupRestorable
  <2> QED
    BY <1>7, <1>9, <2>1 DEF ExportInv
<1>10. ASSUME RestoreInv PROVE RestoreInv'
  <2>1. ServedIsWhole'
    BY <1>2, <1>4, <1>10, BodyFacts DEF RestoreInv, ServedIsWhole
  <2>2. ~Done'
    BY <1>1, <1>2 DEF Done, Closing
  <2>3. \A r \in Restorers: ResGood(r)'
    BY <1>8, <1>10 DEF RestoreInv
  <2> QED
    BY <1>2, <1>4, <1>10, <2>1, <2>2, <2>3 DEF RestoreInv
<1> QED
  BY <1>6, <1>9, <1>10 DEF AllInv, OneExporter, OneRestorer

----------------------------------------------------------------------------
(* Every step.                                                               *)

LEMMA StepAll ==
  ASSUME AllInv, [Next]_vars
  PROVE  AllInv'
<1>1. CASE Process
  BY <1>1, StartKeeps, DownKeeps, SessionKeeps, WriteKeeps DEF Process
<1>2. ASSUME NEW e \in Exporters, Export(e) PROVE AllInv'
  <2>1. General'
    BY <1>2, ExportGeneral DEF AllInv
  <2>2. ASSUME OneExporter PROVE ExportInv'
    <3>1. ExpGood(e)' /\ BackupRestorable'
      BY <1>2, <2>2, ExportGood, BackupsGood DEF AllInv
    <3>2. \A f \in Exporters: f = e
      BY <2>2 DEF OneExporter
    <3> QED
      BY <3>1, <3>2 DEF ExportInv
  <2>3. ASSUME OneRestorer PROVE RestoreInv'
    BY <1>2, <2>3, ExportLeavesRestore DEF AllInv
  <2> QED
    BY <2>1, <2>2, <2>3 DEF AllInv, OneExporter, OneRestorer
<1>3. ASSUME NEW r \in Restorers, Restore(r) PROVE AllInv'
  <2>1. CASE Restart(r)
    BY <2>1, DownKeeps
  <2>2. CASE ~Restart(r)
    <3>1. General'
      BY <1>3, <2>2, RestoreGeneral DEF AllInv
    <3>2. ASSUME OneExporter PROVE ExportInv'
      BY <1>3, <2>2, <3>2, RestoreLeavesExport DEF AllInv
    <3>3. ASSUME OneRestorer PROVE RestoreInv'
      BY <1>3, <2>2, <3>3, RestoreGood DEF AllInv
    <3> QED
      BY <3>1, <3>2, <3>3 DEF AllInv, OneExporter, OneRestorer
  <2> QED
    BY <2>1, <2>2
<1>4. CASE UNCHANGED vars
  <2>1. UNCHANGED <<main, old, staged, snap, partial, backup, up, pool, session, exp, res, known,
                    lastData, writes, stops, failures>>
    BY <1>4 DEF vars
  <2>2. Types'
    BY <2>1 DEF AllInv, General, Types, FileTypes, SnapType, PartialType, TargetType,
       ProcessTypes, ExpType, ResType, CountTypes, ExpCarries, ResCarries
  <2>3. General'
    BY <2>1, <2>2 DEF AllInv, General, ProcessInv, InAccount
  <2>4. ExportInv => ExportInv'
    BY <2>1 DEF ExportInv, ExpGood, BackupRestorable
  <2>5. RestoreInv => RestoreInv'
    BY <2>1 DEF RestoreInv, ResGood, ServedIsWhole, Done, Placing
  <2> QED
    BY <2>3, <2>4, <2>5 DEF AllInv, OneExporter, OneRestorer
<1> QED
  BY <1>1, <1>2, <1>3, <1>4 DEF Next

LEMMA AllInvariant == Spec => []AllInv
<1>1. Init => AllInv
  BY InitAll
<1>2. AllInv /\ [Next]_vars => AllInv'
  BY StepAll
<1> QED
  BY <1>1, <1>2, PTL DEF Spec

\* Types, for any number of exports and restores at once.
THEOREM BackupTypeCorrect == Spec => []TypeOK
<1>1. AllInv => TypeOK
  BY TypesAreTypeOK DEF AllInv, General
<1> QED
  BY <1>1, AllInvariant, PTL

\* A backup under its own name can be restored with a phrase the user has kept,
\* wherever an export was stopped or failed, whatever restores run beside it.
THEOREM BackupsCanBeRestored ==
  ASSUME OneExporter
  PROVE  Spec => []BackupRestorable
<1>1. AllInv => BackupRestorable
  BY DEF AllInv, ExportInv
<1> QED
  BY <1>1, AllInvariant, PTL

\* Neither the database nor the one it replaced is ever written in part.
THEOREM ServedStaysWhole ==
  ASSUME OneRestorer
  PROVE  Spec => []ServedIsWhole
<1>1. AllInv => ServedIsWhole
  BY DEF AllInv, RestoreInv
<1> QED
  BY <1>1, AllInvariant, PTL

\* A restore that reports success left the backup under the database's name,
\* opening with the password and the phrase given.
THEOREM RestoredDatabaseOpens ==
  ASSUME OneRestorer
  PROVE  Spec => []RestoredOpens
<1>1. AllInv => RestoredOpens
  BY DEF AllInv, RestoreInv, ResGood, RestoredOpens
<1> QED
  BY <1>1, AllInvariant, PTL

\* And kept the database it replaced, with its last write.
THEOREM WayBackIsKept ==
  ASSUME OneRestorer
  PROVE  Spec => []WayBackKept
<1>1. ASSUME AllInv, NEW r \in Restorers, res[r].stage = "done"
      PROVE  old # None /\ (old.body # Empty => old.body.data = lastData)
  <2>1. old # None /\ (old.body \in Database => old.body.data = lastData)
        /\ old.body # Torn /\ old \in DatabaseFile
    BY <1>1 DEF AllInv, RestoreInv, ResGood, ServedIsWhole, General, Types, FileTypes
  <2>2. old.body \in Body
    BY <2>1, DatabaseFileFacts
  <2> QED
    BY <2>1, <2>2 DEF Body
<1>2. AllInv => WayBackKept
  BY <1>1 DEF WayBackKept
<1> QED
  BY <1>2, AllInvariant, PTL

============================================================================
