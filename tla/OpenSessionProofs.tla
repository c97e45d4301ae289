------------------------- MODULE OpenSessionProofs -------------------------
(***************************************************************************)
(* Proofs about OpenSession, for any number of threads and workers and any *)
(* bounds.  The clipboard and the security centre are argued apart: few    *)
(* actions touch both, and those do so through ClearNow and Invalidate.    *)
(***************************************************************************)
EXTENDS OpenSession, TLAPS

----------------------------------------------------------------------------
(* The clipboard.                                                          *)

ClipType ==
    /\ clip \in [of : {"other", "text", "empty", "copy"}, copy : 1..copies \cup {None}]
    /\ (clip.of = "copy") = (clip.copy # None) /\ local \in BOOLEAN
    /\ copies \in 0..MaxCopies /\ alive \subseteq 1..copies /\ pending \in BOOLEAN
    /\ timer \in 1..copies \cup {None} /\ content \in 1..copies \cup {None}
    /\ active \in [copy : 1..copies, kind : Kinds] \cup {None}
    /\ stuck \subseteq 1..copies
    /\ errors \in 0..MaxErrors

\* Timer, provider, indicator and the pending mark are of one copy, the last one.
OneCopy ==
    /\ timer = content
    /\ pending <=> content # None
    /\ active = None <=> content = None
    /\ active # None => active.copy = content
    /\ content # None => content = copies

\* What can be pasted is of that copy: no other provider is alive, and what
\* Windows holds of ours is that copy or was refused to us.
OnlyOurs ==
    /\ alive \subseteq {content}
    /\ clip.of = "copy" => local
    /\ windows /\ clip.copy # None /\ clip.copy \notin stuck => clip.copy = content

ClipInv == windows \in BOOLEAN /\ ClipType /\ OneCopy /\ OnlyOurs

\* The indicator of a session without a key shows a phrase or nothing.
KeyedCopy == (~key \/ ~up) /\ active # None => active.kind = "phrase"

LEMMA ClipFacts ==
  ASSUME ClipInv
  PROVE  Served # None /\ Served \notin stuck =>
           timer = Served /\ active # None /\ active.copy = Served
BY NoneIsNoNumber DEF ClipInv, ClipType, OneCopy, OnlyOurs, Served

LEMMA ClipStutters ==
  ASSUME ClipInv, windows' = windows, UNCHANGED clipboard, errors' \in 0..MaxErrors
  PROVE  ClipInv'
BY DEF ClipInv, ClipType, OneCopy, OnlyOurs, clipboard

LEMMA WipeType ==
  ASSUME ClipInv, Wipe
  PROVE  /\ errors' \in 0..MaxErrors
         /\ stuck' \subseteq 1..copies
         /\ clip' \in {clip, Text("empty")}
         /\ stuck \subseteq stuck'
         /\ windows => clip'.copy = None \/ clip'.copy \in stuck'
<1> USE BoundsAreNumbers, NoneIsNoNumber DEF ClipInv, ClipType, Wipe
<1>1. CASE clip' = Text("empty") /\ (windows \/ focused) /\ UNCHANGED <<stuck, errors>>
  BY <1>1 DEF Text
<1>2. CASE ~windows /\ ~focused /\ UNCHANGED <<clip, stuck, errors>>
  BY <1>2
<1>3. CASE /\ windows
           /\ errors < MaxErrors /\ errors' = errors + 1
           /\ stuck' = stuck \cup ({clip.copy} \ {None})
           /\ UNCHANGED clip
  <2>1. clip.copy \in 1..copies \cup {None}
    OBVIOUS
  <2>2. errors' \in 0..MaxErrors
    BY <1>3
  <2> QED
    BY <1>3, <2>1, <2>2
<1> QED
  BY <1>1, <1>2, <1>3

\* Every way a copy ends: nothing of it is left, or Windows refused.
Ended ==
    /\ timer' = None /\ content' = None /\ active' = None /\ pending' = FALSE
    /\ alive' = Expired(content)
    /\ IF pending /\ local THEN Wipe ELSE UNCHANGED <<clip, stuck, errors>>
    /\ UNCHANGED <<local, copies>>

LEMMA EndedKeeps ==
  ASSUME ClipInv, windows' = windows, Ended
  PROVE  ClipInv' /\ active' = None
<1> USE NoneIsNoNumber DEF ClipInv, Ended, Expired
<1>1. alive' = {}
  BY DEF OnlyOurs, ClipType
<1>2. CASE pending /\ local
  <2>1. Wipe
    BY <1>2
  <2>2. ClipType'
    <3>1. clip' = clip \/ clip' = Text("empty")
      BY <2>1, WipeType
    <3>2. clip' \in [of : {"other", "text", "empty", "copy"}, copy : 1..copies \cup {None}]
          /\ (clip'.of = "copy") = (clip'.copy # None)
      BY <3>1 DEF ClipType, Text
    <3>3. stuck' \subseteq 1..copies /\ errors' \in 0..MaxErrors
      BY <2>1, WipeType
    <3> QED
      BY <1>1, <3>2, <3>3 DEF ClipType
  <2>3. OnlyOurs'
    BY <1>1, <2>1, WipeType DEF OnlyOurs, ClipType, Text
  <2> QED
    BY <2>2, <2>3 DEF OneCopy
<1>3. CASE ~(pending /\ local)
  <2>1. UNCHANGED <<clip, stuck, errors>>
    BY <1>3
  <2>2. ClipType'
    BY <1>1, <2>1 DEF ClipType
  <2>3. windows /\ clip.copy # None => clip.copy \in stuck
    BY <1>3 DEF OneCopy, OnlyOurs, ClipType
  <2> QED
    BY <1>1, <2>1, <2>2, <2>3 DEF OneCopy, OnlyOurs
<1> QED
  BY <1>2, <1>3

LEMMA ClearKeeps ==
  ASSUME ClipInv, windows' = windows, ClearNow
  PROVE  ClipInv' /\ active' = None
BY EndedKeeps DEF ClearNow, Ended

LEMMA CopyKeeps ==
  ASSUME ClipInv, windows' = windows, NEW kind \in Kinds, TryCopy(kind)
  PROVE  ClipInv' /\ (active' = active \/ active'.kind = kind)
<1> USE BoundsAreNumbers, NoneIsNoNumber DEF ClipInv
<1>1. CASE CopySensitive(kind) /\ UNCHANGED errors
  <2> USE <1>1 DEF CopySensitive
  <2>1. copies' \in 1..MaxCopies /\ copies' = copies + 1
    BY DEF ClipType
  <2>2. alive' \subseteq {copies'}
    BY DEF OnlyOurs, Expired
  <2>3. 1..copies \subseteq 1..copies' /\ copies' \in 1..copies' /\ copies' # None
    BY <2>1 DEF ClipType
  <2>4. ClipType'
    <3>1. clip' = [of |-> "copy", copy |-> copies']
          /\ active' = [copy |-> copies', kind |-> kind]
      OBVIOUS
    <3>2. clip' \in [of : {"other", "text", "empty", "copy"}, copy : 1..copies' \cup {None}]
          /\ clip'.of = "copy" /\ clip'.copy # None
          /\ active' \in [copy : 1..copies', kind : Kinds]
      BY <2>3, <3>1
    <3>3. alive' \subseteq 1..copies' /\ stuck' \subseteq 1..copies'
      BY <2>2, <2>3 DEF ClipType
    <3>4. copies' \in 0..MaxCopies /\ errors' \in 0..MaxErrors
      BY <2>1 DEF ClipType
    <3> QED
      BY <2>3, <3>2, <3>3, <3>4 DEF ClipType
  <2>5. active' # None /\ active'.copy = copies' /\ active'.kind = kind
    <3>1. [copy |-> copies', kind |-> kind] \in [copy : Nat, kind : Kinds]
      BY <2>3
    <3> QED
      BY <3>1, NoneIsNoCopy
  <2>6. OneCopy'
    BY <2>3, <2>5 DEF OneCopy
  <2>7. OnlyOurs'
    BY <2>2 DEF OnlyOurs
  <2> QED
    BY <2>4, <2>5, <2>6, <2>7
<1>2. CASE errors < MaxErrors /\ errors' = errors + 1 /\ UNCHANGED clipboard
  <2>1. errors' \in 0..MaxErrors
    BY <1>2 DEF ClipType
  <2> QED
    BY <1>2, <2>1, ClipStutters DEF clipboard
<1> QED
  BY <1>1, <1>2 DEF TryCopy

----------------------------------------------------------------------------
(* The security centre.                                                    *)

CentreType ==
    /\ rev \in Nat /\ asked \in 0..rev
    /\ report \in 0..rev \cup {None} /\ failed \in BOOLEAN /\ armed \in BOOLEAN
    /\ scan \in [Scans -> Worker \cup {Rest}]
    /\ \A s \in Scans : scan[s] \in Worker => scan[s].found \in 0..rev \cup {None}
    /\ busy = \E s \in Scans : scan[s].stage # "idle" /\ scan[s].live

\* A worker whose answer counts has a session that is open, and read after the
\* last refresh.
Current ==
    \A s \in Scans : scan[s].stage # "idle" /\ scan[s].live =>
        key /\ (scan[s].found # None => scan[s].found >= asked)

CentreInv == key \in BOOLEAN /\ CentreType /\ Current /\ ReportFresh

LEMMA StoppedFacts ==
  ASSUME CentreInv
  PROVE  /\ Stopped(scan) \in [Scans -> Worker \cup {Rest}]
         /\ \A s \in Scans : (Stopped(scan)[s].stage = "idle") = (scan[s].stage = "idle")
         /\ \A s \in Scans : Stopped(scan)[s].stage # "idle" => ~Stopped(scan)[s].live
         /\ \A s \in Scans : Stopped(scan)[s] \in Worker =>
                               Stopped(scan)[s].found \in 0..rev \cup {None}
<1> DEFINE old == Stopped(scan)
<1>1. \A s \in Scans : old[s] = IF scan[s].stage = "idle" THEN Rest
                              ELSE [scan[s] EXCEPT !.live = FALSE]
  BY DEF Stopped
<1>2. \A s \in Scans : scan[s] \in Worker \/ scan[s] = Rest
  BY DEF CentreInv, CentreType
<1>3. \A s \in Scans : scan[s].stage = "idle" <=> scan[s] = Rest
  BY <1>2 DEF Worker, Rest
<1>4. ASSUME NEW s \in Scans, scan[s] \in Worker
      PROVE  old[s] \in Worker /\ old[s].stage # "idle" /\ ~old[s].live
             /\ old[s].found = scan[s].found /\ scan[s].stage # "idle"
  BY <1>1, <1>4 DEF Worker
<1>5. ASSUME NEW s \in Scans, scan[s] = Rest
      PROVE  old[s] = Rest /\ Rest.stage = "idle" /\ Rest \notin Worker
  BY <1>1, <1>5 DEF Worker, Rest
<1>6. old \in [Scans -> Worker \cup {Rest}]
  BY <1>2, <1>4, <1>5 DEF Stopped
<1> QED
  BY <1>2, <1>4, <1>5, <1>6 DEF CentreInv, CentreType

LEMMA InvalidateKeeps ==
  ASSUME CentreInv, key' \in BOOLEAN, rev' = rev, asked' \in 0..rev, NEW open \in BOOLEAN,
         Invalidate(open)
  PROVE  CentreInv'
BY StoppedFacts, NoneIsNoNumber
DEF CentreInv, CentreType, Current, ReportFresh, Invalidate

LEMMA BeginKeeps ==
  ASSUME CentreInv, UNCHANGED <<key, rev, asked>>, BeginScan
  PROVE  CentreInv'
<1> USE DEF CentreInv, CentreType, Current, ReportFresh
<1>1. CASE busy
  BY <1>1 DEF BeginScan
<1>2. CASE ~busy /\ ~key
  BY <1>2, StoppedFacts DEF BeginScan
<1>3. CASE ~busy /\ key
  <2> DEFINE new == [stage |-> "run", live |-> TRUE, found |-> None]
             old == Stopped(scan)
  <2>1. Free(scan) # {} /\ scan' = Start(old, new) /\ report' = None /\ failed' = FALSE
        /\ busy' = TRUE /\ armed' = FALSE
    BY <1>3 DEF BeginScan
  <2>2. Free(old) # {} /\ Free(old) \subseteq Scans
    BY <2>1, StoppedFacts DEF Free
  <2>3. PICK s \in Scans : scan' = [old EXCEPT ![s] = new]
    BY <2>1, <2>2 DEF Start
  <2>4. new \in Worker
    BY DEF Worker
  <2> HIDE DEF old
  <2>5. old \in [Scans -> Worker \cup {Rest}]
        /\ (\A u \in Scans : old[u].stage # "idle" => ~old[u].live)
        /\ (\A u \in Scans : old[u] \in Worker => old[u].found \in 0..rev \cup {None})
    BY StoppedFacts DEF old
  <2>6. scan' \in [Scans -> Worker \cup {Rest}]
    BY <2>3, <2>4, <2>5
  <2>7. \A u \in Scans : scan'[u] = IF u = s THEN new ELSE old[u]
    BY <2>3, <2>5
  <2>8. \A u \in Scans : u # s => (scan'[u].stage # "idle" => ~scan'[u].live)
    BY <2>5, <2>7
  <2>9. scan'[s].stage # "idle" /\ scan'[s].live /\ scan'[s].found = None
    BY <2>7
  <2>10. CentreType'
    BY <2>1, <2>5, <2>6, <2>7, <2>9
  <2> QED
    BY <1>3, <2>1, <2>8, <2>9, <2>10
<1> QED
  BY <1>1, <1>2, <1>3

----------------------------------------------------------------------------
(* What is left: the threads that decrypt, and the counters.               *)

RestType ==
    /\ up \in BOOLEAN /\ session \in Nat /\ phrase \in BOOLEAN /\ focused \in BOOLEAN
    /\ fetch \in [Fetches -> [stage : {"run", "done"}, session : Nat, open : BOOLEAN,
                              value : BOOLEAN] \cup {Rest}]
    /\ inputs \in 0..MaxInputs /\ mutations \in 0..MaxMutations

Inv == ClipInv /\ KeyedCopy /\ CentreInv /\ RestType

LEMMA InvGivesTypes == Inv => TypeOK
BY DEF Inv, ClipInv, ClipType, CentreInv, CentreType, RestType, TypeOK

LEMMA InitInv == Init => Inv
<1> SUFFICES ASSUME Init PROVE Inv
  OBVIOUS
<1> USE BoundsAreNumbers, NoneIsNoNumber DEF Init
<1>1. ClipInv
  <2>1. clip = [of |-> "other", copy |-> None]
    BY DEF Text
  <2>2. ClipType
    <3>1. errors \in 0..MaxErrors /\ copies \in 0..MaxCopies
      OBVIOUS
    <3>2. clip \in [of : {"other", "text", "empty", "copy"}, copy : 1..copies \cup {None}]
          /\ (clip.of = "copy") = (clip.copy # None)
      BY <2>1
    <3> QED
      BY <3>1, <3>2 DEF ClipType
  <2>3. OneCopy
    BY DEF OneCopy
  <2>4. OnlyOurs
    BY <2>1 DEF OnlyOurs
  <2> QED
    BY <2>2, <2>3, <2>4 DEF ClipInv
<1>2. KeyedCopy
  BY DEF KeyedCopy
<1>3. CentreInv
  <2>1. scan \in [Scans -> {Rest}] /\ Rest.stage = "idle" /\ Rest \notin Worker
    BY DEF Rest, Worker
  <2>2. rev \in Nat /\ asked \in 0..rev
    OBVIOUS
  <2>3. \A s \in Scans : scan[s].stage = "idle" /\ scan[s] \notin Worker
    BY <2>1
  <2>4. CentreType
    BY <2>1, <2>2, <2>3 DEF CentreType
  <2> QED
    BY <2>3, <2>4 DEF CentreInv, Current, ReportFresh
<1>4. RestType
  <2>1. inputs \in 0..MaxInputs /\ mutations \in 0..MaxMutations
    OBVIOUS
  <2> QED
    BY <2>1 DEF RestType
<1> QED
  BY <1>1, <1>2, <1>3, <1>4 DEF Inv

LEMMA ClipSame ==
  ASSUME Inv, UNCHANGED <<windows, clipboard, errors>>
  PROVE  ClipInv'
BY ClipStutters DEF Inv, ClipInv, ClipType

LEMMA CentreSame ==
  ASSUME Inv, UNCHANGED <<key, rev, asked, centre>>
  PROVE  CentreInv'
BY DEF Inv, CentreInv, CentreType, Current, ReportFresh, centre

LEMMA KeyedSame ==
  ASSUME Inv, UNCHANGED <<up, key, active>>
  PROVE  KeyedCopy'
BY DEF Inv, KeyedCopy

LEMMA InputType ==
  ASSUME Inv, Input
  PROVE  up /\ inputs' \in 0..MaxInputs
BY BoundsAreNumbers DEF Inv, RestType, Input

\* One error more.
LEMMA ErrorType ==
  ASSUME Inv, errors < MaxErrors, errors' = errors + 1
  PROVE  errors' \in 0..MaxErrors
BY BoundsAreNumbers DEF Inv, ClipInv, ClipType

LEMMA ErrorOnly ==
  ASSUME Inv, UNCHANGED <<windows, clipboard>>,
         errors' = errors \/ (errors < MaxErrors /\ errors' = errors + 1)
  PROVE  ClipInv'
BY ErrorType, ClipStutters DEF Inv, ClipInv, ClipType

----------------------------------------------------------------------------
(* The steps, by what they touch.                                          *)

LEMMA CopyingSteps ==
  ASSUME Inv, CopyLogin \/ CopyPhrase \/ \E f \in Fetches : LandFetch(f)
  PROVE  Inv'
<1> USE DEF Inv
<1>1. ASSUME NEW kind \in Kinds, TryCopy(kind), UNCHANGED <<windows, up, key>>,
             kind = "phrase" \/ (key /\ up)
      PROVE  ClipInv' /\ KeyedCopy'
  <2>1. ClipInv' /\ (active' = active \/ active'.kind = kind)
    BY <1>1, CopyKeeps
  <2> QED
    BY <1>1, <2>1 DEF KeyedCopy
<1>2. CASE CopyLogin
  <2>1. ClipInv' /\ KeyedCopy'
    BY <1>1, <1>2, InputType DEF CopyLogin, Acts, Kinds
  <2>2. CentreInv' /\ RestType'
    BY <1>2, InputType, CentreSame DEF CopyLogin, Acts, RestType
  <2> QED
    BY <2>1, <2>2
<1>3. CASE CopyPhrase
  <2>1. ClipInv' /\ KeyedCopy'
    BY <1>1, <1>3 DEF CopyPhrase, Kinds
  <2>2. CentreInv' /\ RestType'
    BY <1>3, InputType, CentreSame DEF CopyPhrase, RestType
  <2> QED
    BY <2>1, <2>2
<1>4. ASSUME NEW f \in Fetches, LandFetch(f)
      PROVE  Inv'
  <2>1. ClipInv' /\ KeyedCopy'
    <3>1. CASE CopyDecision(f)
      <4>1. TryCopy("password") /\ key /\ up /\ UNCHANGED <<windows, up, key>>
        BY <1>4, <3>1 DEF LandFetch, CopyDecision
      <4> QED
        BY <1>1, <4>1 DEF Kinds
    <3>2. CASE ~CopyDecision(f)
      BY <1>4, <3>2, ClipSame, KeyedSame DEF LandFetch, clipboard
    <3> QED
      BY <3>1, <3>2
  <2>2. CentreInv' /\ RestType'
    BY <1>4, CentreSame DEF LandFetch, RestType
  <2> QED
    BY <2>1, <2>2
<1> QED
  BY <1>2, <1>3, <1>4

LEMMA ClearingSteps ==
  ASSUME Inv, ClosePhrase \/ PressIndicator \/ TimerFires \/ Shutdown \/ Panic
  PROVE  Inv'
<1> USE DEF Inv
<1>1. ASSUME ClipInv' /\ active' = None, UNCHANGED <<key, rev, asked, centre>>
      PROVE  ClipInv' /\ KeyedCopy' /\ CentreInv'
  BY <1>1, CentreSame DEF KeyedCopy
<1>2. CASE ClosePhrase
  <2>1. ClipInv' /\ active' = None
    BY <1>2, ClearKeeps DEF ClosePhrase
  <2>2. RestType'
    BY <1>2 DEF ClosePhrase, RestType
  <2> QED
    BY <1>1, <1>2, <2>1, <2>2 DEF ClosePhrase
<1>3. CASE PressIndicator
  <2>1. ClipInv' /\ active' = None
    BY <1>3, ClearKeeps DEF PressIndicator
  <2>2. RestType'
    BY <1>3, InputType DEF PressIndicator, Acts, RestType
  <2> QED
    BY <1>1, <1>3, <2>1, <2>2 DEF PressIndicator
<1>4. CASE TimerFires
  <2>1. Ended
    BY <1>4, NoneIsNoNumber DEF TimerFires, Ended, ClipInv, ClipType, OneCopy
  <2>2. ClipInv' /\ active' = None
    BY <1>4, <2>1, EndedKeeps DEF TimerFires
  <2>3. RestType'
    BY <1>4 DEF TimerFires, RestType
  <2> QED
    BY <1>1, <1>4, <2>2, <2>3 DEF TimerFires
<1>5. CASE Shutdown \/ Panic
  <2>1. ClipInv' /\ active' = None
    BY <1>5, ClearKeeps DEF Shutdown, Panic
  <2>2. RestType'
    BY <1>5, InputType DEF Shutdown, Panic, RestType
  <2> QED
    BY <1>1, <1>5, <2>1, <2>2 DEF Shutdown, Panic
<1> QED
  BY <1>2, <1>3, <1>4, <1>5

LEMMA SharedClipboardSteps ==
  ASSUME Inv, CopyPlain \/ OthersCopy \/ WatchClipboard
  PROVE  Inv'
<1> USE NoneIsNoNumber DEF Inv
<1>1. CASE CopyPlain
  <2>1. clip' = [of |-> "text", copy |-> None] /\ local' = TRUE
        /\ UNCHANGED <<windows, alive, copies, pending, timer, content, active, stuck, errors>>
    BY <1>1 DEF CopyPlain, Text
  <2>2. ClipInv'
    BY <2>1 DEF ClipInv, ClipType, OneCopy, OnlyOurs
  <2>3. KeyedCopy' /\ CentreInv'
    BY <1>1, KeyedSame, CentreSame DEF CopyPlain
  <2>4. RestType'
    BY <1>1, InputType DEF CopyPlain, Acts, RestType
  <2> QED
    BY <2>2, <2>3, <2>4
<1>2. CASE OthersCopy
  <2>1. clip' = [of |-> "other", copy |-> None]
        /\ UNCHANGED <<windows, local, alive, copies, pending, timer, content, active, stuck,
                      errors>>
    BY <1>2 DEF OthersCopy, Text, bounds
  <2>2. ClipInv'
    BY <2>1 DEF ClipInv, ClipType, OneCopy, OnlyOurs
  <2>3. KeyedCopy' /\ CentreInv'
    BY <1>2, KeyedSame, CentreSame DEF OthersCopy
  <2>4. RestType'
    BY <1>2 DEF OthersCopy, bounds, RestType
  <2> QED
    BY <2>2, <2>3, <2>4
<1>3. CASE WatchClipboard
  <2>1. clip.of = "other" /\ local' = FALSE
        /\ UNCHANGED <<windows, clip, copies, stuck, errors>>
    BY <1>3 DEF WatchClipboard, bounds
  <2>2. ClipInv' /\ (active' = active \/ active' = None)
    <3>1. CASE active = None
      <4>1. UNCHANGED <<alive, pending, timer, content, active>>
        BY <1>3, <3>1 DEF WatchClipboard
      <4> QED
        BY <2>1, <4>1 DEF ClipInv, ClipType, OneCopy, OnlyOurs
    <3>2. CASE active # None
      <4>1. timer' = None /\ content' = None /\ active' = None /\ pending' = FALSE
            /\ alive' = {}
        BY <1>3, <3>2 DEF WatchClipboard, Expired, ClipInv, OnlyOurs
      <4>2. clip.copy = None
        BY <2>1 DEF ClipInv, ClipType
      <4> QED
        BY <2>1, <4>1, <4>2 DEF ClipInv, ClipType, OneCopy, OnlyOurs
    <3> QED
      BY <3>1, <3>2
  <2>3. KeyedCopy' /\ CentreInv'
    BY <1>3, <2>2, CentreSame DEF WatchClipboard, KeyedCopy
  <2>4. RestType'
    BY <1>3 DEF WatchClipboard, bounds, RestType
  <2> QED
    BY <2>2, <2>3, <2>4
<1> QED
  BY <1>1, <1>2, <1>3

LEMMA QuietSteps ==
  ASSUME Inv,
         \/ StartFetch \/ ShowPhrase \/ ChangeFocus
         \/ \E f \in Fetches : Fetch(f)
  PROVE  Inv'
<1>1. CASE StartFetch
  <2> DEFINE new == [stage |-> "run", session |-> session, open |-> key, value |-> FALSE]
  <2>1. PICK f \in Fetches : fetch' = [fetch EXCEPT ![f] = new]
    BY <1>1 DEF StartFetch, Start, Free, Inv, RestType
  <2>2. RestType'
    <3>1. new \in [stage : {"run", "done"}, session : Nat, open : BOOLEAN, value : BOOLEAN]
      BY DEF Inv, RestType, CentreInv
    <3>2. inputs' \in 0..MaxInputs /\ UNCHANGED <<up, session, phrase, focused, mutations>>
      BY <1>1, InputType DEF StartFetch, Acts
    <3> QED
      BY <2>1, <3>1, <3>2 DEF Inv, RestType
  <2>3. ClipInv' /\ KeyedCopy' /\ CentreInv'
    BY <1>1, ClipSame, KeyedSame, CentreSame DEF StartFetch, clipboard
  <2> QED
    BY <2>2, <2>3 DEF Inv
<1>2. CASE ShowPhrase
  <2>1. RestType'
    BY <1>2, InputType DEF ShowPhrase, Acts, Inv, RestType
  <2>2. ClipInv' /\ KeyedCopy' /\ CentreInv'
    BY <1>2, ClipSame, KeyedSame, CentreSame DEF ShowPhrase, clipboard
  <2> QED
    BY <2>1, <2>2 DEF Inv
<1>3. CASE ChangeFocus
  <2>1. RestType'
    BY <1>3, InputType DEF ChangeFocus, Inv, RestType
  <2>2. ClipInv' /\ KeyedCopy' /\ CentreInv'
    BY <1>3, ClipSame, KeyedSame, CentreSame DEF ChangeFocus, clipboard
  <2> QED
    BY <2>1, <2>2 DEF Inv
<1>4. ASSUME NEW f \in Fetches, Fetch(f)
      PROVE  Inv'
  <2>1. fetch[f] \in [stage : {"run", "done"}, session : Nat, open : BOOLEAN,
                     value : BOOLEAN]
    BY <1>4 DEF Fetch, Inv, RestType, Rest
  <2>2. RestType'
    BY <1>4, <2>1 DEF Fetch, Inv, RestType
  <2>3. ClipInv'
    BY <1>4, ErrorOnly DEF Fetch, clipboard
  <2>4. KeyedCopy' /\ CentreInv'
    BY <1>4, KeyedSame, CentreSame DEF Fetch, clipboard
  <2> QED
    BY <2>2, <2>3, <2>4 DEF Inv
<1> QED
  BY <1>1, <1>2, <1>3, <1>4

LEMMA CentreSteps ==
  ASSUME Inv, ArmedFires \/ AskScan \/ CancelScan \/ Mutate \/ RefreshEntries
  PROVE  Inv'
<1> USE DEF Inv
<1>1. CASE ArmedFires
  <2>1. CentreInv'
    BY <1>1, BeginKeeps DEF ArmedFires
  <2>2. ClipInv' /\ KeyedCopy' /\ RestType'
    BY <1>1, ClipSame, KeyedSame DEF ArmedFires, clipboard, bounds, RestType
  <2> QED
    BY <2>1, <2>2
<1>2. CASE AskScan
  <2>1. CentreInv'
    BY <1>2, BeginKeeps DEF AskScan
  <2>2. ClipInv' /\ KeyedCopy'
    BY <1>2, ClipSame, KeyedSame DEF AskScan, clipboard
  <2>3. RestType'
    BY <1>2, InputType DEF AskScan, Acts, RestType
  <2> QED
    BY <2>1, <2>2, <2>3
<1>3. CASE CancelScan
  <2>1. CentreInv'
    BY <1>3, StoppedFacts DEF CancelScan, CentreInv, CentreType, Current, ReportFresh
  <2>2. ClipInv' /\ KeyedCopy'
    BY <1>3, ClipSame, KeyedSame DEF CancelScan, clipboard
  <2>3. RestType'
    BY <1>3, InputType DEF CancelScan, Acts, RestType
  <2> QED
    BY <2>1, <2>2, <2>3
<1>4. CASE Mutate
  <2>1. rev' = rev + 1 /\ UNCHANGED <<key, asked, report, failed, busy, armed, scan>>
    BY <1>4 DEF Mutate, centre
  <2>2. rev \in Nat /\ 0..rev \subseteq 0..rev' /\ rev' \in Nat
    BY <2>1 DEF CentreInv, CentreType
  <2>3. CentreInv'
    BY <2>1, <2>2 DEF CentreInv, CentreType, Current, ReportFresh
  <2>4. ClipInv' /\ KeyedCopy'
    BY <1>4, ClipSame, KeyedSame DEF Mutate, clipboard
  <2>5. mutations' \in 0..MaxMutations
    BY <1>4, BoundsAreNumbers DEF Mutate, RestType
  <2>6. RestType'
    BY <1>4, <2>5 DEF Mutate, RestType
  <2> QED
    BY <2>3, <2>4, <2>6
<1>5. CASE RefreshEntries
  <2>1. Invalidate(key) /\ asked' = rev /\ UNCHANGED <<key, rev>>
    BY <1>5 DEF RefreshEntries
  <2>2. CentreInv'
    <3>1. rev \in 0..rev /\ key \in BOOLEAN /\ key' \in BOOLEAN
      BY <2>1 DEF CentreInv, CentreType
    <3> QED
      BY <2>1, <3>1, InvalidateKeeps
  <2>3. ClipInv' /\ KeyedCopy'
    BY <1>5, ClipSame, KeyedSame DEF RefreshEntries, clipboard, bounds
  <2>4. RestType'
    BY <1>5 DEF RefreshEntries, bounds, RestType
  <2> QED
    BY <2>2, <2>3, <2>4
<1> QED
  BY <1>1, <1>2, <1>3, <1>4, <1>5

LEMMA WorkerSteps ==
  ASSUME Inv, NEW s \in Scans, Analyze(s) \/ AnswerScan(s)
  PROVE  Inv'
<1> USE DEF Inv
<1>1. /\ scan[s] \in Worker
      /\ scan[s].stage # "idle" /\ scan[s].live \in BOOLEAN
      /\ scan[s].found \in 0..rev \cup {None}
  <2>1. scan[s].stage # "idle"
    BY DEF Analyze, AnswerScan
  <2>2. scan[s] \in Worker
    BY <2>1 DEF CentreInv, CentreType, Rest
  <2> QED
    BY <2>1, <2>2 DEF CentreInv, CentreType, Worker
<1>2. CASE Analyze(s)
  <2>1. PICK w \in Worker :
          /\ scan' = [scan EXCEPT ![s] = w]
          /\ w.live = scan[s].live
          /\ w.found \in {scan[s].found, rev, None}
    <3>1. scan' = [scan EXCEPT ![s].stage = "read", ![s].found = rev]
          \/ scan' = [scan EXCEPT ![s].stage = "done"]
          \/ scan' = [scan EXCEPT ![s].stage = "done", ![s].found = None]
      BY <1>2 DEF Analyze
    <3>2. rev \in Nat
      BY DEF CentreInv, CentreType
    <3>3. CASE scan' = [scan EXCEPT ![s].stage = "read", ![s].found = rev]
      <4>1. [scan[s] EXCEPT !.stage = "read", !.found = rev] \in Worker
        BY <1>1, <3>2 DEF Worker
      <4> QED
        BY <1>1, <3>3, <4>1 DEF Worker
    <3>4. CASE scan' = [scan EXCEPT ![s].stage = "done"]
      <4>1. [scan[s] EXCEPT !.stage = "done"] \in Worker
        BY <1>1 DEF Worker
      <4> QED
        BY <1>1, <3>4, <4>1 DEF Worker
    <3>5. CASE scan' = [scan EXCEPT ![s].stage = "done", ![s].found = None]
      <4>1. [scan[s] EXCEPT !.stage = "done", !.found = None] \in Worker
        BY <1>1 DEF Worker
      <4> QED
        BY <1>1, <3>5, <4>1 DEF Worker
    <3> QED
      BY <3>1, <3>3, <3>4, <3>5
  <2>2. w.stage # "idle"
    BY DEF Worker
  <2>3. UNCHANGED <<key, rev, asked, report, failed, busy, armed>>
    BY <1>2 DEF Analyze
  <2>4. \A u \in Scans : scan'[u] = IF u = s THEN w ELSE scan[u]
    BY <2>1 DEF CentreInv, CentreType
  <2>5. \A u \in Scans : /\ scan'[u].stage = "idle" <=> scan[u].stage = "idle"
                        /\ scan'[u].live = scan[u].live
    BY <1>1, <2>1, <2>2, <2>4
  <2>6. CentreType'
    <3>1. scan' \in [Scans -> Worker \cup {Rest}]
      BY <2>1 DEF CentreInv, CentreType
    <3>2. \A u \in Scans : scan'[u] \in Worker => scan'[u].found \in 0..rev' \cup {None}
      BY <1>1, <2>1, <2>3, <2>4 DEF CentreInv, CentreType
    <3>3. (\E u \in Scans : scan'[u].stage # "idle" /\ scan'[u].live)
          <=> (\E u \in Scans : scan[u].stage # "idle" /\ scan[u].live)
      BY <2>5
    <3> QED
      BY <2>3, <3>1, <3>2, <3>3 DEF CentreInv, CentreType
  <2>7. Current'
    BY <1>1, <2>1, <2>3, <2>4 DEF CentreInv, CentreType, Current
  <2>8. CentreInv'
    BY <2>3, <2>6, <2>7 DEF CentreInv, ReportFresh
  <2>9. ClipInv' /\ KeyedCopy' /\ RestType'
    BY <1>2, ErrorOnly, KeyedSame DEF Analyze, clipboard, RestType
  <2> QED
    BY <2>8, <2>9
<1>3. CASE AnswerScan(s)
  <2>1. CentreInv'
    <3>1. CASE scan[s].live /\ key
      <4>1. /\ scan' = [Stopped(scan) EXCEPT ![s] = Rest]
            /\ busy' = FALSE /\ armed' = FALSE
            /\ report' = scan[s].found
            /\ failed' = (scan[s].found = None)
            /\ UNCHANGED <<key, rev, asked>>
        BY <1>3, <3>1 DEF AnswerScan
      <4>2. Rest.stage = "idle" /\ Rest \notin Worker
        BY DEF Rest, Worker
      <4>3. report' # None => report' >= asked
        BY <1>1, <3>1, <4>1 DEF CentreInv, Current
      <4> HIDE DEF Rest
      <4>4. CentreType' /\ Current'
        BY <1>1, <4>1, <4>2, StoppedFacts DEF CentreInv, CentreType, Current
      <4> QED
        BY <3>1, <4>1, <4>3, <4>4 DEF CentreInv, ReportFresh
    <3>2. CASE ~(scan[s].live /\ key)
      <4>1. /\ scan' = [scan EXCEPT ![s] = Rest]
            /\ UNCHANGED <<key, rev, asked, report, failed, busy, armed>>
        BY <1>3, <3>2 DEF AnswerScan
      <4>2. ~scan[s].live
        BY <1>1, <3>2 DEF CentreInv, Current
      <4>3. Rest.stage = "idle" /\ Rest \notin Worker
        BY DEF Rest, Worker
      <4> HIDE DEF Rest
      <4>4. \A u \in Scans : scan'[u] = IF u = s THEN Rest ELSE scan[u]
        BY <4>1 DEF CentreInv, CentreType
      <4>5. (\E u \in Scans : scan'[u].stage # "idle" /\ scan'[u].live)
            <=> (\E u \in Scans : scan[u].stage # "idle" /\ scan[u].live)
        BY <4>2, <4>3, <4>4
      <4>6. CentreType'
        BY <4>1, <4>3, <4>4, <4>5 DEF CentreInv, CentreType
      <4> QED
        BY <4>1, <4>3, <4>4, <4>6 DEF CentreInv, Current, ReportFresh
    <3> QED
      BY <3>1, <3>2
  <2>2. ClipInv' /\ KeyedCopy' /\ RestType'
    BY <1>3, ClipSame, KeyedSame DEF AnswerScan, clipboard, bounds, RestType
  <2> QED
    BY <2>1, <2>2
<1> QED
  BY <1>2, <1>3

LEMMA SessionSteps ==
  ASSUME Inv, Lock \/ Unlock \/ SignOut
  PROVE  Inv'
<1> USE DEF Inv
<1>1. CASE Lock \/ SignOut
  <2>1. Invalidate(FALSE) /\ key' = FALSE /\ UNCHANGED <<rev, asked>>
    BY <1>1 DEF Lock, SignOut
  <2>2. CentreInv'
    BY <2>1, InvalidateKeeps DEF CentreInv, CentreType
  <2>3. ClipInv' /\ KeyedCopy'
    BY <1>1, ClearKeeps DEF Lock, SignOut, KeyedCopy
  <2>4. inputs' \in 0..MaxInputs /\ (session' = session \/ session' = session + 1)
    BY <1>1, InputType DEF Lock, SignOut, Acts
  <2>5. UNCHANGED <<up, phrase, focused, fetch, mutations>>
    BY <1>1 DEF Lock, SignOut
  <2>6. RestType'
    BY <2>4, <2>5 DEF RestType
  <2> QED
    BY <2>2, <2>3, <2>6
<1>2. CASE Unlock
  <2>1. /\ Invalidate(TRUE) /\ key' = TRUE /\ rev' = rev
        /\ asked' = rev
    BY <1>2 DEF Unlock
  <2>2. CentreInv'
    <3>1. rev \in 0..rev
      BY DEF CentreInv, CentreType
    <3> QED
      BY <2>1, <3>1, InvalidateKeeps
  <2>3. ClipInv' /\ KeyedCopy'
    BY <1>2, ClipSame DEF Unlock, KeyedCopy, clipboard, bounds
  <2>4. RestType'
    BY <1>2 DEF Unlock, bounds, RestType
  <2> QED
    BY <2>2, <2>3, <2>4
<1> QED
  BY <1>1, <1>2

LEMMA InvHolds == Spec => []Inv
<1>1. Inv /\ Next => Inv'
  BY CopyingSteps, ClearingSteps, SharedClipboardSteps, QuietSteps, CentreSteps,
     WorkerSteps, SessionSteps DEF Next
<1>2. Inv /\ UNCHANGED vars => Inv'
  <2> SUFFICES ASSUME Inv, UNCHANGED vars PROVE Inv'
    OBVIOUS
  <2>1. ClipInv' /\ KeyedCopy' /\ CentreInv'
    BY ClipSame, KeyedSame, CentreSame DEF vars, bounds, clipboard
  <2>2. RestType'
    BY DEF Inv, RestType, vars, bounds
  <2> QED
    BY <2>1, <2>2 DEF Inv
<1> QED
  BY <1>1, <1>2, InitInv, PTL DEF Spec

----------------------------------------------------------------------------

(* Variables keep their types, and the centre is busy exactly while a worker *)
(* whose answer counts is under way (View::stop).                            *)
THEOREM OpenTypeCorrect == Spec => []TypeOK
BY InvHolds, InvGivesTypes, PTL

(* A value that can be pasted has its own timer running and is the one the   *)
(* indicator shows (copy_sensitive, watch_clipboard, Ledger).                *)
THEOREM PastedIsTimed == Spec => []ServedIsTimed
<1>1. Inv => ServedIsTimed
  BY ClipFacts DEF Inv, ServedIsTimed
<1> QED
  BY <1>1, InvHolds, PTL

(* No password or login can be pasted from a locked or closed session        *)
(* (PasswordCopier::copy, clear_now).                                        *)
THEOREM LockClearsCopies == Spec => []LockedServesNothing
<1>1. Inv => LockedServesNothing
  BY ClipFacts DEF Inv, KeyedCopy, LockedServesNothing
<1> QED
  BY <1>1, InvHolds, PTL

(* A report on screen was read after everything the last refresh announced   *)
(* (CenterDeps: generation, invalidate, clear).                              *)
THEOREM ReportsAreFresh == Spec => []ReportFresh
<1>1. Inv => ReportFresh
  BY DEF Inv, CentreInv
<1> QED
  BY <1>1, InvHolds, PTL

============================================================================
