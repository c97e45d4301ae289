-------------------------- MODULE MainWindowProofs --------------------------
(***************************************************************************)
(* Proofs about the main window, for any number of vaults, threads and     *)
(* entries and any bounds.  WorkView: one refresh fills an emptied         *)
(* sidebar, and the vault whose secrets are shown stays the active one.    *)
(* SearchMatch: the loop of within_one_edit decides exactly whether two    *)
(* words are one edit apart, and the filter shows what is asked.           *)
(* PasswordGenerator: every password it gives holds the classes it         *)
(* promises.                                                               *)
(***************************************************************************)
EXTENDS WorkView, SearchMatch, PasswordGenerator,
        FiniteSetTheorems, SequenceTheorems, TLAPS

----------------------------------------------------------------------------
(* Lists of vaults. *)

Distinct(s) == \A e, d \in DOMAIN s : s[e] = s[d] => e = d

LEMMA AppendFacts ==
  ASSUME NEW S, NEW s \in Seq(S), Distinct(s), NEW v \in S, v \notin Range(s)
  PROVE  /\ Append(s, v) \in Seq(S)
         /\ Distinct(Append(s, v))
         /\ Range(Append(s, v)) = Range(s) \cup {v}
<1> DEFINE c == Append(s, v)
<1>1. c \in Seq(S) /\ Len(c) = Len(s) + 1 /\ DOMAIN c = 1..Len(s) + 1
  OBVIOUS
<1>2. \A e \in 1..Len(s) : c[e] = s[e]
  OBVIOUS
<1>3. c[Len(s) + 1] = v
  OBVIOUS
<1> HIDE DEF c
<1>4. DOMAIN s = 1..Len(s) /\ Len(s) \in Nat
  OBVIOUS
<1>5. \A e \in DOMAIN c : e = Len(s) + 1 \/ e \in 1..Len(s)
  BY <1>1, <1>4
<1>6. Distinct(c)
  BY <1>1, <1>2, <1>3, <1>4, <1>5 DEF Distinct, Range
<1>7. Range(c) = Range(s) \cup {v}
  BY <1>1, <1>2, <1>3, <1>4, <1>5 DEF Range
<1> QED
  BY <1>1, <1>6, <1>7 DEF c

LEMMA ConcatFacts ==
  ASSUME NEW S, NEW a \in Seq(S), NEW b \in Seq(S)
  PROVE  /\ a \o b \in Seq(S) /\ Len(a \o b) = Len(a) + Len(b)
         /\ \A e \in 1..Len(a) + Len(b) :
              (a \o b)[e] = IF e <= Len(a) THEN a[e] ELSE b[e - Len(a)]
OBVIOUS

LEMMA DropFacts ==
  ASSUME NEW S, NEW s \in Seq(S), Distinct(s), NEW p \in DOMAIN s
  PROVE  LET c == SubSeq(s, 1, p - 1) \o SubSeq(s, p + 1, Len(s)) IN
         /\ c \in Seq(S)
         /\ Distinct(c)
         /\ Range(c) = Range(s) \ {s[p]}
<1> DEFINE a == SubSeq(s, 1, p - 1)
           b == SubSeq(s, p + 1, Len(s))
           c == a \o b
<1>1. Len(s) \in Nat /\ DOMAIN s = 1..Len(s) /\ p \in 1..Len(s)
  OBVIOUS
<1>2. a \in Seq(S) /\ Len(a) = p - 1 /\ \A e \in 1..p - 1 : a[e] = s[e]
  BY <1>1
<1>3. b \in Seq(S) /\ Len(b) = Len(s) - p /\ \A e \in 1..Len(s) - p : b[e] = s[e + p]
  BY <1>1
<1> HIDE DEF a, b
<1>4. c \in Seq(S) /\ Len(c) = Len(s) - 1 /\ DOMAIN c = 1..Len(s) - 1
  <2>1. c \in Seq(S) /\ Len(c) = Len(a) + Len(b)
    BY <1>2, <1>3, ConcatFacts
  <2>2. Len(a) + Len(b) = Len(s) - 1
    BY <1>1, <1>2, <1>3
  <2> QED
    BY <2>1, <2>2
<1>5. \A e \in 1..Len(s) - 1 : c[e] = IF e < p THEN s[e] ELSE s[e + 1]
  <2> SUFFICES ASSUME NEW e \in 1..Len(s) - 1
               PROVE  c[e] = IF e < p THEN s[e] ELSE s[e + 1]
    OBVIOUS
  <2>1. CASE e < p
    BY <1>1, <1>2, <1>3, <2>1
  <2>2. CASE ~(e < p)
    <3>1. e - (p - 1) \in 1..Len(s) - p /\ e - (p - 1) + p = e + 1
      BY <1>1, <2>2
    <3>2. c[e] = b[e - (p - 1)]
      BY <1>1, <1>2, <1>3, <2>2
    <3> QED
      BY <1>3, <2>2, <3>1, <3>2
  <2> QED
    BY <2>1, <2>2
<1> HIDE DEF c
<1>6. Distinct(c)
  <2> SUFFICES ASSUME NEW e \in 1..Len(s) - 1, NEW d \in 1..Len(s) - 1, c[e] = c[d]
               PROVE  e = d
    BY <1>4 DEF Distinct
  <2>1. \A k, m \in 1..Len(s) : s[k] = s[m] => k = m
    BY <1>1 DEF Distinct
  <2>2. e + 1 \in 1..Len(s) /\ d + 1 \in 1..Len(s) /\ e \in 1..Len(s) /\ d \in 1..Len(s)
    BY <1>1
  <2>3. c[e] = (IF e < p THEN s[e] ELSE s[e + 1]) /\ c[d] = IF d < p THEN s[d] ELSE s[d + 1]
    BY <1>5
  <2>4. CASE e < p /\ d < p
    BY <2>1, <2>2, <2>3, <2>4
  <2>5. CASE ~(e < p) /\ ~(d < p)
    <3>1. e + 1 = d + 1
      BY <2>1, <2>2, <2>3, <2>5
    <3> QED
      BY <3>1
  <2>6. CASE e < p /\ ~(d < p)
    <3>1. e = d + 1
      BY <2>1, <2>2, <2>3, <2>6
    <3> QED
      BY <1>1, <2>6, <3>1
  <2>7. CASE ~(e < p) /\ d < p
    <3>1. e + 1 = d
      BY <2>1, <2>2, <2>3, <2>7
    <3> QED
      BY <1>1, <2>7, <3>1
  <2> QED
    BY <2>4, <2>5, <2>6, <2>7
<1>7. Range(c) = Range(s) \ {s[p]}
  <2>1. ASSUME NEW x \in Range(c) PROVE x \in Range(s) /\ x # s[p]
    BY <1>1, <1>4, <1>5, <2>1 DEF Range, Distinct
  <2>2. ASSUME NEW x \in Range(s), x # s[p] PROVE x \in Range(c)
    <3>1. PICK e \in 1..Len(s) : x = s[e] /\ e # p
      BY <1>1, <2>2 DEF Range
    <3>2. CASE e < p
      BY <1>1, <1>4, <1>5, <3>1, <3>2 DEF Range
    <3>3. CASE e > p
      <4>1. e - 1 \in 1..Len(s) - 1 /\ ~(e - 1 < p) /\ e - 1 + 1 = e
        BY <1>1, <3>1, <3>3
      <4> QED
        BY <1>4, <1>5, <3>1, <4>1 DEF Range
    <3> QED
      BY <1>1, <3>1, <3>2, <3>3
  <2> QED
    BY <2>1, <2>2
<1> QED
  BY <1>4, <1>6, <1>7 DEF c, a, b

----------------------------------------------------------------------------
(* The invariant. *)

\* What is listed exists or existed; no list names a vault twice.
Lists ==
    /\ vaults \in Seq(Vaults) /\ used \in SUBSET Vaults
    /\ Range(vaults) \subseteq used
    /\ Distinct(vaults)
    /\ rows \in Seq(Vaults) /\ Range(rows) \subseteq used
    /\ picked \in Range(rows) \cup {None}
    /\ active \in used \cup {None}
    /\ Distinct(rows)

\* One refresh at a time, over an emptied sidebar, with a list of its own.
OneRefresh ==
    /\ refreshing \in BOOLEAN /\ creating \in BOOLEAN
    /\ refresh \in [Refreshes -> RefreshThread \cup {Rest}]
    /\ \A r \in Refreshes : refresh[r] # Rest =>
          /\ refreshing /\ rows = <<>>
          /\ Distinct(refresh[r].seen) /\ Range(refresh[r].seen) \subseteq used
    /\ \A r, q \in Refreshes : refresh[r] # Rest /\ refresh[q] # Rest => r = q

\* Loads carry vaults that exist or existed.
LoadsKnown ==
    /\ load \in [Loads -> LoadThread \cup {Rest}]
    /\ last \in Loaded \cup {None}
    /\ global \in BOOLEAN /\ page \in Pages
    /\ last # None => last.vault \in used \cup {None}
    /\ \A l \in Loads : load[l] # Rest =>
          /\ load[l].selected \in used \cup {None}
          /\ load[l].result # None => load[l].result.vault \in used \cup {None}

\* A vault a deletion names existed; once it answers, the vault is gone.
JobsKnown ==
    /\ job \in [Jobs -> Mutation \cup {Rest}]
    /\ \A d \in Jobs : job[d] # Rest /\ job[d].op = "delete" =>
          /\ job[d].vault \in used
          /\ job[d].stage = "done" => job[d].vault \notin Range(vaults)

Counters ==
    key \in BOOLEAN /\ inputs \in 0..MaxInputs /\ errors \in 0..MaxErrors

Inv == Lists /\ OneRefresh /\ LoadsKnown /\ JobsKnown /\ Counters /\ ListIsActive

LEMMA InvGivesTypes == Inv => TypeOK
BY DEF Inv, Lists, OneRefresh, LoadsKnown, JobsKnown, Counters, TypeOK

----------------------------------------------------------------------------
(* Slots. *)

LEMMA StartFacts ==
  ASSUME NEW slots, NEW thread, Free(slots) # {}
  PROVE  \E s \in DOMAIN slots : /\ slots[s].stage = "idle"
                                /\ Start(slots, thread) = [slots EXCEPT ![s] = thread]
BY DEF Free, Start

LEMMA IdleThreads ==
  /\ Rest \notin RefreshThread /\ Rest \notin LoadThread /\ Rest \notin Mutation
  /\ Rest.stage = "idle"
  /\ \A c \in RefreshThread \cup LoadThread \cup Mutation : c.stage # "idle"
BY DEF Rest, RefreshThread, LoadThread, Mutation

\* No answer of a load is no vault and no rows.
LEMMA EmptyFacts ==
  /\ <<>> \in Seq(Vaults) /\ Range(<<>>) = {} /\ Distinct(<<>>)
BY DEF Range, Distinct

LEMMA FirstFacts ==
  ASSUME NEW s \in Seq(Vaults)
  PROVE  First(s) \in Range(s) \cup {None}
BY DEF First, Range

----------------------------------------------------------------------------
(* The callbacks several actions share. *)

LEMMA ReloadKeeps ==
  ASSUME Inv, NEW a \in used \cup {None}, NEW all \in BOOLEAN, Reload(a, all),
         used' = used, global' \in BOOLEAN
  PROVE  LoadsKnown' /\ ListIsActive'
<1> USE DEF Inv
<1>1. CASE key
  <2> DEFINE new == [stage |-> "run", all |-> all, selected |-> a, result |-> None]
  <2>1. Free(load) # {} /\ load' = Start(load, new) /\ page' = "loading" /\ last' = last
    BY <1>1 DEF Reload
  <2>2. new \in LoadThread
    BY DEF LoadThread, Lists
  <2>3. PICK s \in Loads : load' = [load EXCEPT ![s] = new]
    <3>1. DOMAIN load = Loads
      BY DEF LoadsKnown
    <3> HIDE DEF new
    <3> QED
      BY <2>1, <3>1, StartFacts
  <2>4. \A l \in Loads : load'[l] = IF l = s THEN new ELSE load[l]
    BY <2>3 DEF LoadsKnown
  <2>5. LoadsKnown'
    <3>1. load' \in [Loads -> LoadThread \cup {Rest}]
      BY <2>2, <2>3 DEF LoadsKnown
    <3> QED
      BY <2>1, <2>4, <3>1 DEF LoadsKnown, Pages
  <2> QED
    BY <2>1, <2>5 DEF ListIsActive
<1>2. CASE ~key
  BY <1>2 DEF Reload, LoadsKnown, ListIsActive, Pages
<1> QED
  BY <1>1, <1>2

LEMMA BeginKeeps ==
  ASSUME Inv, NEW open \in BOOLEAN, BeginRefresh(open), UNCHANGED <<vaults, used>>,
         active' \in used \cup {None}
  PROVE  Lists' /\ OneRefresh'
<1> USE DEF Inv
<1>1. CASE refreshing
  BY <1>1 DEF BeginRefresh, sidebar, Lists, OneRefresh
<1>2. CASE ~refreshing
  <2> DEFINE new == [stage |-> "list", attempt |-> ~creating, key |-> open /\ ~creating,
                     seen |-> <<>>]
  <2>1. /\ Free(refresh) # {} /\ refresh' = Start(refresh, new)
        /\ refreshing' = TRUE /\ rows' = <<>> /\ picked' = None
        /\ creating' = (creating \/ open)
    BY <1>2 DEF BeginRefresh
  <2>2. new \in RefreshThread
    BY EmptyFacts DEF RefreshThread, OneRefresh
  <2>3. PICK s \in Refreshes : refresh' = [refresh EXCEPT ![s] = new]
    <3>1. DOMAIN refresh = Refreshes
      BY DEF OneRefresh
    <3> HIDE DEF new
    <3> QED
      BY <2>1, <3>1, StartFacts
  <2>4. \A r \in Refreshes : refresh[r] = Rest
    BY <1>2 DEF OneRefresh
  <2>5. \A r \in Refreshes : refresh'[r] = IF r = s THEN new ELSE Rest
    BY <2>3, <2>4 DEF OneRefresh
  <2>6. Distinct(new.seen) /\ Range(new.seen) = {}
    BY EmptyFacts
  <2>7. OneRefresh'
    <3>1. refresh' \in [Refreshes -> RefreshThread \cup {Rest}]
      BY <2>2, <2>3 DEF OneRefresh
    <3>2. refreshing' \in BOOLEAN /\ creating' \in BOOLEAN
      BY <2>1 DEF OneRefresh
    <3> QED
      BY <2>1, <2>5, <2>6, <3>1, <3>2 DEF OneRefresh
  <2>8. Lists'
    BY <2>1, EmptyFacts DEF Lists
  <2> QED
    BY <2>7, <2>8
<1> QED
  BY <1>1, <1>2

LEMMA InitInv == Init => Inv
<1> SUFFICES ASSUME Init PROVE Inv
  OBVIOUS
<1> USE DEF Init
<1>1. Lists
  <2>1. vaults \in Seq(Vaults) /\ Distinct(vaults)
    BY StoredAreLists DEF Distinct
  <2>2. used = Range(vaults) /\ used \subseteq Vaults
    BY <2>1 DEF Range
  <2> QED
    BY <2>1, <2>2, EmptyFacts DEF Lists
<1>2. OneRefresh
  <2> DEFINE new == [stage |-> "list", attempt |-> TRUE, key |-> TRUE, seen |-> <<>>]
             none == [r \in Refreshes |-> Rest]
  <2>1. new \in RefreshThread
    BY EmptyFacts DEF RefreshThread
  <2>2. \A r \in Refreshes : none[r].stage = "idle"
    BY DEF Rest
  <2>3. CASE Refreshes # {}
    <3>1. Free(none) # {}
      BY <2>2, <2>3 DEF Free
    <3>2. PICK s \in Refreshes : refresh = [none EXCEPT ![s] = new]
      <4>1. refresh = Start(none, new)
        OBVIOUS
      <4>2. DOMAIN none = Refreshes
        OBVIOUS
      <4> HIDE DEF none, new
      <4>3. \E s \in DOMAIN none : Start(none, new) = [none EXCEPT ![s] = new]
        BY <3>1, StartFacts
      <4> QED
        BY <4>1, <4>2, <4>3
    <3>3. \A r \in Refreshes : refresh[r] = IF r = s THEN new ELSE Rest
      BY <3>2
    <3>4. Distinct(new.seen) /\ Range(new.seen) = {}
      BY EmptyFacts
    <3>5. refresh \in [Refreshes -> RefreshThread \cup {Rest}]
      BY <2>1, <3>2
    <3> QED
      BY <3>3, <3>4, <3>5 DEF OneRefresh
  <2>4. CASE Refreshes = {}
    BY <2>4 DEF OneRefresh, Start
  <2> QED
    BY <2>3, <2>4
<1>3. LoadsKnown /\ JobsKnown
  BY DEF LoadsKnown, JobsKnown, Pages
<1>4. Counters
  BY BoundsAreNumbers DEF Counters
<1>5. ListIsActive
  BY DEF ListIsActive
<1> QED
  BY <1>1, <1>2, <1>3, <1>4, <1>5 DEF Inv

----------------------------------------------------------------------------
(* What the threads of others do to the stored vaults. *)

\* Vaults are added under new identifiers, and one that is gone stays gone.
Moved ==
    /\ vaults' \in Seq(Vaults) /\ Distinct(vaults') /\ Range(vaults') \subseteq used'
    /\ used \subseteq used' /\ used' \subseteq Vaults
    /\ \A w \in used \cup {None} : w \notin Range(vaults) => w \notin Range(vaults')

LEMMA StillMoves ==
  ASSUME Inv, UNCHANGED database
  PROVE  Moved
BY DEF Inv, Lists, Moved, database, Distinct, Range

LEMMA GrowMoves ==
  ASSUME Inv, NEW v \in Vaults \ used, vaults' = Append(vaults, v), used' = used \cup {v}
  PROVE  Moved
<1>1. v \notin Range(vaults)
  BY DEF Inv, Lists
<1>2. vaults' \in Seq(Vaults) /\ Distinct(vaults') /\ Range(vaults') = Range(vaults) \cup {v}
  BY <1>1, AppendFacts DEF Inv, Lists
<1> QED
  BY <1>2, NoneIsNoVault DEF Inv, Lists, Moved

LEMMA DropMoves ==
  ASSUME Inv, NEW p \in DOMAIN vaults, used' = used,
         vaults' = SubSeq(vaults, 1, p - 1) \o SubSeq(vaults, p + 1, Len(vaults))
  PROVE  Moved /\ vaults[p] \notin Range(vaults')
<1>1. vaults' \in Seq(Vaults) /\ Distinct(vaults') /\ Range(vaults') = Range(vaults) \ {vaults[p]}
  BY DropFacts DEF Inv, Lists
<1> QED
  BY <1>1 DEF Inv, Lists, Moved

LEMMA MovedKeeps ==
  ASSUME Inv, Moved
  PROVE  /\ UNCHANGED <<rows, picked, active>> => Lists'
         /\ UNCHANGED sidebar => OneRefresh'
         /\ UNCHANGED list => LoadsKnown'
         /\ UNCHANGED <<page, last, active>> => ListIsActive'
         /\ UNCHANGED job => JobsKnown'
<1> USE DEF Inv, Moved
<1>1. ASSUME UNCHANGED <<rows, picked, active>> PROVE Lists'
  BY <1>1 DEF Lists, Distinct, Range
<1>2. ASSUME UNCHANGED sidebar PROVE OneRefresh'
  BY <1>2 DEF OneRefresh, sidebar, Lists, Distinct, Range
<1>3. ASSUME UNCHANGED list PROVE LoadsKnown'
  BY <1>3 DEF LoadsKnown, list, Lists
<1>4. ASSUME UNCHANGED <<page, last, active>> PROVE ListIsActive'
  BY <1>4 DEF ListIsActive, LoadsKnown
<1>5. ASSUME UNCHANGED job PROVE JobsKnown'
  BY <1>5 DEF JobsKnown, Lists
<1> QED
  BY <1>1, <1>2, <1>3, <1>4, <1>5

LEMMA ErrorType ==
  ASSUME Inv, StorageError
  PROVE  errors' \in 0..MaxErrors
BY BoundsAreNumbers DEF Inv, Counters, StorageError

LEMMA InputType ==
  ASSUME Inv, Input
  PROVE  inputs' \in 0..MaxInputs
BY BoundsAreNumbers DEF Inv, Counters, Input

----------------------------------------------------------------------------
(* The vault list. *)

\* A refresh under way changes its own record, and nothing on screen.
LEMMA ThreadKeeps ==
  ASSUME Inv, NEW r \in Refreshes, refresh[r] # Rest, Moved,
         NEW c \in RefreshThread, refresh' = [refresh EXCEPT ![r] = c],
         Distinct(c.seen), Range(c.seen) \subseteq used',
         UNCHANGED <<rows, refreshing, creating>>
  PROVE  OneRefresh'
<1>1. \A q \in Refreshes : refresh'[q] = IF q = r THEN c ELSE refresh[q]
  BY DEF Inv, OneRefresh
<1>2. refresh' \in [Refreshes -> RefreshThread \cup {Rest}]
  BY DEF Inv, OneRefresh
<1>3. \A q \in Refreshes : refresh'[q] # Rest => refresh[q] # Rest
  BY <1>1
<1>4. \A q \in Refreshes : refresh'[q] # Rest => q = r
  BY <1>1, <1>3 DEF Inv, OneRefresh
<1>5. refreshing /\ rows = <<>>
  BY DEF Inv, OneRefresh
<1> QED
  BY <1>1, <1>2, <1>4, <1>5 DEF Inv, OneRefresh

LEMMA RefreshingThreads ==
  ASSUME Inv, NEW r \in Refreshes, ListOwned(r) \/ CountAndShares(r) \/ CreateDefault(r)
  PROVE  Inv'
<1> DEFINE c == refresh[r]
<1>1. c \in RefreshThread /\ c # Rest
  BY IdleThreads DEF ListOwned, CountAndShares, CreateDefault, Inv, OneRefresh, Rest
<1>2. Distinct(c.seen) /\ Range(c.seen) \subseteq used
  BY <1>1 DEF Inv, OneRefresh
<1>3. Moved
  <2>1. CASE UNCHANGED database
    BY <2>1, StillMoves
  <2>2. CASE \E v \in Vaults \ used : vaults' = Append(vaults, v) /\ used' = used \cup {v}
    BY <2>2, GrowMoves
  <2> QED
    BY <2>1, <2>2 DEF ListOwned, CountAndShares, CreateDefault
<1>4. OneRefresh'
  <2>1. PICK u : /\ refresh' = [refresh EXCEPT ![r] = u]
                 /\ u \in RefreshThread
                 /\ u.seen \in {c.seen, vaults}
    <3>1. CASE ListOwned(r)
      <4>1. PICK stage \in {"create", "check", "failed"} :
              \/ refresh' = [refresh EXCEPT ![r] = [c EXCEPT !.seen = vaults, !.stage = stage]]
              \/ refresh' = [refresh EXCEPT ![r] = [c EXCEPT !.stage = stage]]
        BY <3>1 DEF ListOwned
      <4>2. [c EXCEPT !.seen = vaults, !.stage = stage] \in RefreshThread
            /\ [c EXCEPT !.seen = vaults, !.stage = stage].seen = vaults
        BY <1>1 DEF RefreshThread, Inv, Lists
      <4>3. [c EXCEPT !.stage = stage] \in RefreshThread
            /\ [c EXCEPT !.stage = stage].seen = c.seen
        BY <1>1 DEF RefreshThread
      <4> QED
        BY <4>1, <4>2, <4>3
    <3>2. CASE CountAndShares(r)
      <4>1. PICK stage \in {"done", "failed"} :
              refresh' = [refresh EXCEPT ![r] = [c EXCEPT !.stage = stage]]
        BY <3>2 DEF CountAndShares
      <4>2. [c EXCEPT !.stage = stage] \in RefreshThread
            /\ [c EXCEPT !.stage = stage].seen = c.seen
        BY <1>1 DEF RefreshThread
      <4> QED
        BY <4>1, <4>2
    <3>3. CASE CreateDefault(r)
      <4>1. refresh' = [refresh EXCEPT ![r] = [c EXCEPT !.stage = "list", !.key = FALSE]]
        BY <3>3 DEF CreateDefault
      <4>2. [c EXCEPT !.stage = "list", !.key = FALSE] \in RefreshThread
            /\ [c EXCEPT !.stage = "list", !.key = FALSE].seen = c.seen
        BY <1>1 DEF RefreshThread
      <4> QED
        BY <4>1, <4>2
    <3> QED
      BY <3>1, <3>2, <3>3
  <2>2. Distinct(u.seen) /\ Range(u.seen) \subseteq used'
    BY <1>2, <1>3, <2>1 DEF Moved, Inv, Lists
  <2>3. UNCHANGED <<rows, refreshing, creating>>
    BY DEF ListOwned, CountAndShares, CreateDefault
  <2> QED
    BY <1>1, <1>3, <2>1, <2>2, <2>3, ThreadKeeps
<1>5. Lists' /\ LoadsKnown' /\ JobsKnown' /\ ListIsActive'
  BY <1>3, MovedKeeps DEF ListOwned, CountAndShares, CreateDefault, list
<1>6. Counters'
  BY ErrorType DEF ListOwned, CountAndShares, CreateDefault, Inv, Counters
<1> QED
  BY <1>4, <1>5, <1>6 DEF Inv

LEMMA AnswerRefreshKeeps ==
  ASSUME Inv, NEW r \in Refreshes, AnswerRefresh(r)
  PROVE  Inv'
<1> USE DEF Inv
<1>1. refresh[r] \in RefreshThread /\ refresh[r] # Rest
  BY IdleThreads DEF AnswerRefresh, OneRefresh, Rest
<1>2. rows = <<>> /\ refreshing /\ Distinct(refresh[r].seen) /\ Range(refresh[r].seen) \subseteq used
      /\ refresh[r].seen \in Seq(Vaults)
  BY <1>1 DEF OneRefresh, RefreshThread
<1>3. \A q \in Refreshes : refresh'[q] = Rest
  BY <1>1 DEF AnswerRefresh, OneRefresh
<1>4. OneRefresh'
  <2>1. refresh' \in [Refreshes -> RefreshThread \cup {Rest}]
    BY DEF AnswerRefresh, OneRefresh
  <2>2. refreshing' \in BOOLEAN /\ creating' \in BOOLEAN
    BY <1>1 DEF AnswerRefresh, OneRefresh, RefreshThread
  <2> QED
    BY <1>3, <2>1, <2>2 DEF OneRefresh
<1>5. Moved
  BY StillMoves DEF AnswerRefresh
<1>6. JobsKnown' /\ Counters'
  BY <1>5, MovedKeeps DEF AnswerRefresh, Counters
<1>7. CASE refresh[r].stage = "done"
  <2>1. /\ rows' = rows \o refresh[r].seen
        /\ active' = Selected(rows')
        /\ picked' = active'
        /\ Reload(active', global)
        /\ UNCHANGED <<vaults, used, global>>
    BY <1>7 DEF AnswerRefresh, database
  <2>2. rows' = refresh[r].seen
    BY <1>2, <2>1
  <2>3. active' \in Range(rows') \cup {None}
    BY <1>2, <2>1, <2>2, FirstFacts DEF Selected
  <2>4. Lists'
    BY <1>2, <2>1, <2>2, <2>3 DEF Lists
  <2>5. LoadsKnown' /\ ListIsActive'
    BY <1>2, <2>1, <2>2, <2>3, ReloadKeeps DEF LoadsKnown
  <2> QED
    BY <1>4, <1>6, <2>4, <2>5
<1>8. CASE refresh[r].stage # "done"
  <2>1. UNCHANGED <<database, rows, picked, active, global, page, last, load>>
    BY <1>8 DEF AnswerRefresh
  <2> QED
    BY <1>4, <1>5, <1>6, <2>1, MovedKeeps DEF list
<1> QED
  BY <1>7, <1>8

----------------------------------------------------------------------------
(* The secret list. *)

LEMMA ReadSecretsKeeps ==
  ASSUME Inv, NEW l \in Loads, ReadSecrets(l)
  PROVE  Inv'
<1> USE DEF Inv
<1> DEFINE c == load[l]
<1>1. c \in LoadThread /\ c # Rest /\ c.selected \in used \cup {None}
  BY IdleThreads DEF ReadSecrets, LoadsKnown, Rest
<1>2. Answer(l) \in Loaded /\ Answer(l).vault \in used \cup {None}
  <2>1. Range(vaults) \subseteq used /\ used \subseteq Vaults
    BY DEF Lists
  <2> QED
    BY <2>1 DEF Answer, Loaded, Accessible
<1>3. PICK u : /\ load' = [load EXCEPT ![l] = u]
               /\ u \in LoadThread
               /\ u.selected = c.selected
               /\ u.result \in {c.result, Answer(l)}
  <2>1. \/ load' = [load EXCEPT ![l] = [c EXCEPT !.stage = "done", !.result = Answer(l)]]
        \/ load' = [load EXCEPT ![l] = [c EXCEPT !.stage = "done"]]
    BY DEF ReadSecrets
  <2>2. [c EXCEPT !.stage = "done", !.result = Answer(l)] \in LoadThread
        /\ [c EXCEPT !.stage = "done", !.result = Answer(l)].selected = c.selected
        /\ [c EXCEPT !.stage = "done", !.result = Answer(l)].result = Answer(l)
    BY <1>1, <1>2 DEF LoadThread
  <2>3. [c EXCEPT !.stage = "done"] \in LoadThread
        /\ [c EXCEPT !.stage = "done"].selected = c.selected
        /\ [c EXCEPT !.stage = "done"].result = c.result
    BY <1>1 DEF LoadThread
  <2> QED
    BY <2>1, <2>2, <2>3
<1>4. LoadsKnown'
  <2>1. \A m \in Loads : load'[m] = IF m = l THEN u ELSE load[m]
    BY <1>3 DEF LoadsKnown
  <2>2. load' \in [Loads -> LoadThread \cup {Rest}]
    BY <1>3 DEF LoadsKnown
  <2>3. UNCHANGED <<used, last, global, page>>
    BY DEF ReadSecrets, database
  <2> QED
    BY <1>1, <1>2, <1>3, <2>1, <2>2, <2>3 DEF LoadsKnown
<1>5. Moved
  BY StillMoves DEF ReadSecrets
<1>6. Lists' /\ OneRefresh' /\ JobsKnown' /\ ListIsActive'
  BY <1>5, MovedKeeps DEF ReadSecrets, sidebar
<1>7. Counters'
  BY ErrorType DEF ReadSecrets, Counters
<1> QED
  BY <1>4, <1>6, <1>7

\* What is put on screen is known, and makes its vault the active one.
LEMMA RenderKeeps ==
  ASSUME Inv, NEW x \in Loaded, x.vault \in used \cup {None}, Render(x), last' = x
  PROVE  /\ active' \in used \cup {None} /\ page' \in Pages
         /\ ListIsActive'
BY DEF Inv, Lists, Render, Loaded, Pages, ListIsActive

LEMMA SecretListSteps ==
  ASSUME Inv,
         \/ \E l \in Loads : AnswerLoad(l)
         \/ \E v \in Vaults : SelectVault(v)
         \/ ToggleGlobal \/ SwitchView
  PROVE  Inv'
<1> USE DEF Inv
<1>1. Moved
  BY StillMoves DEF AnswerLoad, SelectVault, ToggleGlobal, SwitchView
<1>2. UNCHANGED database
  BY DEF AnswerLoad, SelectVault, ToggleGlobal, SwitchView
<1>3. Counters'
  BY InputType DEF AnswerLoad, SelectVault, ToggleGlobal, SwitchView, Counters, Input
<1>4. JobsKnown'
  BY <1>1, MovedKeeps DEF AnswerLoad, SelectVault, ToggleGlobal, SwitchView
<1>5. ASSUME NEW l \in Loads, AnswerLoad(l)
      PROVE  Inv'
  <2>1. load[l] \in LoadThread /\ load[l] # Rest
    BY <1>5, IdleThreads DEF AnswerLoad, LoadsKnown, Rest
  <2>2. /\ active' \in used \cup {None} /\ page' \in Pages
        /\ last' \in Loaded \cup {None}
        /\ last' # None => last'.vault \in used \cup {None}
        /\ ListIsActive'
    <3>1. CASE load[l].result = None
      BY <1>5, <3>1 DEF AnswerLoad, Lists, Pages, ListIsActive
    <3>2. CASE load[l].result # None
      BY <1>5, <2>1, <3>2, RenderKeeps DEF AnswerLoad, LoadsKnown, LoadThread
    <3> QED
      BY <3>1, <3>2
  <2>3. LoadsKnown'
    <3>1. load' \in [Loads -> LoadThread \cup {Rest}]
          /\ \A m \in Loads : load'[m] = IF m = l THEN Rest ELSE load[m]
      BY <1>5 DEF AnswerLoad, LoadsKnown
    <3>2. UNCHANGED <<used, global>>
      BY <1>5 DEF AnswerLoad, database
    <3> QED
      BY <2>2, <3>1, <3>2 DEF LoadsKnown
  <2>4. Lists' /\ OneRefresh'
    BY <1>1, <1>2, <1>5, <2>2, MovedKeeps DEF AnswerLoad, Lists, sidebar, database
  <2> QED
    BY <1>3, <1>4, <2>2, <2>3, <2>4
<1>6. ASSUME NEW v \in Vaults, SelectVault(v)
      PROVE  Inv'
  <2>1. v \in Range(rows) /\ picked' = v /\ active' = v /\ Reload(v, global)
        /\ UNCHANGED <<database, rows, refreshing, creating, refresh, global>>
    BY <1>6 DEF SelectVault
  <2>2. Lists' /\ OneRefresh'
    BY <2>1, <1>2 DEF Lists, OneRefresh, database
  <2>3. LoadsKnown' /\ ListIsActive'
    BY <2>1, ReloadKeeps DEF Lists, LoadsKnown, database
  <2> QED
    BY <1>3, <1>4, <2>2, <2>3
<1>7. CASE ToggleGlobal
  <2>1. global' = ~global /\ Reload(active, global') /\ UNCHANGED <<database, active, sidebar>>
    BY <1>7 DEF ToggleGlobal
  <2>2. Lists' /\ OneRefresh'
    BY <1>1, <2>1, MovedKeeps DEF sidebar
  <2>3. LoadsKnown' /\ ListIsActive'
    BY <2>1, ReloadKeeps DEF Lists, LoadsKnown, database
  <2> QED
    BY <1>3, <1>4, <2>2, <2>3
<1>8. CASE SwitchView
  <2>1. UNCHANGED <<database, sidebar, global>>
    BY <1>8 DEF SwitchView
  <2>2. OneRefresh'
    BY <1>1, <2>1, MovedKeeps
  <2>3. CASE last # None
    <3>1. Render(last) /\ UNCHANGED <<load, last>>
      BY <1>8, <2>3 DEF SwitchView
    <3>2. active' \in used \cup {None} /\ page' \in Pages /\ ListIsActive'
      BY <2>3, <3>1, RenderKeeps DEF LoadsKnown
    <3>3. Lists' /\ LoadsKnown'
      BY <2>1, <3>1, <3>2 DEF Lists, LoadsKnown, sidebar, database
    <3> QED
      BY <1>3, <1>4, <2>2, <3>2, <3>3
  <2>4. CASE last = None
    <3>1. Reload(active, global) /\ UNCHANGED active
      BY <1>8, <2>4 DEF SwitchView
    <3>2. Lists'
      BY <1>1, <2>1, <3>1, MovedKeeps DEF sidebar
    <3>3. LoadsKnown' /\ ListIsActive'
      BY <2>1, <3>1, ReloadKeeps DEF Lists, LoadsKnown, database
    <3> QED
      BY <1>3, <1>4, <2>2, <3>2, <3>3
  <2> QED
    BY <2>3, <2>4
<1> QED
  BY <1>5, <1>6, <1>7, <1>8

----------------------------------------------------------------------------
(* Mutations, lock and unlock. *)

LEMMA StartJobKeeps ==
  ASSUME Inv, NEW op \in {"create", "delete", "change"}, NEW v \in Vaults \cup {None},
         op = "delete" => v # None, StartJob(op, v)
  PROVE  Inv'
<1> USE DEF Inv
<1> DEFINE new == [stage |-> "run", op |-> op, vault |-> v]
<1>1. new \in Mutation
  BY DEF Mutation
<1>2. PICK d \in Jobs : job' = [job EXCEPT ![d] = new]
  <2>1. DOMAIN job = Jobs /\ Free(job) # {} /\ job' = Start(job, new)
    BY DEF StartJob, JobsKnown
  <2> HIDE DEF new
  <2> QED
    BY <2>1, StartFacts
<1>3. op = "delete" => v \in used
  BY DEF StartJob, Lists
<1>4. Moved
  BY StillMoves DEF StartJob
<1>5. JobsKnown'
  <2>1. job' \in [Jobs -> Mutation \cup {Rest}]
    BY <1>1, <1>2 DEF JobsKnown
  <2>2. \A k \in Jobs : job'[k] = IF k = d THEN new ELSE job[k]
    BY <1>2 DEF JobsKnown
  <2>3. UNCHANGED <<vaults, used>>
    BY DEF StartJob, database
  <2> QED
    BY <1>3, <2>1, <2>2, <2>3 DEF JobsKnown
<1>6. Lists' /\ OneRefresh' /\ LoadsKnown' /\ ListIsActive'
  BY <1>4, MovedKeeps DEF StartJob, sidebar, list
<1>7. Counters'
  BY InputType DEF StartJob, Counters
<1> QED
  BY <1>5, <1>6, <1>7

LEMMA RunJobKeeps ==
  ASSUME Inv, NEW d \in Jobs, RunJob(d)
  PROVE  Inv'
<1> USE DEF Inv
<1> DEFINE c == job[d]
<1>1. c \in Mutation /\ c # Rest
  BY IdleThreads DEF RunJob, JobsKnown, Rest
<1>2. PICK stage \in {"done", "failed"} :
        /\ job' = [job EXCEPT ![d] = [c EXCEPT !.stage = stage]]
        /\ Moved
        /\ stage = "done" /\ c.op = "delete" => c.vault \notin Range(vaults')
  <2>1. CASE UNCHANGED database /\ job' = [job EXCEPT ![d].stage = "failed"]
    BY <2>1, StillMoves
  <2>2. CASE
          /\ CASE c.op = "create" ->
                    \E v \in Vaults \ used : vaults' = Append(vaults, v) /\ used' = used \cup {v}
               [] c.op = "delete" ->
                    /\ \E p \in DOMAIN vaults :
                         /\ vaults[p] = c.vault
                         /\ vaults' = SubSeq(vaults, 1, p - 1)
                                        \o SubSeq(vaults, p + 1, Len(vaults))
                    /\ UNCHANGED used
               [] OTHER -> UNCHANGED <<vaults, used>>
          /\ job' = [job EXCEPT ![d].stage = "done"]
    <3>1. CASE c.op = "create"
      <4>1. PICK v \in Vaults \ used : vaults' = Append(vaults, v) /\ used' = used \cup {v}
        BY <2>2, <3>1
      <4> QED
        BY <2>2, <3>1, <4>1, GrowMoves
    <3>2. CASE c.op = "delete"
      <4>1. PICK p \in DOMAIN vaults :
              /\ vaults[p] = c.vault /\ used' = used
              /\ vaults' = SubSeq(vaults, 1, p - 1) \o SubSeq(vaults, p + 1, Len(vaults))
        BY <2>2, <3>2
      <4> QED
        BY <2>2, <4>1, DropMoves
    <3>3. CASE c.op = "change"
      <4>1. UNCHANGED database
        BY <2>2, <3>3 DEF database
      <4> QED
        BY <2>2, <3>3, <4>1, StillMoves
    <3> QED
      BY <1>1, <3>1, <3>2, <3>3 DEF Mutation
  <2> QED
    BY <2>1, <2>2 DEF RunJob
<1>3. [c EXCEPT !.stage = stage] \in Mutation
      /\ [c EXCEPT !.stage = stage].stage = stage
      /\ [c EXCEPT !.stage = stage].op = c.op
      /\ [c EXCEPT !.stage = stage].vault = c.vault
  BY <1>1 DEF Mutation
<1>4. JobsKnown'
  <2>1. job' \in [Jobs -> Mutation \cup {Rest}]
    BY <1>2, <1>3 DEF JobsKnown
  <2>2. \A k \in Jobs : job'[k] = IF k = d THEN [c EXCEPT !.stage = stage] ELSE job[k]
    BY <1>2 DEF JobsKnown
  <2>3. \A k \in Jobs : k # d => job'[k] = job[k]
    BY <2>2
  <2>4. \A k \in Jobs : k # d /\ job'[k] # Rest /\ job'[k].op = "delete" =>
          /\ job'[k].vault \in used'
          /\ job'[k].stage = "done" => job'[k].vault \notin Range(vaults')
    BY <1>2, <2>3 DEF JobsKnown, Moved
  <2>5. c.op = "delete" => c.vault \in used'
    BY <1>1, <1>2 DEF JobsKnown, Moved
  <2>6. job'[d].op = c.op /\ job'[d].vault = c.vault /\ job'[d].stage = stage
    BY <1>3, <2>2
  <2> QED
    BY <1>2, <2>1, <2>4, <2>5, <2>6 DEF JobsKnown
<1>5. Lists' /\ OneRefresh' /\ LoadsKnown' /\ ListIsActive'
  BY <1>2, MovedKeeps DEF RunJob, sidebar, list
<1>6. Counters'
  BY ErrorType DEF RunJob, Counters
<1> QED
  BY <1>4, <1>5, <1>6

LEMMA AnswerJobKeeps ==
  ASSUME Inv, NEW d \in Jobs, AnswerJob(d)
  PROVE  Inv'
<1> USE DEF Inv
<1>1. job[d] \in Mutation /\ job[d] # Rest
  BY IdleThreads DEF AnswerJob, JobsKnown, Rest
<1>2. Moved /\ UNCHANGED <<vaults, used>>
  BY StillMoves DEF AnswerJob, database
<1>3. JobsKnown'
  <2>1. job' \in [Jobs -> Mutation \cup {Rest}]
        /\ \A k \in Jobs : job'[k] = IF k = d THEN Rest ELSE job[k]
    BY DEF AnswerJob, JobsKnown
  <2> QED
    BY <1>2, <2>1 DEF JobsKnown
<1>4. LoadsKnown' /\ Counters'
  BY <1>2, MovedKeeps DEF AnswerJob, Counters
<1>5. CASE job[d].stage = "done"
  <2>1. active' = (IF job[d].op = "delete" /\ active = job[d].vault THEN None ELSE active)
        /\ BeginRefresh(key) /\ UNCHANGED <<page, last>>
    BY <1>5 DEF AnswerJob, list
  <2>2. Lists' /\ OneRefresh'
    BY <1>2, <2>1, BeginKeeps DEF Lists, Counters
  <2>3. ListIsActive'
    BY <1>1, <1>2, <1>5, <2>1, NoneIsNoVault DEF ListIsActive, JobsKnown, Lists
  <2> QED
    BY <1>3, <1>4, <2>2, <2>3
<1>6. CASE job[d].stage # "done"
  <2>1. UNCHANGED <<active, sidebar, list>>
    BY <1>6 DEF AnswerJob
  <2>2. Lists' /\ OneRefresh' /\ ListIsActive'
    BY <1>2, <2>1, MovedKeeps DEF sidebar, list
  <2> QED
    BY <1>3, <1>4, <2>2
<1> QED
  BY <1>5, <1>6

LEMMA LockSteps ==
  ASSUME Inv, Lock \/ Unlock
  PROVE  Inv'
<1> USE DEF Inv
<1>1. Moved /\ UNCHANGED <<vaults, used>>
  BY StillMoves DEF Lock, Unlock, database
<1>2. LoadsKnown' /\ JobsKnown' /\ ListIsActive'
  BY <1>1, MovedKeeps DEF Lock, Unlock, list
<1>3. Counters'
  BY InputType DEF Lock, Unlock, Counters
<1>4. CASE Lock
  BY <1>1, <1>2, <1>3, <1>4, MovedKeeps DEF Lock, sidebar
<1>5. CASE Unlock
  <2>1. Lists' /\ OneRefresh'
    BY <1>1, <1>5, BeginKeeps DEF Unlock, Lists
  <2> QED
    BY <1>2, <1>3, <2>1
<1> QED
  BY <1>4, <1>5

LEMMA InvHolds == Spec => []Inv
<1>1. Inv /\ Next => Inv'
  <2> SUFFICES ASSUME Inv, Next PROVE Inv'
    OBVIOUS
  <2>1. ASSUME NEW v \in Vaults, StartJob("delete", v) PROVE Inv'
    BY <2>1, StartJobKeeps, NoneIsNoVault
  <2>2. ASSUME NEW op \in {"create", "change"}, StartJob(op, None) PROVE Inv'
    BY <2>2, StartJobKeeps
  <2> QED
    BY <2>1, <2>2, RefreshingThreads, AnswerRefreshKeeps, ReadSecretsKeeps, SecretListSteps,
       RunJobKeeps, AnswerJobKeeps, LockSteps DEF Next, Answers
<1>2. Inv /\ UNCHANGED vars => Inv'
  <2> SUFFICES ASSUME Inv, UNCHANGED vars PROVE Inv'
    OBVIOUS
  <2>1. Moved
    BY StillMoves DEF vars
  <2>2. Lists' /\ OneRefresh' /\ LoadsKnown' /\ JobsKnown' /\ ListIsActive'
    BY <2>1, MovedKeeps DEF vars, sidebar, list
  <2> QED
    BY <2>2 DEF Inv, Counters, vars
<1> QED
  BY <1>1, <1>2, InitInv, PTL DEF Spec

----------------------------------------------------------------------------

(* Variables keep their types, and a vault on screen or active is one that   *)
(* exists or existed (select_active_vault, render_secret_rows).              *)
THEOREM ViewTypeCorrect == Spec => []TypeOK
BY InvHolds, InvGivesTypes, PTL

(* No vault has two rows, however refreshes, mutations and unlocks overlap   *)
(* (the guard of the refresh, vault_list.rs).                                *)
THEOREM OneRowEach == Spec => []RowsOnce
<1>1. Inv => RowsOnce
  BY DEF Inv, Lists, Distinct, RowsOnce
<1> QED
  BY <1>1, InvHolds, PTL

(* The vault whose secrets are on screen is the one a new secret goes to, or *)
(* it was just deleted (render_secret_rows).                                 *)
THEOREM ShownIsActive == Spec => []ListIsActive
<1>1. Inv => ListIsActive
  BY DEF Inv
<1> QED
  BY <1>1, InvHolds, PTL

----------------------------------------------------------------------------
(* The guard of the sidebar.                                                 *)

(* Every statement succeeds, and no vault is being deleted.                  *)
Calm ==
    /\ errors = 0
    /\ \A d \in Jobs : job[d] # Rest => job[d].op # "delete"

(* A thread is there to lower the guard, and what it listed is still there.  *)
WillLower ==
    /\ refreshing => \E r \in Refreshes : refresh[r] # Rest
    /\ \A r \in Refreshes :
          /\ refresh[r].stage # "failed"
          /\ refresh[r].stage = "check" => Range(refresh[r].seen) \subseteq Range(vaults)

\* With the guard down no thread runs; the one begun lists first.
LEMMA BeginLowers ==
  ASSUME Inv, WillLower, NEW open \in BOOLEAN, BeginRefresh(open),
         Range(vaults) \subseteq Range(vaults')
  PROVE  WillLower'
<1>1. CASE refreshing
  BY <1>1 DEF BeginRefresh, sidebar, WillLower
<1>2. CASE ~refreshing
  <2> DEFINE new == [stage |-> "list", attempt |-> ~creating, key |-> open /\ ~creating,
                     seen |-> <<>>]
  <2>1. Free(refresh) # {} /\ refresh' = Start(refresh, new)
    BY <1>2 DEF BeginRefresh
  <2>2. new.stage = "list" /\ new # Rest
    BY DEF Rest
  <2> HIDE DEF new
  <2>3. PICK s \in Refreshes : refresh' = [refresh EXCEPT ![s] = new]
    <3>1. DOMAIN refresh = Refreshes
      BY DEF Inv, OneRefresh
    <3> QED
      BY <2>1, <3>1, StartFacts
  <2>4. \A r \in Refreshes : refresh'[r] = IF r = s THEN new ELSE Rest
    BY <1>2, <2>3 DEF Inv, OneRefresh
  <2>5. Rest.stage = "idle"
    BY DEF Rest
  <2> QED
    BY <2>2, <2>4, <2>5 DEF WillLower
<1> QED
  BY <1>1, <1>2

\* Vaults are only added, and no thread of the sidebar is touched.
LEMMA GrowLowers ==
  ASSUME WillLower, UNCHANGED <<refreshing, refresh>>, Range(vaults) \subseteq Range(vaults')
  PROVE  WillLower'
BY DEF WillLower

LEMMA AppendGrows ==
  ASSUME NEW s \in Seq(Vaults), NEW v \in Vaults
  PROVE  Range(s) \subseteq Range(Append(s, v))
BY DEF Range

LEMMA NextLowers == Inv /\ Calm /\ Calm' /\ WillLower /\ [Next]_vars => WillLower'
<1> SUFFICES ASSUME Inv, Calm, Calm', WillLower, [Next]_vars PROVE WillLower'
  OBVIOUS
<1>e. ~StorageError
  BY DEF Calm, StorageError
<1>f. refresh \in [Refreshes -> RefreshThread \cup {Rest}] /\ Rest.stage = "idle"
  BY DEF Inv, OneRefresh, Rest
(* Thread r goes on as c.                                                    *)
<1>t. ASSUME NEW r \in Refreshes, NEW c, refresh' = [refresh EXCEPT ![r] = c],
             refreshing' = refreshing, Range(vaults) \subseteq Range(vaults'),
             c # Rest, c.stage # "failed",
             c.stage = "check" => Range(c.seen) \subseteq Range(vaults')
      PROVE  WillLower'
  <2>1. \A q \in Refreshes : refresh'[q] = IF q = r THEN c ELSE refresh[q]
    BY <1>t, <1>f
  <2> QED
    BY <1>t, <2>1 DEF WillLower
<1>1. ASSUME NEW r \in Refreshes, ListOwned(r) PROVE WillLower'
  <2> DEFINE c == [refresh[r] EXCEPT !.seen = vaults,
                     !.stage = IF vaults = <<>> /\ refresh[r].key THEN "create" ELSE "check"]
  <2>1. refresh' = [refresh EXCEPT ![r] = c] /\ UNCHANGED <<vaults, refreshing>>
    BY <1>1, <1>e DEF ListOwned, database
  <2>2. refresh[r] \in RefreshThread
    BY <1>1, <1>f DEF ListOwned
  <2>3. c.seen = vaults /\ c.stage \in {"create", "check"}
    BY <2>2 DEF RefreshThread
  <2> HIDE DEF c
  <2>4. c # Rest
    BY <2>3, <1>f
  <2> QED
    BY <2>1, <2>3, <2>4, <1>t
<1>2. ASSUME NEW r \in Refreshes, CreateDefault(r) PROVE WillLower'
  <2> DEFINE c == [refresh[r] EXCEPT !.stage = "list", !.key = FALSE]
  <2>1. /\ refresh' = [refresh EXCEPT ![r] = c] /\ refreshing' = refreshing
        /\ \E v \in Vaults : vaults' = Append(vaults, v)
    BY <1>2, <1>e DEF CreateDefault
  <2>2. refresh[r] \in RefreshThread
    BY <1>2, <1>f DEF CreateDefault
  <2>3. c.stage = "list"
    BY <2>2 DEF RefreshThread
  <2> HIDE DEF c
  <2>4. c # Rest
    BY <2>3, <1>f
  <2>5. Range(vaults) \subseteq Range(vaults')
    BY <2>1, AppendGrows DEF Inv, Lists
  <2> QED
    BY <2>1, <2>3, <2>4, <2>5, <1>t
<1>3. ASSUME NEW r \in Refreshes, CountAndShares(r) PROVE WillLower'
  <2> DEFINE c == [refresh[r] EXCEPT !.stage = "done"]
  <2>1. \A v \in Range(refresh[r].seen) : Accessible(v)
    BY <1>3 DEF CountAndShares, WillLower, Accessible
  <2>2. refresh' = [refresh EXCEPT ![r] = c] /\ UNCHANGED <<vaults, refreshing>>
    BY <1>3, <1>e, <2>1 DEF CountAndShares, database
  <2>3. refresh[r] \in RefreshThread
    BY <1>3, <1>f DEF CountAndShares
  <2>4. c.stage = "done"
    BY <2>3 DEF RefreshThread
  <2> HIDE DEF c
  <2>5. c # Rest
    BY <2>4, <1>f
  <2> QED
    BY <2>2, <2>4, <2>5, <1>t
<1>4. ASSUME NEW r \in Refreshes, AnswerRefresh(r) PROVE WillLower'
  <2>1. refresh[r].stage = "done"
    BY <1>4 DEF AnswerRefresh, WillLower
  <2>2. ~refreshing' /\ vaults' = vaults
    BY <1>4, <2>1 DEF AnswerRefresh, database
  <2>3. \A q \in Refreshes : refresh'[q] = IF q = r THEN Rest ELSE refresh[q]
    BY <1>4, <1>f DEF AnswerRefresh
  <2> QED
    BY <2>2, <2>3, <1>f DEF WillLower
<1>5. ASSUME NEW d \in Jobs, RunJob(d) PROVE WillLower'
  <2>1. job[d].op # "delete"
    BY <1>5 DEF RunJob, Calm, Rest
  <2>2. UNCHANGED <<refreshing, refresh>>
    BY <1>5 DEF RunJob, sidebar
  <2>3. UNCHANGED vaults \/ \E v \in Vaults : vaults' = Append(vaults, v)
    BY <1>5, <2>1 DEF RunJob, database
  <2>4. Range(vaults) \subseteq Range(vaults')
    BY <2>3, AppendGrows DEF Inv, Lists
  <2> QED
    BY <2>2, <2>4, GrowLowers
<1>6. ASSUME NEW d \in Jobs, AnswerJob(d) PROVE WillLower'
  <2>1. UNCHANGED vaults /\ (BeginRefresh(key) \/ UNCHANGED sidebar)
    BY <1>6 DEF AnswerJob, database
  <2>2. key \in BOOLEAN
    BY DEF Inv, Counters
  <2>3. CASE BeginRefresh(key)
    BY <2>1, <2>2, <2>3, BeginLowers
  <2>4. CASE UNCHANGED sidebar
    BY <2>1, <2>4, GrowLowers DEF sidebar
  <2> QED
    BY <2>1, <2>3, <2>4
<1>7. CASE Unlock
  <2>1. UNCHANGED vaults /\ BeginRefresh(TRUE)
    BY <1>7 DEF Unlock, database
  <2> QED
    BY <2>1, BeginLowers
<1>8. ASSUME UNCHANGED <<vaults, refreshing, refresh>> PROVE WillLower'
  BY <1>8, GrowLowers
<1>9. ASSUME NEW l \in Loads, ReadSecrets(l) \/ AnswerLoad(l) PROVE WillLower'
  BY <1>8, <1>9 DEF ReadSecrets, AnswerLoad, database, sidebar
<1>10. ASSUME NEW v \in Vaults, SelectVault(v) PROVE WillLower'
  BY <1>8, <1>10 DEF SelectVault, database
<1>11. ASSUME NEW op, NEW v, StartJob(op, v) PROVE WillLower'
  BY <1>8, <1>11 DEF StartJob, database, sidebar
<1>12. CASE ToggleGlobal \/ SwitchView \/ Lock \/ UNCHANGED vars
  BY <1>8, <1>12 DEF ToggleGlobal, SwitchView, Lock, vars, database, sidebar
<1> QED
  BY <1>1, <1>2, <1>3, <1>4, <1>5, <1>6, <1>7, <1>9, <1>10, <1>11, <1>12 DEF Next, Answers

LEMMA InitLowers == Refreshes # {} /\ Init => WillLower
<1> SUFFICES ASSUME Refreshes # {}, Init PROVE WillLower
  OBVIOUS
<1> DEFINE new == [stage |-> "list", attempt |-> TRUE, key |-> TRUE, seen |-> <<>>]
           none == [r \in Refreshes |-> Rest]
<1>1. refresh = Start(none, new)
  BY DEF Init
<1>2. new.stage = "list" /\ new # Rest /\ Rest.stage = "idle"
  BY DEF Rest
<1>3. DOMAIN none = Refreshes /\ \A r \in Refreshes : none[r] = Rest
  OBVIOUS
<1> HIDE DEF none, new
<1>4. Free(none) # {}
  BY <1>2, <1>3 DEF Free
<1>5. PICK s \in Refreshes : refresh = [none EXCEPT ![s] = new]
  BY <1>1, <1>3, <1>4, StartFacts
<1>6. \A r \in Refreshes : refresh[r] = IF r = s THEN new ELSE Rest
  BY <1>3, <1>5
<1> QED
  BY <1>2, <1>6 DEF WillLower

(* While no statement fails and no vault is deleted under a refresh, the     *)
(* guard of the sidebar is up only while the thread that lowers it runs,     *)
(* however answers, unlocks and changes overlap (vault_list.rs).             *)
THEOREM GuardComesDown == Refreshes # {} => (Spec /\ []Calm => []FlagMeansRefresh)
<1> SUFFICES ASSUME Refreshes # {} PROVE Spec /\ []Calm => []FlagMeansRefresh
  OBVIOUS
<1>1. Init => WillLower
  BY InitLowers
<1>2. Inv /\ Calm /\ Calm' /\ WillLower /\ [Next]_vars => WillLower'
  BY NextLowers
<1>3. Inv /\ WillLower => FlagMeansRefresh
  BY IdleThreads DEF Inv, OneRefresh, WillLower, FlagMeansRefresh
<1> QED
  BY <1>1, <1>2, <1>3, InvHolds, PTL DEF Spec

-----------------------------------------------------------------------------
(* SearchMatch.                                                            *)

----------------------------------------------------------------------------
(* What one edit means, letter by letter.                                    *)

LEMMA TextFacts ==
  ASSUME NEW a \in Texts
  PROVE  Len(a) \in Nat /\ DOMAIN a = 1..Len(a) /\ a = [n \in 1..Len(a) |-> a[n]]
BY DEF Texts

LEMMA WithoutIs ==
  ASSUME NEW a \in Texts, NEW b \in Texts, Len(a) = Len(b) + 1, NEW k \in 1..Len(a)
  PROVE  Without(a, k) = b <=> \A n \in 1..Len(b): b[n] = IF n < k THEN a[n] ELSE a[n + 1]
<1>1. Len(a) - 1 = Len(b) /\ Len(b) \in Nat
  BY TextFacts
<1>2. Without(a, k) = [n \in 1..Len(b) |-> IF n < k THEN a[n] ELSE a[n + 1]]
  BY <1>1 DEF Without
<1>3. b = [n \in 1..Len(b) |-> b[n]]
  BY TextFacts
<1> HIDE DEF Without
<1>4. CASE Without(a, k) = b
  BY <1>2, <1>4
<1>5. CASE \A n \in 1..Len(b): b[n] = IF n < k THEN a[n] ELSE a[n + 1]
  <2>1. Without(a, k) = [n \in 1..Len(b) |-> b[n]]
    BY <1>2, <1>5
  <2> QED
    BY <1>3, <1>5, <2>1
<1> QED
  BY <1>4, <1>5

\* Words whose lengths are too far apart are not near.
LEMMA FarIsNotNear ==
  ASSUME NEW a \in Texts, NEW b \in Texts, FarApart(a, b)
  PROVE  ~Near(a, b)
BY TextFacts DEF FarApart, Near, Exchanged, ShorterBy

----------------------------------------------------------------------------
(* The loop.                                                                 *)

\* Nothing skipped: the words agree so far.
Agreeing(a, b, m, n) ==
  m = n /\ \A k \in 1..(m - 1): a[k] = b[k]

\* They agree up to the first difference p, and after it as the lengths say.
Differing(a, b, m, n, p) ==
  /\ p \in 1..Len(a) /\ p \in 1..Len(b)
  /\ a[p] # b[p] /\ \A k \in 1..(p - 1): a[k] = b[k]
  /\ Len(a) = Len(b) => m = n /\ p < m /\ \A k \in (p + 1)..(m - 1): a[k] = b[k]
  /\ Len(a) > Len(b) => m = n + 1 /\ p <= n /\ \A k \in p..(n - 1): a[k + 1] = b[k]
  /\ Len(b) > Len(a) => n = m + 1 /\ p <= m /\ \A k \in p..(m - 1): a[k] = b[k + 1]

LoopInv ==
  /\ near = "unknown" /\ ~FarApart(left, right)
  /\ i \in 1..(Len(left) + 1) /\ j \in 1..(Len(right) + 1)
  /\ edits = 0 => Agreeing(left, right, i, j)
  /\ edits = 1 => \E p \in Nat: Differing(left, right, i, j, p)

\* The words compared are texts, and what was answered of them is right.
SearchTypes ==
  /\ search \in Searches
  /\ t \in Nat \ {0}
  /\ left \in Texts /\ right \in Texts /\ words \subseteq Texts
  /\ edits \in 0..1

SearchInv == SearchTypes /\ (phase = "edit" => LoopInv) /\ EditsExact

\* An end of a word reached with no more than one difference: they are near.
LEMMA AgreeingEnds ==
  ASSUME NEW a \in Texts, NEW b \in Texts, ~FarApart(a, b),
         NEW m \in 1..(Len(a) + 1), NEW n \in 1..(Len(b) + 1), Agreeing(a, b, m, n),
         m > Len(a) \/ n > Len(b)
  PROVE  Near(a, b)
<1>1. Len(a) \in Nat /\ Len(b) \in Nat /\ m = n
  BY TextFacts DEF Agreeing
<1>2. CASE Len(a) = Len(b)
  <2>1. \A k \in 1..Len(a): a[k] = b[k]
    BY <1>1, <1>2 DEF Agreeing
  <2>2. 1 \in 1..(Len(a) + 1)
    BY <1>1
  <2> QED
    BY <1>2, <2>1, <2>2 DEF Near, Exchanged
<1>3. CASE Len(a) = Len(b) + 1
  <2>1. \A k \in 1..Len(b): b[k] = IF k < Len(a) THEN a[k] ELSE a[k + 1]
    BY <1>1, <1>3 DEF Agreeing
  <2>2. Len(a) \in 1..Len(a)
    BY <1>1, <1>3
  <2>3. Without(a, Len(a)) = b
    BY <1>3, <2>1, <2>2, WithoutIs
  <2> QED
    BY <1>3, <2>2, <2>3 DEF Near, ShorterBy
<1>4. CASE Len(b) = Len(a) + 1
  <2>1. \A k \in 1..Len(a): a[k] = IF k < Len(b) THEN b[k] ELSE b[k + 1]
    BY <1>1, <1>4 DEF Agreeing
  <2>2. Len(b) \in 1..Len(b)
    BY <1>1, <1>4
  <2>3. Without(b, Len(b)) = a
    BY <1>4, <2>1, <2>2, WithoutIs
  <2> QED
    BY <1>4, <2>2, <2>3 DEF Near, ShorterBy
<1> QED
  BY <1>1, <1>2, <1>3, <1>4 DEF FarApart

LEMMA DifferingEnds ==
  ASSUME NEW a \in Texts, NEW b \in Texts, ~FarApart(a, b),
         NEW m \in 1..(Len(a) + 1), NEW n \in 1..(Len(b) + 1),
         NEW p \in Nat, Differing(a, b, m, n, p),
         m > Len(a) \/ n > Len(b)
  PROVE  Near(a, b) /\ m > Len(a) /\ n > Len(b)
<1>1. Len(a) \in Nat /\ Len(b) \in Nat
  BY TextFacts
<1>2. CASE Len(a) = Len(b)
  <2>1. m = Len(a) + 1 /\ n = Len(b) + 1 /\ p \in 1..(Len(a) + 1)
    BY <1>1, <1>2 DEF Differing
  <2>2. \A k \in 1..Len(a): k # p => a[k] = b[k]
    BY <1>1, <1>2, <2>1 DEF Differing
  <2> QED
    BY <1>1, <1>2, <2>1, <2>2 DEF Near, Exchanged
<1>3. CASE Len(a) = Len(b) + 1
  <2>1. m = Len(a) + 1 /\ n = Len(b) + 1 /\ p \in 1..Len(a)
    BY <1>1, <1>3, SMTT(60) DEF Differing
  <2>2. \A k \in 1..Len(b): b[k] = IF k < p THEN a[k] ELSE a[k + 1]
    BY <1>1, <1>3, <2>1 DEF Differing
  <2>3. Without(a, p) = b
    BY <1>3, <2>1, <2>2, WithoutIs
  <2> QED
    BY <1>1, <1>3, <2>1, <2>3 DEF Near, ShorterBy
<1>4. CASE Len(b) = Len(a) + 1
  <2>1. m = Len(a) + 1 /\ n = Len(b) + 1 /\ p \in 1..Len(b)
    BY <1>1, <1>4, SMTT(60) DEF Differing
  <2>2. \A k \in 1..Len(a): a[k] = IF k < p THEN b[k] ELSE b[k + 1]
    BY <1>1, <1>4, <2>1 DEF Differing
  <2>3. Without(b, p) = a
    BY <1>4, <2>1, <2>2, WithoutIs
  <2> QED
    BY <1>1, <1>4, <2>1, <2>3 DEF Near, ShorterBy
<1> QED
  BY <1>1, <1>2, <1>3, <1>4 DEF FarApart

\* A second difference: no edit makes the words equal.
LEMMA SecondDifference ==
  ASSUME NEW a \in Texts, NEW b \in Texts, ~FarApart(a, b),
         NEW m \in 1..Len(a), NEW n \in 1..Len(b),
         NEW p \in Nat, Differing(a, b, m, n, p), a[m] # b[n]
  PROVE  ~Near(a, b)
<1>1. Len(a) \in Nat /\ Len(b) \in Nat
  BY TextFacts
<1>2. CASE Len(a) = Len(b)
  <2>1. m = n /\ p < m /\ a[p] # b[p] /\ p \in 1..Len(a)
    BY <1>2 DEF Differing
  <2>2. ~Exchanged(a, b)
    BY <1>1, <2>1 DEF Exchanged
  <2> QED
    BY <1>1, <1>2, <2>2 DEF Near, ShorterBy
<1>3. CASE Len(a) = Len(b) + 1
  <2>1. m = n + 1 /\ p <= n /\ a[p] # b[p] /\ p \in 1..Len(b)
    BY <1>1, <1>3, SMTT(60) DEF Differing
  <2>2. ASSUME NEW k \in 1..Len(a), Without(a, k) = b PROVE FALSE
    <3>1. \A x \in 1..Len(b): b[x] = IF x < k THEN a[x] ELSE a[x + 1]
      BY SMTT(60), <1>3, <2>2, WithoutIs
    <3>2. k <= p
      BY <1>1, <2>1, <3>1
    <3>3. b[n] = a[n + 1]
      BY <1>1, <2>1, <3>1, <3>2
    <3> QED
      BY <2>1, <3>3
  <2>3. ~ShorterBy(a, b)
    BY <2>2 DEF ShorterBy
  <2> QED
    BY <1>1, <1>3, <2>3 DEF Near, ShorterBy, Exchanged
<1>4. CASE Len(b) = Len(a) + 1
  <2>1. n = m + 1 /\ p <= m /\ a[p] # b[p] /\ p \in 1..Len(a)
    BY <1>1, <1>4, SMTT(60) DEF Differing
  <2>2. ASSUME NEW k \in 1..Len(b), Without(b, k) = a PROVE FALSE
    <3>1. \A x \in 1..Len(a): a[x] = IF x < k THEN b[x] ELSE b[x + 1]
      BY <1>4, <2>2, WithoutIs
    <3>2. k <= p
      BY <1>1, <2>1, <3>1
    <3>3. a[m] = b[m + 1]
      BY <1>1, <2>1, <3>1, <3>2
    <3> QED
      BY <2>1, <3>3
  <2>3. ~ShorterBy(b, a)
    BY <2>2 DEF ShorterBy
  <2> QED
    BY <1>1, <1>4, <2>3 DEF Near, ShorterBy, Exchanged
<1> QED
  BY <1>1, <1>2, <1>3, <1>4 DEF FarApart

----------------------------------------------------------------------------
(* The terms of a query are texts, and so are the words they look at.        *)

LEMMA QueryTypes ==
  ASSUME SearchTypes
  PROVE  Query \in Seq(Tokens) /\ Entry \in Entries
BY SearchesAreTyped DEF SearchTypes, Query, Entry

LEMMA FieldTypes ==
  ASSUME NEW name \in Names, NEW text \in Texts
  PROVE  Field(name, text).text \in Texts
         /\ Field(name, text).field \in Fields \union {"dropped", "any"}
<1>1. KeyText[name] \in Texts /\ KeyText[name] \o text \in Texts
  BY NamesHaveText, ConcatProperties DEF Names, Texts
<1> QED
  BY <1>1, KnownNames DEF Field, Dropped, Anywhere, Texts

LEMMA TermTypes ==
  ASSUME SearchTypes, NEW n \in 1..Len(Query)
  PROVE  TermOf(Query, n).text \in Texts
         /\ TermOf(Query, n).field \in Fields \union {"dropped", "health", "any"}
<1> DEFINE token == Query[n]
<1>1. Query \in Seq(Tokens)
  BY QueryTypes
<1>2. token \in Tokens
  BY <1>1
<1>3. token.name \in Names /\ token.text \in Texts /\ KeyText[token.name] \in Texts
  BY <1>2, NamesHaveText DEF Tokens, Names
<1>4. Joined(Query, n) => Query[n + 1].text \in Texts
  <2> SUFFICES ASSUME Joined(Query, n) PROVE Query[n + 1].text \in Texts
    OBVIOUS
  <2>1. n + 1 \in 1..Len(Query)
    BY <1>1 DEF Joined
  <2>2. Query[n + 1] \in Tokens
    BY <1>1, <2>1
  <2> QED
    BY <2>2 DEF Tokens
<1>5. /\ Dropped.text \in Texts /\ Dropped.field = "dropped"
      /\ \A text \in Texts: /\ Anywhere(text).text \in Texts
                            /\ Anywhere(text).field \in {"dropped", "any"}
  BY DEF Dropped, Anywhere, Texts
<1>6. CASE Consumed(Query, n)
  BY <1>5, <1>6 DEF TermOf
<1>7. CASE ~Consumed(Query, n) /\ Joined(Query, n)
  BY <1>3, <1>4, <1>7, FieldTypes DEF TermOf
<1>8. CASE ~Consumed(Query, n) /\ ~Joined(Query, n)
  BY <1>3, <1>5, <1>8, FieldTypes DEF TermOf
<1> QED
  BY <1>6, <1>7, <1>8

LEMMA HaystackTypes ==
  ASSUME SearchTypes, NEW n \in 1..Len(Query), Comparable(TermOf(Query, n))
  PROVE  Haystack(Entry, TermOf(Query, n).field) \subseteq Texts
<1>1. Entry.text \in [Fields -> SUBSET Texts]
  BY QueryTypes DEF Entries
<1>2. TermOf(Query, n).field \in Fields \union {"any"}
  BY TermTypes DEF Comparable
<1> QED
  BY <1>1, <1>2 DEF Haystack

----------------------------------------------------------------------------
(* The steps.                                                                *)

LEMMA TermsKeep ==
  ASSUME SearchInv, TakeTerm \/ Finish \/ NoWordLeft
  PROVE  SearchInv'
<1>1. SearchTypes /\ EditsExact /\ phase # "edit"
  BY DEF SearchInv, TakeTerm, Finish, NoWordLeft
<1>2. CASE Finish \/ NoWordLeft
  BY <1>1, <1>2 DEF SearchInv, SearchTypes, EditsExact, Finish, NoWordLeft, End, comparison
<1>3. CASE TakeTerm
  <2> DEFINE term == TermOf(Query, t)
  <2>1. t \in 1..Len(Query) /\ t + 1 \in Nat \ {0}
    <3>1. Len(Query) \in Nat
      BY <1>1, QueryTypes
    <3> QED
      BY <1>1, <1>3, <3>1 DEF TakeTerm, SearchTypes
  <2>2. CASE Met(Entry, term)
    <3>1. t' = t + 1 /\ UNCHANGED <<search, phase, words, left, right, edits, near>>
      BY <1>3, <2>2 DEF TakeTerm, comparison
    <3> QED
      BY <1>1, <2>1, <3>1 DEF SearchInv, SearchTypes, EditsExact
  <2>3. CASE ~Met(Entry, term) /\ ~Comparable(term)
    BY <1>1, <1>3, <2>3 DEF TakeTerm, End, comparison, SearchInv, SearchTypes, EditsExact
  <2>4. CASE ~Met(Entry, term) /\ Comparable(term)
    <3>1. /\ phase' = "word" /\ words' = Haystack(Entry, term.field) /\ left' = term.text
          /\ near' = "unknown" /\ UNCHANGED <<search, t, right, edits>>
      BY <1>3, <2>4 DEF TakeTerm
    <3>2. words' \subseteq Texts /\ left' \in Texts
      BY <1>1, <2>1, <2>4, <3>1, TermTypes, HaystackTypes
    <3> QED
      BY <1>1, <3>1, <3>2 DEF SearchInv, SearchTypes, EditsExact
  <2> QED
    BY <2>2, <2>3, <2>4
<1> QED
  BY <1>2, <1>3

LEMMA WordsKeep ==
  ASSUME SearchInv, TakeWord
  PROVE  SearchInv'
<1>1. PICK word \in words :
        /\ words' = words \ {word} /\ right' = word
        /\ IF FarApart(left, word) THEN near' = "no" /\ UNCHANGED phase
           ELSE near' = "unknown" /\ phase' = "edit"
        /\ phase = "word" /\ i' = 1 /\ j' = 1 /\ edits' = 0
        /\ UNCHANGED <<search, t, left>>
  BY DEF TakeWord
<1>2. SearchTypes' /\ word \in Texts /\ left \in Texts
  BY <1>1 DEF SearchInv, SearchTypes
<1>3. EditsExact'
  <2>1. near' = "no" => ~Near(left, word)
    BY <1>1, <1>2, FarIsNotNear
  <2> QED
    BY <1>1, <2>1 DEF EditsExact
<1>4. phase' = "edit" => LoopInv'
  <2>1. Agreeing(left, word, 1, 1)
    BY DEF Agreeing
  <2>2. 1 \in 1..(Len(left) + 1) /\ 1 \in 1..(Len(word) + 1)
    BY <1>2, TextFacts
  <2> QED
    BY <1>1, <2>1, <2>2 DEF LoopInv
<1> QED
  BY <1>2, <1>3, <1>4 DEF SearchInv

LEMMA LettersKeep ==
  ASSUME SearchInv, SameLetter \/ FirstEdit
  PROVE  SearchInv'
<1>1. /\ Running /\ LoopInv
      /\ UNCHANGED <<search, phase, t, words, left, right, near>>
      /\ left \in Texts /\ right \in Texts /\ edits \in 0..1
  BY DEF SearchInv, SearchTypes, SameLetter, FirstEdit, Running
<1>2. /\ Len(left) \in Nat /\ Len(right) \in Nat
      /\ i \in 1..Len(left) /\ j \in 1..Len(right)
  BY <1>1, TextFacts DEF Running, LoopInv
<1>3. LoopInv' /\ edits' \in 0..1
  <2>1. CASE SameLetter /\ edits = 0
    <3>1. i' = i + 1 /\ j' = j + 1 /\ edits' = 0 /\ left[i] = right[j]
      BY <2>1 DEF SameLetter
    <3>2. Agreeing(left, right, i + 1, j + 1)
      BY <1>1, <1>2, <2>1, <3>1 DEF LoopInv, Agreeing
    <3> QED
      BY <1>1, <1>2, <3>1, <3>2 DEF LoopInv
  <2>2. CASE SameLetter /\ edits = 1
    <3>1. i' = i + 1 /\ j' = j + 1 /\ edits' = 1 /\ left[i] = right[j]
      BY <2>2 DEF SameLetter
    <3>2. PICK p \in Nat : Differing(left, right, i, j, p)
      BY <1>1, <2>2 DEF LoopInv
    <3>3. Differing(left, right, i + 1, j + 1, p)
      BY <1>2, <3>1, <3>2 DEF Differing
    <3> QED
      BY <1>1, <1>2, <3>1, <3>3 DEF LoopInv
  <2>3. CASE FirstEdit
    <3>1. /\ edits = 0 /\ edits' = 1 /\ left[i] # right[j]
          /\ i' = IF Len(right) > Len(left) THEN i ELSE i + 1
          /\ j' = IF Len(left) > Len(right) THEN j ELSE j + 1
      BY <2>3 DEF FirstEdit
    <3>2. i = j /\ \A k \in 1..(i - 1): left[k] = right[k]
      BY <1>1, <3>1 DEF LoopInv, Agreeing
    <3>3. Differing(left, right, i', j', i)
      BY <1>2, <3>1, <3>2 DEF Differing
    <3>4. i' \in 1..(Len(left) + 1) /\ j' \in 1..(Len(right) + 1) /\ i \in Nat
      BY <1>2, <3>1
    <3> QED
      BY <1>1, <3>1, <3>3, <3>4 DEF LoopInv
  <2> QED
    BY <1>1, <2>1, <2>2, <2>3
<1> QED
  BY <1>1, <1>3 DEF SearchInv, SearchTypes, EditsExact

LEMMA EndsKeep ==
  ASSUME SearchInv, SecondEdit \/ EndOfWord
  PROVE  SearchInv'
<1>1. /\ phase = "edit" /\ LoopInv /\ phase' # "edit"
      /\ UNCHANGED <<search, words, left, right, i, j, edits>>
      /\ left \in Texts /\ right \in Texts /\ edits \in 0..1
      /\ t \in Nat \ {0} /\ t' \in {t, t + 1}
  BY DEF SearchInv, SearchTypes, SecondEdit, EndOfWord, Running, comparison
<1>2. /\ Len(left) \in Nat /\ Len(right) \in Nat /\ ~FarApart(left, right)
      /\ i \in 1..(Len(left) + 1) /\ j \in 1..(Len(right) + 1)
  BY <1>1, TextFacts DEF LoopInv
<1>3. EditsExact'
  <2>1. CASE SecondEdit
    <3>1. near' = "no" /\ left[i] # right[j] /\ edits = 1
          /\ i \in 1..Len(left) /\ j \in 1..Len(right)
      BY <1>2, <2>1 DEF SecondEdit, Running
    <3>2. PICK p \in Nat : Differing(left, right, i, j, p)
      BY <1>1, <3>1 DEF LoopInv
    <3>3. ~Near(left, right)
      BY <1>1, <1>2, <3>1, <3>2, SecondDifference
    <3> QED
      BY <1>1, <3>1, <3>3 DEF EditsExact
  <2>2. CASE EndOfWord
    <3> DEFINE leftover == IF i <= Len(left) \/ j <= Len(right) THEN 1 ELSE 0
    <3>1. /\ i > Len(left) \/ j > Len(right)
          /\ edits + leftover <= 1 => near' = "yes"
          /\ ~(edits + leftover <= 1) => near' = "no"
      BY <1>1, <1>2, <2>2 DEF EndOfWord, Running
    <3>2. CASE edits = 0
      <4>1. Near(left, right)
        BY <1>1, <1>2, <3>1, <3>2, AgreeingEnds DEF LoopInv
      <4> QED
        BY <1>1, <3>1, <3>2, <4>1 DEF EditsExact
    <3>3. CASE edits = 1
      <4>1. PICK p \in Nat : Differing(left, right, i, j, p)
        BY <1>1, <3>3 DEF LoopInv
      <4>2. Near(left, right) /\ i > Len(left) /\ j > Len(right)
        BY <1>1, <1>2, <3>1, <4>1, DifferingEnds
      <4>3. leftover = 0
        BY <1>2, <4>2
      <4> QED
        BY <1>1, <3>1, <3>3, <4>2, <4>3 DEF EditsExact
    <3> QED
      BY <1>1, <3>2, <3>3
  <2> QED
    BY <2>1, <2>2
<1> QED
  BY <1>1, <1>3 DEF SearchInv, SearchTypes

----------------------------------------------------------------------------

LEMMA SearchInvHolds == SearchSpec => []SearchInv
<1>1. SearchInit => SearchInv
  BY DEF SearchInit, SearchInv, SearchTypes, EditsExact, Texts
<1>2. ASSUME SearchInv, [SearchNext]_searchVars
      PROVE  SearchInv'
  <2>1. CASE UNCHANGED searchVars
    BY <1>2, <2>1
    DEF searchVars, comparison, SearchInv, SearchTypes, LoopInv, EditsExact
  <2> QED
    BY <1>2, <2>1, TermsKeep, WordsKeep, LettersKeep, EndsKeep DEF SearchNext
<1> QED
  BY <1>1, <1>2, PTL DEF SearchSpec

\* The loop answers yes exactly when one letter exchanged, inserted or dropped
\* makes the words equal (within_one_edit), for words of any length over any
\* letters.
THEOREM OneEditDecided == SearchSpec => []EditsExact
<1>1. SearchInv => EditsExact
  BY DEF SearchInv
<1> QED
  BY <1>1, SearchInvHolds, PTL

----------------------------------------------------------------------------
(* What the filter shows is what is asked.                                   *)

\* The terms passed are met.  The one being compared was not met by a part of a word,
\* and none of the words compared with it is near.
AskedInv ==
  /\ phase # "done" => \A n \in DOMAIN Query : n < t => Satisfied(Entry, TermOf(Query, n))
  /\ phase \in {"word", "edit"} =>
       LET term == TermOf(Query, t) IN
       /\ t \in DOMAIN Query /\ Comparable(term) /\ ~Met(Entry, term) /\ left = term.text
       /\ words \subseteq Haystack(Entry, term.field)
       /\ \A word \in Haystack(Entry, term.field) :
            word \in words \/ ~Near(left, word) \/ (phase = "edit" /\ word = right)
       /\ phase = "edit" => right \in Haystack(Entry, term.field)
  /\ ShownIsAsked

Asking == phase \in {"term", "word", "edit", "done"} /\ SearchInv /\ AskedInv

LEMMA TermsAsk ==
  ASSUME Asking, TakeTerm \/ Finish
  PROVE  phase' \in {"term", "word", "edit", "done"} /\ AskedInv'
<1>1. /\ SearchTypes /\ phase = "term" /\ UNCHANGED search
      /\ \A n \in DOMAIN Query : n < t => Satisfied(Entry, TermOf(Query, n))
  BY DEF Asking, SearchInv, AskedInv, TakeTerm, Finish, End
<1>2. Len(Query) \in Nat /\ DOMAIN Query = 1..Len(Query) /\ t \in Nat \ {0}
  BY <1>1, QueryTypes DEF SearchTypes
<1>3. Query' = Query /\ Entry' = Entry
  BY <1>1 DEF Query, Entry
<1>4. CASE Finish
  <2>1. /\ t > Len(Query) /\ phase' = "done"
        /\ shown' = (matches_category /\ matches_audit)
    BY <1>4 DEF Finish, End
  <2>2. \A n \in DOMAIN Query : Satisfied(Entry, TermOf(Query, n))
    BY <1>1, <1>2, <2>1
  <2>3. matches_category' = matches_category /\ matches_audit' = matches_audit
    BY <1>1 DEF matches_category, matches_audit, Entry
  <2> QED
    BY <1>3, <2>1, <2>2, <2>3, Zenon DEF AskedInv, ShownIsAsked
<1>5. CASE TakeTerm
  <2> DEFINE term == TermOf(Query, t)
  <2>1. t \in DOMAIN Query
    BY <1>2, <1>5 DEF TakeTerm
  <2>2. CASE Met(Entry, term)
    <3>1. t' = t + 1 /\ UNCHANGED phase
      BY <1>5, <2>2 DEF TakeTerm
    <3>2. Satisfied(Entry, term)
      BY <2>2 DEF Satisfied
    <3>3. \A n \in DOMAIN Query : n < t + 1 => Satisfied(Entry, TermOf(Query, n))
      BY <1>1, <1>2, <3>2
    <3> QED
      BY <1>1, <1>3, <3>1, <3>3 DEF AskedInv, ShownIsAsked
  <2>3. CASE ~Met(Entry, term) /\ ~Comparable(term)
    <3>1. phase' = "done" /\ shown' = FALSE
      BY <1>5, <2>3 DEF TakeTerm, End
    <3>2. ~Satisfied(Entry, term)
      BY <2>3 DEF Satisfied
    <3> QED
      BY <1>3, <2>1, <3>1, <3>2 DEF AskedInv, ShownIsAsked
  <2>4. CASE ~Met(Entry, term) /\ Comparable(term)
    <3>1. /\ phase' = "word" /\ words' = Haystack(Entry, term.field)
          /\ left' = term.text /\ t' = t
      BY <1>5, <2>4 DEF TakeTerm
    <3> QED
      BY <1>1, <1>3, <2>1, <2>4, <3>1 DEF AskedInv, ShownIsAsked
  <2> QED
    BY <2>2, <2>3, <2>4
<1> QED
  BY <1>4, <1>5

LEMMA WordsAsk ==
  ASSUME Asking, TakeWord \/ NoWordLeft
  PROVE  phase' \in {"term", "word", "edit", "done"} /\ AskedInv'
<1> DEFINE term == TermOf(Query, t)
<1>1. /\ phase = "word" /\ UNCHANGED <<search, t>>
      /\ \A n \in DOMAIN Query : n < t => Satisfied(Entry, TermOf(Query, n))
      /\ t \in DOMAIN Query /\ Comparable(term) /\ ~Met(Entry, term) /\ left = term.text
      /\ words \subseteq Haystack(Entry, term.field)
      /\ \A word \in Haystack(Entry, term.field) : word \in words \/ ~Near(left, word)
  BY DEF Asking, AskedInv, TakeWord, NoWordLeft, End
<1>2. Query' = Query /\ Entry' = Entry
  BY <1>1 DEF Query, Entry
<1>3. CASE TakeWord
  <2>1. PICK word \in words :
          /\ words' = words \ {word} /\ right' = word /\ left' = left
          /\ IF FarApart(left, word) THEN near' = "no" /\ UNCHANGED phase
             ELSE near' = "unknown" /\ phase' = "edit"
    BY <1>3 DEF TakeWord
  <2>2. phase' = "word" => ~Near(left, word)
    <3>1. left \in Texts /\ word \in Texts
      BY <2>1 DEF Asking, SearchInv, SearchTypes
    <3> QED
      BY <1>1, <2>1, <3>1, FarIsNotNear
  <2> QED
    BY <1>1, <1>2, <2>1, <2>2 DEF AskedInv, ShownIsAsked
<1>4. CASE NoWordLeft
  <2>1. phase' = "done" /\ shown' = FALSE /\ words = {}
    BY <1>4 DEF NoWordLeft, End
  <2>2. ~Satisfied(Entry, term)
    BY <1>1, <2>1 DEF Satisfied
  <2> QED
    BY <1>1, <1>2, <2>1, <2>2 DEF AskedInv, ShownIsAsked
<1> QED
  BY <1>3, <1>4

LEMMA LettersAsk ==
  ASSUME Asking, SearchInv', SameLetter \/ FirstEdit \/ SecondEdit \/ EndOfWord
  PROVE  phase' \in {"term", "word", "edit", "done"} /\ AskedInv'
<1> DEFINE term == TermOf(Query, t)
<1>1. phase = "edit" /\ UNCHANGED <<search, words, left, right>>
  BY DEF SameLetter, FirstEdit, SecondEdit, EndOfWord, Running, comparison
<1>2. /\ \A n \in DOMAIN Query : n < t => Satisfied(Entry, TermOf(Query, n))
      /\ t \in DOMAIN Query /\ Comparable(term) /\ ~Met(Entry, term) /\ left = term.text
      /\ words \subseteq Haystack(Entry, term.field) /\ right \in Haystack(Entry, term.field)
      /\ \A word \in Haystack(Entry, term.field) :
            word \in words \/ ~Near(left, word) \/ word = right
  BY <1>1 DEF Asking, AskedInv
<1>3. Query' = Query /\ Entry' = Entry
  BY <1>1 DEF Query, Entry
<1>4. \/ UNCHANGED <<phase, t>>
      \/ phase' = "word" /\ t' = t /\ near' = "no"
      \/ phase' = "term" /\ t' = t + 1 /\ near' = "yes"
  BY DEF SameLetter, FirstEdit, SecondEdit, EndOfWord
<1>5. CASE UNCHANGED <<phase, t>>
  BY <1>1, <1>2, <1>3, <1>5 DEF AskedInv, ShownIsAsked
<1>6. CASE phase' = "word" /\ t' = t /\ near' = "no"
  <2>1. ~Near(left, right)
    BY <1>1, <1>6 DEF SearchInv, EditsExact
  <2> QED
    BY <1>1, <1>2, <1>3, <1>6, <2>1 DEF AskedInv, ShownIsAsked
<1>7. CASE phase' = "term" /\ t' = t + 1 /\ near' = "yes"
  <2>1. Near(left, right)
    BY <1>1, <1>7 DEF SearchInv, EditsExact
  <2>2. Satisfied(Entry, term)
    BY <1>2, <2>1 DEF Satisfied
  <2>3. t \in Nat /\ DOMAIN Query \subseteq Nat
    BY QueryTypes DEF Asking, SearchInv, SearchTypes
  <2>4. \A n \in DOMAIN Query : n < t + 1 => Satisfied(Entry, TermOf(Query, n))
    BY <1>2, <2>2, <2>3
  <2> QED
    BY <1>3, <1>7, <2>4 DEF AskedInv, ShownIsAsked
<1> QED
  BY <1>4, <1>5, <1>6, <1>7

LEMMA AskedHolds == SearchSpec => []Asking
<1>1. SearchInit => Asking
  <2> SUFFICES ASSUME SearchInit PROVE Asking
    OBVIOUS
  <2>1. SearchInv /\ phase = "term" /\ t = 1
    BY DEF SearchInit, SearchInv, SearchTypes, EditsExact, Texts
  <2>2. DOMAIN Query \subseteq Nat \ {0}
    BY <2>1, QueryTypes DEF SearchInv
  <2> QED
    BY <2>1, <2>2 DEF Asking, AskedInv, ShownIsAsked
<1>2. ASSUME Asking, SearchInv', [SearchNext]_searchVars
      PROVE  Asking'
  <2>1. CASE UNCHANGED searchVars
    BY <1>2, <2>1
    DEF searchVars, comparison, Asking, AskedInv, ShownIsAsked, Query, Entry,
        matches_category, matches_audit
  <2> QED
    BY <1>2, <2>1, TermsAsk, WordsAsk, LettersAsk DEF SearchNext, Asking
<1>3. Asking => SearchInv
  BY DEF Asking
<1> QED
  BY <1>1, <1>2, <1>3, SearchInvHolds, PTL DEF SearchSpec

----------------------------------------------------------------------------
(* A query and the same with a space after a colon.                          *)

\* The token of a field, and the two it is when a space follows the colon.
LEMMA SpacedIs ==
  ASSUME NEW query \in Seq(Tokens), NEW n \in DOMAIN query
  PROVE  /\ Len(Spaced(query, n)) = Len(query) + 1
         /\ \A k \in 1..Len(query) + 1 :
              Spaced(query, n)[k] =
                IF k < n THEN query[k]
                ELSE IF k = n THEN [query[n] EXCEPT !.form = "open", !.text = <<>>]
                ELSE IF k = n + 1 THEN [query[n] EXCEPT !.form = "word"]
                ELSE query[k - 1]
<1> DEFINE open == [query[n] EXCEPT !.form = "open", !.text = <<>>]
           word == [query[n] EXCEPT !.form = "word"]
           a == SubSeq(query, 1, n - 1)
           b == <<open, word>>
           c == SubSeq(query, n + 1, Len(query))
<1>1. Len(query) \in Nat /\ DOMAIN query = 1..Len(query) /\ n \in 1..Len(query)
  OBVIOUS
<1>2. query[n] \in Tokens /\ open \in Tokens /\ word \in Tokens
  <2>1. query[n] \in Tokens
    OBVIOUS
  <2>2. <<>> \in Texts
    BY DEF Texts
  <2> QED
    BY <2>1, <2>2 DEF Tokens, Forms
<1>3. a \in Seq(Tokens) /\ Len(a) = n - 1 /\ \A k \in 1..n - 1 : a[k] = query[k]
  BY <1>1
<1>4. b \in Seq(Tokens) /\ Len(b) = 2 /\ b[1] = open /\ b[2] = word
  BY <1>2
<1>5. /\ c \in Seq(Tokens) /\ Len(c) = Len(query) - n
      /\ \A k \in 1..Len(query) - n : c[k] = query[k + n]
  BY <1>1
<1> HIDE DEF a, b, c, open, word
<1>6. /\ a \o b \in Seq(Tokens) /\ Len(a \o b) = n + 1
      /\ \A k \in 1..n + 1 : (a \o b)[k] = IF k < n THEN a[k] ELSE b[k - n + 1]
  <2>1. Len(a) + Len(b) = n + 1
    BY <1>1, <1>3, <1>4
  <2>2. /\ a \o b \in Seq(Tokens) /\ Len(a \o b) = n + 1
        /\ \A k \in 1..n + 1 : (a \o b)[k] = IF k <= Len(a) THEN a[k] ELSE b[k - Len(a)]
    <3>1. /\ a \o b \in Seq(Tokens) /\ Len(a \o b) = Len(a) + Len(b)
          /\ \A k \in 1..Len(a) + Len(b) :
               (a \o b)[k] = IF k <= Len(a) THEN a[k] ELSE b[k - Len(a)]
      BY <1>3, <1>4, ConcatFacts, Zenon
    <3> QED
      BY <2>1, <3>1, Zenon
  <2>3. \A k \in 1..n + 1 : (k <= n - 1 <=> k < n) /\ k - (n - 1) = k - n + 1
    BY <1>1
  <2> QED
    BY <1>3, <2>2, <2>3
<1>7. /\ Len((a \o b) \o c) = Len(query) + 1
      /\ \A k \in 1..Len(query) + 1 :
           ((a \o b) \o c)[k] = IF k <= n + 1 THEN (a \o b)[k] ELSE c[k - (n + 1)]
  <2>1. Len(a \o b) + Len(c) = Len(query) + 1
    BY <1>1, <1>5, <1>6
  <2>2. /\ Len((a \o b) \o c) = Len(a \o b) + Len(c)
        /\ \A k \in 1..Len(a \o b) + Len(c) :
             ((a \o b) \o c)[k] = IF k <= Len(a \o b) THEN (a \o b)[k] ELSE c[k - Len(a \o b)]
    <3> DEFINE ab == a \o b
    <3>1. ab \in Seq(Tokens) /\ c \in Seq(Tokens)
      BY <1>5, <1>6
    <3> HIDE DEF ab
    <3>2. /\ Len(ab \o c) = Len(ab) + Len(c)
          /\ \A k \in 1..Len(ab) + Len(c) :
               (ab \o c)[k] = IF k <= Len(ab) THEN ab[k] ELSE c[k - Len(ab)]
      BY <3>1, ConcatFacts, Zenon
    <3> QED
      BY <3>2 DEF ab
  <2> QED
    BY <1>6, <2>1, <2>2, Zenon
<1>8. Spaced(query, n) = (a \o b) \o c
  BY DEF Spaced, a, b, c, open, word
<1>9. ASSUME NEW k \in 1..Len(query) + 1
      PROVE  Spaced(query, n)[k] = IF k < n THEN query[k] ELSE IF k = n THEN open
                                   ELSE IF k = n + 1 THEN word ELSE query[k - 1]
  <2>1. CASE k < n
    <3>1. k \in 1..n - 1 /\ k \in 1..n + 1 /\ k <= n + 1
      BY <1>1, <2>1
    <3> QED
      BY <1>3, <1>6, <1>7, <1>8, <2>1, <3>1
  <2>2. CASE k = n
    <3>1. k \in 1..n + 1 /\ k <= n + 1 /\ ~(k < n) /\ k - n + 1 = 1
      BY <1>1, <2>2
    <3> QED
      BY <1>4, <1>6, <1>7, <1>8, <2>2, <3>1
  <2>3. CASE k = n + 1
    <3>1. k \in 1..n + 1 /\ k <= n + 1 /\ ~(k < n) /\ k # n /\ k - n + 1 = 2
      BY <1>1, <2>3
    <3> QED
      BY <1>4, <1>6, <1>7, <1>8, <2>3, <3>1
  <2>4. CASE k > n + 1
    <3>1. /\ ~(k <= n + 1) /\ ~(k < n) /\ k # n /\ k # n + 1
          /\ k - (n + 1) \in 1..Len(query) - n /\ k - (n + 1) + n = k - 1
      BY <1>1, <2>4
    <3>2. Spaced(query, n)[k] = c[k - (n + 1)]
      BY <1>7, <1>8, <3>1
    <3>3. c[k - (n + 1)] = query[k - (n + 1) + n]
      BY <1>5, <3>1
    <3> QED
      BY <3>1, <3>2, <3>3
  <2> QED
    BY <1>1, <2>1, <2>2, <2>3, <2>4
<1> QED
  BY <1>7, <1>8, <1>9 DEF open, word

LEMMA SpacedAsks ==
  ASSUME NEW query \in Seq(Tokens), NEW n \in DOMAIN query, query[n].form = "field"
  PROVE  /\ TermOf(Spaced(query, n), n + 1) = Dropped
         /\ \A k \in DOMAIN query :
              TermOf(query, k) = TermOf(Spaced(query, n), IF k <= n THEN k ELSE k + 1)
<1> DEFINE spaced == Spaced(query, n)
<1>1. Len(query) \in Nat /\ DOMAIN query = 1..Len(query) /\ n \in 1..Len(query)
  OBVIOUS
<1>2. query[n] \in [form : Forms, name : Names, text : Texts]
  <2>1. query[n] \in Tokens
    OBVIOUS
  <2> QED
    BY <2>1 DEF Tokens
<1>3. /\ Len(spaced) = Len(query) + 1
      /\ \A k \in 1..Len(query) + 1 : k < n => spaced[k] = query[k]
      /\ spaced[n].form = "open" /\ spaced[n].name = query[n].name
      /\ spaced[n + 1].form = "word" /\ spaced[n + 1].text = query[n].text
      /\ \A k \in 1..Len(query) + 1 : k > n + 1 => spaced[k] = query[k - 1]
  <2> HIDE DEF spaced
  <2>1. /\ Len(spaced) = Len(query) + 1
        /\ \A k \in 1..Len(query) + 1 :
             spaced[k] = IF k < n THEN query[k]
                         ELSE IF k = n THEN [query[n] EXCEPT !.form = "open", !.text = <<>>]
                         ELSE IF k = n + 1 THEN [query[n] EXCEPT !.form = "word"]
                         ELSE query[k - 1]
    BY SpacedIs, Zenon DEF spaced
  <2>2. n \in 1..Len(query) + 1 /\ ~(n < n) /\ n + 1 \in 1..Len(query) + 1 /\ ~(n + 1 < n) /\ n + 1 # n
    BY <1>1
  <2>3. /\ spaced[n] = [query[n] EXCEPT !.form = "open", !.text = <<>>]
        /\ spaced[n + 1] = [query[n] EXCEPT !.form = "word"]
    BY <2>1, <2>2
  <2>4. \A k \in 1..Len(query) + 1 : k > n + 1 => spaced[k] = query[k - 1]
    BY <1>1, <2>1
  <2> QED
    BY <1>2, <2>1, <2>3, <2>4
<1> HIDE DEF spaced
\* What is joined in the query is joined in the other, one place later after n.
<1>4. Joined(spaced, n) /\ ~Joined(spaced, n + 1) /\ ~Joined(query, n)
  BY <1>1, <1>3 DEF Joined, HasColon
<1>5. \A k \in 1..Len(query) : k < n => (Joined(spaced, k) <=> Joined(query, k))
  <2> SUFFICES ASSUME NEW k \in 1..Len(query), k < n
               PROVE  Joined(spaced, k) <=> Joined(query, k)
    OBVIOUS
  <2>1. k < Len(query) /\ k < Len(spaced) /\ spaced[k] = query[k]
    BY <1>1, <1>3
  <2>2. CASE k + 1 = n
    BY <1>3, <2>1, <2>2 DEF Joined, HasColon
  <2>3. CASE k + 1 # n
    <3>1. spaced[k + 1] = query[k + 1]
      BY <1>1, <1>3, <2>3
    <3> QED
      BY <2>1, <3>1 DEF Joined
  <2> QED
    BY <2>2, <2>3
<1>6. \A k \in 1..Len(query) : k > n =>
        /\ spaced[k + 1] = query[k]
        /\ Joined(spaced, k + 1) <=> Joined(query, k)
        /\ Joined(query, k) => spaced[k + 2] = query[k + 1]
  <2> SUFFICES ASSUME NEW k \in 1..Len(query), k > n
               PROVE  /\ spaced[k + 1] = query[k]
                      /\ Joined(spaced, k + 1) <=> Joined(query, k)
                      /\ Joined(query, k) => spaced[k + 2] = query[k + 1]
    OBVIOUS
  <2>1. k + 1 \in 1..Len(query) + 1 /\ k + 1 > n + 1 /\ k + 1 - 1 = k
    BY <1>1
  <2>2. spaced[k + 1] = query[k] /\ (k + 1 < Len(spaced) <=> k < Len(query))
    BY <1>1, <1>3, <2>1
  <2>3. CASE k < Len(query)
    <3>1. k + 2 \in 1..Len(query) + 1 /\ k + 2 > n + 1 /\ k + 2 - 1 = k + 1 /\ k + 1 + 1 = k + 2
      BY <1>1, <2>3
    <3>2. spaced[k + 2] = query[k + 1]
      BY <1>3, <3>1
    <3> QED
      BY <2>2, <3>1, <3>2 DEF Joined
  <2>4. CASE ~(k < Len(query))
    BY <2>2, <2>4 DEF Joined
  <2> QED
    BY <2>3, <2>4
<1>7. TermOf(spaced, n + 1) = Dropped
  BY <1>1, <1>4 DEF TermOf, Consumed
<1>8. ASSUME NEW k \in DOMAIN query
      PROVE  TermOf(query, k) = TermOf(spaced, IF k <= n THEN k ELSE k + 1)
  <2>1. CASE k < n
    <3>1. spaced[k] = query[k] /\ (Joined(spaced, k) <=> Joined(query, k))
      BY <1>1, <1>3, <1>5, <2>1
    <3>2. Consumed(spaced, k) <=> Consumed(query, k)
      BY <1>1, <1>5, <2>1 DEF Consumed
    <3>3. Joined(query, k) => spaced[k + 1] = query[k + 1]
      <4> SUFFICES ASSUME Joined(query, k) PROVE spaced[k + 1] = query[k + 1]
        OBVIOUS
      <4>1. k + 1 # n
        BY DEF Joined, HasColon
      <4> QED
        BY <1>1, <1>3, <2>1, <4>1
    <3> QED
      BY <1>1, <2>1, <3>1, <3>2, <3>3 DEF TermOf
  <2>2. CASE k = n
    <3>1. ~Consumed(query, n) /\ ~Consumed(spaced, n)
      <4>1. CASE n = 1
        BY <4>1 DEF Consumed
      <4>2. CASE n > 1
        <5>1. n - 1 + 1 = n /\ n - 1 \in 1..Len(query) /\ n - 1 < n
          BY <1>1, <4>2
        <5>2. ~Joined(query, n - 1)
          BY <5>1 DEF Joined, HasColon
        <5> QED
          BY <1>5, <5>1, <5>2 DEF Consumed
      <4> QED
        BY <1>1, <4>1, <4>2
    <3>2. TermOf(query, n) = Field(query[n].name, query[n].text)
      BY <1>4, <3>1 DEF TermOf
    <3>3. TermOf(spaced, n) = Field(query[n].name, query[n].text)
      BY <1>3, <1>4, <3>1 DEF TermOf
    <3> QED
      BY <1>1, <2>2, <3>2, <3>3
  <2>3. CASE k > n
    <3>1. /\ spaced[k + 1] = query[k] /\ (Joined(spaced, k + 1) <=> Joined(query, k))
          /\ Joined(query, k) => spaced[k + 2] = query[k + 1]
      BY <1>1, <1>6, <2>3
    <3>2. Consumed(spaced, k + 1) <=> Consumed(query, k)
      <4>1. k > 1 /\ k + 1 > 1 /\ k + 1 - 1 = k
        BY <1>1, <2>3
      <4>2. Joined(spaced, k) <=> Joined(query, k - 1)
        <5>1. CASE k = n + 1
          <6>1. k - 1 = n
            BY <1>1, <5>1
          <6> QED
            BY <1>4, <5>1, <6>1
        <5>2. CASE k # n + 1
          <6>1. k - 1 \in 1..Len(query) /\ k - 1 > n /\ k - 1 + 1 = k
            BY <1>1, <2>3, <5>2
          <6> QED
            BY <1>6, <6>1
        <5> QED
          BY <5>1, <5>2
      <4> QED
        BY <4>1, <4>2 DEF Consumed
    <3>3. ~(k <= n) /\ k + 1 + 1 = k + 2
      BY <1>1, <2>3
    <3> QED
      BY <3>1, <3>2, <3>3 DEF TermOf
  <2> QED
    BY <1>1, <2>1, <2>2, <2>3
<1> QED
  BY <1>7, <1>8 DEF spaced

\* A card is visible exactly when each term of the query is met by a word of its field,
\* in part or up to one edit, and both sidebar filters agree; a query with a space after
\* the colon of a field asks for the same (search_filter.rs, install_flow_filter_and_sort).
THEOREM SearchIsExact == SearchSpec => []SearchTrue
<1>1. Asking => SearchTrue
  <2> SUFFICES ASSUME Asking PROVE ShownIsAsked /\ SpacedAlike
    BY DEF SearchTrue
  <2>1. Query \in Seq(Tokens)
    BY QueryTypes DEF Asking, SearchInv
  <2>2. SpacedAlike
    BY <2>1, SpacedAsks DEF SpacedAlike
  <2> QED
    BY <2>2 DEF Asking, AskedInv
<1> QED
  BY <1>1, AskedHolds, PTL

-----------------------------------------------------------------------------
(* PasswordGenerator.                                                      *)

-----------------------------------------------------------------------------
(* Words and indexes. *)

LEMMA DivMod ==
  ASSUME NEW w \in Nat, NEW b \in Nat, b > 0
  PROVE  w % b \in Nat /\ w % b < b /\ (w \div b) \in Nat /\ w = b * (w \div b) + (w % b)
OBVIOUS
LEMMA OneRemainder ==
  ASSUME NEW q \in Nat, NEW b \in Nat, b > 0, NEW r \in Nat, r < b
  PROVE  (b * q + r) % b = r
<1>1. PICK w \in Nat, p \in Nat, s \in Nat : w = b * q + r /\ s = w % b /\ p = w \div b
  BY DivMod
<1>2. s < b /\ b * p + s = b * q + r
  BY <1>1, DivMod
<1>3. b * p \in Nat /\ b * q \in Nat
  OBVIOUS
<1>4. ~(p < q)
  <2> SUFFICES ASSUME p < q PROVE FALSE
    OBVIOUS
  <2>1. PICK d \in Nat : q = p + 1 + d
    BY q = p + 1 + (q - p - 1)
  <2>2. b * q = b * p + b + b * d /\ b * d >= 0
    BY <2>1
  <2> QED
    BY <1>2, <1>3, <2>2
<1>5. ~(q < p)
  <2> SUFFICES ASSUME q < p PROVE FALSE
    OBVIOUS
  <2>1. PICK d \in Nat : p = q + 1 + d
    BY p = q + 1 + (p - q - 1)
  <2>2. b * p = b * q + b + b * d /\ b * d >= 0
    BY <2>1
  <2> QED
    BY <1>2, <1>3, <2>2
<1>6. p = q
  BY <1>4, <1>5
<1> QED
  BY <1>1, <1>2, <1>3, <1>6

Words_(b, n) == {word \in 0..MaxWord : Gives(word, b, n)}

\* The words below the zone come in whole rounds of the choices: a word that gives
\* one index has a word beside it, in its round, that gives the other.
LEMMA NextToIt ==
  ASSUME NEW b \in Nat, b > 0, NEW m \in 0..b-1, NEW n \in 0..b-1, NEW w \in Words_(b, m)
  PROVE  (w - m) + n \in Words_(b, n)
<1>1. w \in Nat /\ w < Zone(b) /\ w % b = m /\ MaxWord \in Nat /\ m \in Nat /\ n \in Nat /\ n < b
  BY WordAssumption DEF Words_, Gives
<1>2. PICK q \in Nat, p \in Nat, s \in Nat :
        q = MaxWord \div b /\ p = w \div b /\ s = MaxWord % b
  BY <1>1, DivMod
<1>3. MaxWord = b * q + s /\ w = b * p + m
  BY <1>1, <1>2, DivMod
<1>4. b * p \in Nat /\ b * q \in Nat
  OBVIOUS
<1>5. Zone(b) = b * q
  <2>1. Zone(b) = MaxWord - s
    BY <1>2 DEF Zone
  <2> QED
    BY <1>1, <1>3, <1>4, <2>1
<1>6. p < q
  <2> SUFFICES ASSUME q <= p PROVE FALSE
    OBVIOUS
  <2>1. PICK d \in Nat : p = q + d
    BY p = q + (p - q)
  <2>2. b * p = b * q + b * d /\ b * d >= 0
    BY <2>1
  <2>3. b * p + m < b * q
    BY <1>1, <1>3, <1>5
  <2> QED
    BY <1>1, <1>4, <2>2, <2>3
<1>7. b * p + b <= b * q
  <2>1. PICK d \in Nat : q = p + 1 + d
    BY <1>6, q = p + 1 + (q - p - 1)
  <2>2. b * q = b * p + b + b * d /\ b * d >= 0
    BY <2>1
  <2> QED
    BY <1>4, <2>2
<1>8. PICK v \in Nat : v = b * p + n
  BY <1>1, <1>4
<1>9. (w - m) + n = v
  BY <1>1, <1>3, <1>4, <1>8
<1>10. v % b = n
  BY <1>1, <1>8, OneRemainder
<1>11. v < b * q /\ v <= MaxWord
  BY <1>1, <1>3, <1>4, <1>7, <1>8
<1> QED
  BY <1>5, <1>9, <1>10, <1>11 DEF Words_, Gives

LEMMA EvenWords ==
  ASSUME NEW b \in Nat, b > 0, b <= MaxWord, NEW m \in 0..b-1, NEW n \in 0..b-1
  PROVE  /\ Cardinality(Words_(b, m)) = Cardinality(Words_(b, n))
         /\ \E word \in 0..MaxWord : Gives(word, b, n)
<1>1. \A x \in 0..b-1 : Words_(b, x) \subseteq 0..MaxWord /\ IsFiniteSet(Words_(b, x))
  <2>1. IsFiniteSet(0..MaxWord)
    BY WordAssumption, FS_Interval
  <2>2. \A x : Words_(b, x) \subseteq 0..MaxWord
    BY DEF Words_
  <2> QED
    BY <2>1, <2>2, FS_Subset
<1>2. PICK S, T : S = Words_(b, m) /\ T = Words_(b, n)
  OBVIOUS
<1>3. /\ \A w \in S : w \in Int /\ (w - m) + n \in T
      /\ \A w \in T : w \in Int /\ (w - n) + m \in S
  <2>1. \A w \in S : (w - m) + n \in T
    BY <1>2, NextToIt
  <2>2. \A w \in T : (w - n) + m \in S
    BY <1>2, NextToIt
  <2>3. S \subseteq 0..MaxWord /\ T \subseteq 0..MaxWord
    BY <1>1, <1>2
  <2> QED
    BY <2>1, <2>2, <2>3
<1>4. PICK f : f = [w \in S |-> (w - m) + n]
  OBVIOUS
<1>5. f \in Bijection(S, T)
  <2>1. f \in [S -> T]
    BY <1>3, <1>4
  <2>2. \A u, w \in S : f[u] = f[w] => u = w
    BY <1>3, <1>4
  <2>3. \A v \in T : \E w \in S : f[w] = v
    <3> SUFFICES ASSUME NEW v \in T PROVE \E w \in S : f[w] = v
      OBVIOUS
    <3>1. (v - n) + m \in S /\ v \in Int
      BY <1>3
    <3>2. f[(v - n) + m] = v
      BY <1>4, <3>1
    <3> QED
      BY <3>1, <3>2
  <2> QED
    BY <2>1, <2>2, <2>3 DEF Bijection, Injection, Surjection, IsInjective
<1>6. Cardinality(S) = Cardinality(T)
  BY <1>1, <1>2, <1>5, FS_Bijection DEF ExistsBijection
<1>7. 0 \in Words_(b, 0)
  <2>1. 0 % b = 0
    <3>1. b * 0 + 0 = 0
      OBVIOUS
    <3> QED
      BY <3>1, OneRemainder
  <2>2. 0 < Zone(b)
    <3>1. MaxWord % b < b /\ MaxWord % b \in Nat /\ MaxWord \in Nat
      BY WordAssumption, DivMod
    <3> QED
      BY <3>1 DEF Zone
  <2> QED
    BY <2>1, <2>2, WordAssumption DEF Words_, Gives
<1>8. 0 - 0 + n \in Words_(b, n)
  BY <1>7, NextToIt
<1> QED
  BY <1>2, <1>6, <1>8 DEF Words_

-----------------------------------------------------------------------------
(* The charsets. *)

Kept_ == {c \in Characters : Class[c] # "space"}
Four == {"lower", "upper", "digit", "symbol"}

LEMMA CharsetIs ==
  ASSUME NEW c \in Four
  PROVE  /\ Charset[c] \in Seq(Kept_) /\ Len(Charset[c]) \in Nat \ {0}
         /\ \A n \in 1..Len(Charset[c]) : Class[Charset[c][n]] = c
<1>1. /\ Charset[c] \in Seq(Characters) /\ Charset[c] # <<>>
      /\ \A n \in DOMAIN Charset[c] : Class[Charset[c][n]] = c
  BY CharsetsAssumption DEF Four
<1>2. PICK s \in Seq(Characters) : s = Charset[c]
  BY <1>1
<1>3. s # <<>> /\ \A n \in 1..Len(s) : Class[s[n]] = c
  BY <1>1, <1>2, LenProperties
<1>4. Len(s) \in Nat \ {0}
  BY <1>3, EmptySeq
<1>5. \A n \in 1..Len(s) : s[n] \in Kept_
  <2> SUFFICES ASSUME NEW n \in 1..Len(s) PROVE s[n] \in Kept_
    OBVIOUS
  <2>1. s[n] \in Characters /\ Class[s[n]] = c
    BY <1>3, ElementOfSeq
  <2>2. c # "space"
    BY DEF Four
  <2> QED
    BY <2>1, <2>2 DEF Kept_
<1>6. s \in Seq(Kept_)
  BY <1>5
<1> QED
  BY <1>2, <1>3, <1>4, <1>6

LEMMA CombinedIs ==
  /\ Combined \in Seq(Kept_)
  /\ \A c \in Four : Len(Charset[c]) <= Len(Combined)
  /\ Len(Combined) \in Nat \ {0} /\ Len(Combined) <= MaxWord
<1>1. PICK l, u, d, s : /\ l = Charset["lower"] /\ u = Charset["upper"]
                        /\ d = Charset["digit"] /\ s = Charset["symbol"]
  OBVIOUS
<1>2. /\ l \in Seq(Kept_) /\ u \in Seq(Kept_) /\ d \in Seq(Kept_) /\ s \in Seq(Kept_)
      /\ Len(l) \in Nat \ {0} /\ Len(u) \in Nat /\ Len(d) \in Nat /\ Len(s) \in Nat
  BY <1>1, CharsetIs DEF Four
<1>3. Combined = ((l \o u) \o d) \o s
  BY <1>1 DEF Combined
<1>4. l \o u \in Seq(Kept_) /\ Len(l \o u) = Len(l) + Len(u)
  BY <1>2, ConcatProperties
<1>5. (l \o u) \o d \in Seq(Kept_) /\ Len((l \o u) \o d) = Len(l) + Len(u) + Len(d)
  BY <1>2, <1>4, ConcatProperties
<1>6. Combined \in Seq(Kept_) /\ Len(Combined) = Len(l) + Len(u) + Len(d) + Len(s)
  BY <1>2, <1>3, <1>5, ConcatProperties
<1>7. /\ Len(l) <= Len(Combined) /\ Len(u) <= Len(Combined)
      /\ Len(d) <= Len(Combined) /\ Len(s) <= Len(Combined) /\ Len(Combined) \in Nat \ {0}
  BY <1>2, <1>6
<1> QED
  BY <1>1, <1>6, <1>7, WordsAreMany DEF Four

-----------------------------------------------------------------------------
(* The password. *)

GeneratorInv ==
  /\ wanted \in Nat /\ made \in Seq(Kept_)
  /\ turn \in {"ask", "fill", "shuffle", "given", "refused", "failed"}
  /\ turn = "ask" => made = <<>>
  /\ turn \in {"fill", "shuffle"} => validate_length(wanted)
  /\ turn = "fill" =>
       /\ Len(made) <= wanted
       /\ \A n \in 1..4 : n <= Len(made) => Class[made[n]] = Classes4[n]
  /\ turn = "shuffle" =>
       /\ Len(made) = wanted /\ cursor \in 1..wanted
       /\ \A n \in 1..4 : HasClass(Classes4[n], made)
  /\ turn = "refused" => ~validate_length(wanted)

LEMMA ClassesAre == \A n \in 1..4 : Classes4[n] \in Four
<1> SUFFICES ASSUME NEW n \in 1..4 PROVE Classes4[n] \in Four
  OBVIOUS
<1>1. n = 1 \/ n = 2 \/ n = 3 \/ n = 4
  OBVIOUS
<1> QED
  BY <1>1 DEF Classes4, Four

\* What the next word is drawn for.
LEMMA NextIs ==
  ASSUME made \in Seq(Kept_)
  PROVE  /\ NextCharset \in Seq(Kept_) /\ Len(NextCharset) \in Nat \ {0}
         /\ Len(NextCharset) <= MaxWord
         /\ Len(made) < 4 => \A k \in 1..Len(NextCharset) :
                               Class[NextCharset[k]] = Classes4[Len(made) + 1]
<1>1. PICK p \in Nat : p = Len(made)
  BY LenProperties
<1>2. CASE p < 4
  <2>1. PICK c \in Four : c = Classes4[p + 1]
    BY <1>2, ClassesAre
  <2>2. NextCharset = Charset[c]
    BY <1>1, <1>2, <2>1 DEF NextCharset
  <2>3. Len(Charset[c]) <= MaxWord
    <3>1. Len(Charset[c]) \in Nat /\ Len(Charset[c]) <= Len(Combined) /\ Len(Combined) \in Nat
          /\ Len(Combined) <= MaxWord /\ MaxWord \in Nat
      BY CharsetIs, CombinedIs, WordAssumption
    <3> QED
      BY <3>1
  <2> QED
    BY <1>1, <2>1, <2>2, <2>3, CharsetIs
<1>3. CASE ~(p < 4)
  BY <1>1, <1>3, CombinedIs DEF NextCharset
<1> QED
  BY <1>2, <1>3

LEMMA IndexIs ==
  ASSUME NEW b \in Nat, b > 0, NEW word \in 0..MaxWord
  PROVE  1 + (word % b) \in 1..b
<1>1. word \in Nat
  BY WordAssumption
<1>2. word % b \in Nat /\ word % b < b
  BY <1>1, DivMod
<1> QED
  BY <1>2

LEMMA SampleKeeps ==
  ASSUME GeneratorInv, NEW word \in 0..MaxWord, sample_from_charset(word)
  PROVE  GeneratorInv'
<1>1. /\ turn = "fill" /\ Len(made) < wanted /\ wanted' = wanted /\ turn' = turn
      /\ made' = Append(made, NextCharset[1 + (word % Bound)])
  BY DEF sample_from_charset
<1>2. made \in Seq(Kept_) /\ wanted \in Nat /\ validate_length(wanted)
  BY <1>1 DEF GeneratorInv
<1>3. PICK b \in Nat \ {0} : b = Bound /\ b = Len(NextCharset)
  BY <1>1, <1>2, NextIs DEF Bound
<1>4. PICK k \in 1..b : k = 1 + (word % Bound)
  BY <1>3, IndexIs
<1>5. PICK c \in Kept_ : c = NextCharset[k]
  BY <1>2, <1>3, NextIs, ElementOfSeq
<1>6. Len(made) < 4 => Class[c] = Classes4[Len(made) + 1]
  BY <1>2, <1>3, <1>5, NextIs
<1>7. PICK p \in Nat : p = Len(made) /\ p < wanted
  BY <1>1, <1>2, LenProperties
<1>8. PICK s \in Seq(Kept_) : s = made'
  BY <1>1, <1>2, <1>4, <1>5, AppendProperties
<1>9. Len(s) = p + 1 /\ s[p + 1] = c /\ \A n \in 1..p : s[n] = made[n]
  BY <1>1, <1>2, <1>4, <1>5, <1>7, <1>8, AppendProperties
<1>10. \A n \in 1..4 : n <= p => Class[made[n]] = Classes4[n]
  BY <1>1, <1>7 DEF GeneratorInv
<1>11. \A n \in 1..4 : n <= p + 1 => Class[s[n]] = Classes4[n]
  <2> SUFFICES ASSUME NEW n \in 1..4, n <= p + 1 PROVE Class[s[n]] = Classes4[n]
    OBVIOUS
  <2>1. CASE n <= p
    <3>1. n \in 1..p
      BY <2>1
    <3> QED
      BY <1>9, <1>10, <2>1, <3>1
  <2>2. CASE n = p + 1
    <3>1. p < 4
      BY <2>2
    <3> QED
      BY <1>6, <1>7, <1>9, <2>2, <3>1
  <2> QED
    BY <2>1, <2>2
<1>12. p + 1 <= wanted
  BY <1>2, <1>7
<1> QED
  BY <1>1, <1>2, <1>8, <1>9, <1>11, <1>12 DEF GeneratorInv

LEMMA ShuffleKeeps ==
  ASSUME GeneratorInv, NEW word \in 0..MaxWord, Shuffle(word)
  PROVE  GeneratorInv'
<1>1. /\ turn = "shuffle" /\ cursor > 1 /\ wanted' = wanted /\ turn' = turn
      /\ made' = Swapped(made, cursor, 1 + (word % Bound)) /\ cursor' = cursor - 1
  BY DEF Shuffle
<1>2. /\ made \in Seq(Kept_) /\ wanted \in Nat /\ validate_length(wanted)
      /\ Len(made) = wanted /\ cursor \in 1..wanted
      /\ \A n \in 1..4 : HasClass(Classes4[n], made)
  BY <1>1 DEF GeneratorInv
<1>3. PICK b \in Nat : b = cursor /\ b = Bound /\ b > 1 /\ b <= wanted
  BY <1>1, <1>2 DEF Bound
<1>4. PICK a \in 1..b : a = 1 + (word % Bound)
  BY <1>3, IndexIs
<1>5. a \in 1..wanted /\ b \in 1..wanted
  BY <1>2, <1>3
<1>6. PICK s : s = [made EXCEPT ![b] = made[a], ![a] = made[b]]
  OBVIOUS
<1>7. made' = s
  BY <1>1, <1>3, <1>4, <1>6 DEF Swapped
<1>8. made \in [1..wanted -> Kept_]
  BY <1>2
<1>9. s \in [1..wanted -> Kept_]
  BY <1>5, <1>6, <1>8
<1>10. s \in Seq(Kept_) /\ Len(s) = wanted
  BY <1>2, <1>9
<1>11. s[a] = made[b] /\ s[b] = made[a] /\ \A n \in 1..wanted \ {a, b} : s[n] = made[n]
  BY <1>5, <1>6, <1>8
<1>12. \A class : HasClass(class, made) => HasClass(class, s)
  <2> SUFFICES ASSUME NEW class, NEW n \in 1..wanted, Class[made[n]] = class
               PROVE  \E k \in 1..wanted : Class[s[k]] = class
    BY <1>8, <1>9 DEF HasClass
  <2>1. CASE n = a
    BY <1>5, <1>11, <2>1
  <2>2. CASE n = b
    BY <1>5, <1>11, <2>2
  <2>3. CASE n # a /\ n # b
    BY <1>11, <2>3
  <2> QED
    BY <2>1, <2>2, <2>3
<1>13. cursor' \in 1..wanted
  BY <1>1, <1>2
<1>14. \A n \in 1..4 : HasClass(Classes4[n], made')
  BY <1>2, <1>7, <1>12
<1> QED
  BY <1>1, <1>2, <1>7, <1>10, <1>13, <1>14 DEF GeneratorInv

LEMMA FilledIs ==
  ASSUME GeneratorInv, BeginShuffle
  PROVE  GeneratorInv'
<1>1. /\ turn = "fill" /\ Len(made) >= wanted /\ turn' = "shuffle" /\ cursor' = Len(made)
      /\ wanted' = wanted /\ made' = made
  BY DEF BeginShuffle
<1>2. /\ made \in Seq(Kept_) /\ wanted \in Nat /\ validate_length(wanted) /\ Len(made) <= wanted
      /\ \A n \in 1..4 : n <= Len(made) => Class[made[n]] = Classes4[n]
  BY <1>1 DEF GeneratorInv
<1>3. Len(made) = wanted /\ wanted >= 4 /\ DOMAIN made = 1..wanted
  BY <1>1, <1>2, LenProperties, LengthsAssumption DEF validate_length
<1>4. \A n \in 1..4 : HasClass(Classes4[n], made)
  BY <1>2, <1>3 DEF HasClass
<1> QED
  BY <1>1, <1>2, <1>3, <1>4 DEF GeneratorInv, HasClass

LEMMA CheckKeeps ==
  ASSUME GeneratorInv, Check
  PROVE  GeneratorInv'
<1>1. /\ turn = "shuffle" /\ wanted' = wanted /\ made' = made
      /\ turn' = IF validate_password_policy(made) THEN "given" ELSE "refused"
  BY DEF Check
<1>2. /\ made \in Seq(Kept_) /\ wanted \in Nat /\ validate_length(wanted) /\ Len(made) = wanted
      /\ \A n \in 1..4 : HasClass(Classes4[n], made)
  BY <1>1 DEF GeneratorInv
<1>3. ~HasClass("space", made)
  <2>1. \A n \in 1..Len(made) : made[n] \in Kept_
    BY <1>2, ElementOfSeq
  <2> QED
    BY <1>2, <2>1, LenProperties DEF HasClass, Kept_
<1>4. validate_password_policy(made)
  BY <1>2, <1>3 DEF validate_password_policy
<1> QED
  BY <1>1, <1>2, <1>4 DEF GeneratorInv

LEMMA GeneratorStep ==
  ASSUME GeneratorInv, [GeneratorNext]_generatorVars
  PROVE  GeneratorInv'
<1>1. CASE Ask
  <2>1. /\ made = <<>> /\ made' = made /\ wanted \in Nat
        /\ wanted' \in Nat /\ turn' = IF validate_length(wanted') THEN "fill" ELSE "refused"
    BY <1>1, LengthsAssumption DEF Ask, GeneratorInv
  <2>2. Len(made) = 0 /\ made \in Seq(Kept_)
    BY <2>1, EmptySeq
  <2> QED
    BY <2>1, <2>2 DEF GeneratorInv, validate_length
<1>2. CASE \E word \in 0..MaxWord : sample_from_charset(word) \/ Shuffle(word)
  BY <1>2, SampleKeeps, ShuffleKeeps
<1>3. CASE BeginShuffle
  BY <1>3, FilledIs
<1>4. CASE Check
  BY <1>4, CheckKeeps
<1>5. CASE NoRandom
  BY <1>5 DEF NoRandom, GeneratorInv
<1>6. CASE UNCHANGED generatorVars
  BY <1>6 DEF generatorVars, GeneratorInv, HasClass, validate_length
<1> QED
  BY <1>1, <1>2, <1>3, <1>4, <1>5, <1>6 DEF GeneratorNext

LEMMA GeneratorStarts == GeneratorInit => GeneratorInv
<1>1. <<>> \in Seq(Kept_)
  BY EmptySeq
<1> QED
  BY <1>1, LengthsAssumption DEF GeneratorInit, GeneratorInv

LEMMA GeneratorEarns == GeneratorInv => PasswordsEarned
<1> SUFFICES ASSUME GeneratorInv PROVE PasswordsEarned
  OBVIOUS
<1>1. GeneratedPasses
  BY DEF GeneratorInv, GeneratedPasses
<1>2. ASSUME turn \in {"fill", "shuffle"} PROVE Bound \in Nat /\ Bound > 0 /\ Bound <= MaxWord
  <2>1. made \in Seq(Kept_) /\ wanted \in Nat /\ validate_length(wanted)
    BY <1>2 DEF GeneratorInv
  <2>2. CASE turn = "fill"
    BY <2>1, <2>2, NextIs DEF Bound
  <2>3. CASE turn = "shuffle"
    <3>1. cursor \in 1..wanted /\ wanted <= MAX_PASSWORD_LENGTH /\ Bound = cursor
      BY <2>1, <2>3 DEF GeneratorInv, validate_length, Bound
    <3> QED
      BY <2>1, <3>1, LengthsAssumption, WordAssumption, WordsAreMany
  <2> QED
    BY <1>2, <2>2, <2>3
<1>3. EvenDraws
  <2> SUFFICES ASSUME turn \in {"fill", "shuffle"}, NEW m \in 0..Bound - 1, NEW n \in 0..Bound - 1
               PROVE  /\ Cardinality({word \in 0..MaxWord : Gives(word, Bound, m)})
                           = Cardinality({word \in 0..MaxWord : Gives(word, Bound, n)})
                      /\ \E word \in 0..MaxWord : Gives(word, Bound, n)
    BY DEF EvenDraws
  <2>1. PICK b : b = Bound
    OBVIOUS
  <2>2. Cardinality(Words_(b, m)) = Cardinality(Words_(b, n)) /\ \E word \in 0..MaxWord : Gives(word, b, n)
    BY <1>2, <2>1, EvenWords
  <2> QED
    BY <2>1, <2>2, Zenon DEF Words_
<1> QED
  BY <1>1, <1>3 DEF PasswordsEarned

THEOREM GeneratedPasswords == GeneratorSpec => []PasswordsEarned
<1>1. GeneratorInit => GeneratorInv
  BY GeneratorStarts
<1>2. GeneratorInv /\ [GeneratorNext]_generatorVars => GeneratorInv'
  BY GeneratorStep
<1>3. GeneratorInv => PasswordsEarned
  BY GeneratorEarns
<1> QED
  BY <1>1, <1>2, <1>3, PTL DEF GeneratorSpec

=============================================================================
