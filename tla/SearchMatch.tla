---------------------------- MODULE SearchMatch ----------------------------
(***************************************************************************)
(* The search over the entry list (search_filter.rs and the filter of      *)
(* window/core.rs): one entry is held against one query.  The query is a   *)
(* sequence of tokens, a text a sequence of letters after normalisation;   *)
(* a long token that is in no word may still be one edit away from one,    *)
(* which within_one_edit decides letter by letter.                         *)
(*                                                                         *)
(* Normalised tokens hold no separator here, so a token is inside a text   *)
(* exactly when it is inside one of its words.                             *)
(***************************************************************************)
EXTENDS Naturals, Sequences

CONSTANTS Letters,      \* what normalize_search_text leaves of a character
          Fields,       \* texts of an entry a query can name
          KeyText,      \* name written in a query -> its letters
          FieldOf,      \* known name -> field
          HealthTexts,  \* tags that ask for health entries
          Searches      \* the queries and entries held against each other

Texts == Seq(Letters)

\* A token: a word, "#text", "name:text", "name:" or ":text".
Forms == {"word", "tag", "field", "open", "tail"}
Names == DOMAIN KeyText
Tokens == [form : Forms, name : Names, text : Texts]

\* Phrases found in an entry: of other trades, of a known host, of health for
\* sure, of health perhaps.
Hints == {"unrelated", "host", "sure", "perhaps"}
Entries == [text : [Fields -> SUBSET Texts], marker : BOOLEAN, hints : SUBSET Hints,
            kind : STRING, weak : BOOLEAN, duplicate : BOOLEAN]

ASSUME NamesHaveText == KeyText \in [Names -> Texts]
ASSUME KnownNames == FieldOf \in [DOMAIN FieldOf -> Fields] /\ "health" \notin Fields
ASSUME SearchesAreTyped ==
    Searches \subseteq [query : Seq(Tokens), entry : Entries, category : STRING, audit : STRING]

VARIABLES
    search,   \* the query, the entry and the two sidebar filters
    phase,    \* where the evaluation stands
    t,        \* index of the token it has reached
    words,    \* words still to compare with
    left, right, i, j, edits,   \* those of within_one_edit
    near,     \* its last answer
    shown     \* the answer of the filter

comparison == <<left, right, i, j, edits>>
searchVars == <<search, phase, t, words, comparison, near, shown>>

-----------------------------------------------------------------------------
(* parse_search_terms. *)

Query == search.query
Entry == search.entry

HasColon(token) == token.form \in {"field", "open", "tail"}

\* "name: text" is read as "name:text".
Joined(query, n) ==
    /\ query[n].form = "open"
    /\ n < Len(query)
    /\ ~HasColon(query[n + 1])
Consumed(query, n) == n > 1 /\ Joined(query, n - 1)

Dropped == [field |-> "dropped", text |-> <<>>]
Anywhere(text) == IF text = <<>> THEN Dropped ELSE [field |-> "any", text |-> text]

\* An unknown name is part of the text.
Field(name, text) ==
    IF text = <<>> THEN Dropped
    ELSE IF name \in DOMAIN FieldOf THEN [field |-> FieldOf[name], text |-> text]
    ELSE Anywhere(KeyText[name] \o text)

TermOf(query, n) ==
    LET token == query[n] IN
    IF Consumed(query, n) THEN Dropped
    ELSE IF Joined(query, n) THEN Field(token.name, query[n + 1].text)
    ELSE IF token.form = "field" THEN Field(token.name, token.text)
    ELSE IF token.form = "open" THEN Anywhere(KeyText[token.name])
    ELSE IF token.form = "tag" /\ token.text \in HealthTexts
         THEN [field |-> "health", text |-> token.text]
    ELSE Anywhere(token.text)

-----------------------------------------------------------------------------
(* matches_search_term, token_matches_haystack. *)

\* Words of the text a term looks at.
Haystack(entry, field) ==
    IF field = "any" THEN UNION {entry.text[f] : f \in Fields} ELSE entry.text[field]

Inside(token, word) ==
    \E from \in 0..Len(word) : /\ from + Len(token) <= Len(word)
                               /\ \A n \in 1..Len(token) : word[from + n] = token[n]

\* A marker in the details, or what the texts say.
classify_health_access(hints) ==
    LET score == (IF "sure" \in hints THEN 4 ELSE 0) + (IF "perhaps" \in hints THEN 2 ELSE 0) IN
    "unrelated" \notin hints /\ ("host" \in hints \/ score >= 4)
is_health(entry) == entry.marker \/ classify_health_access(entry.hints)

\* Terms that are settled before any word is compared letter by letter.
Met(entry, term) ==
    \/ term.field = "dropped"
    \/ term.field = "health" /\ is_health(entry)
    \/ /\ term.field \notin {"dropped", "health"}
       /\ \E word \in Haystack(entry, term.field) : Inside(term.text, word)
Comparable(term) == term.field \notin {"dropped", "health"} /\ Len(term.text) >= 4

FarApart(a, b) == Len(a) > Len(b) + 1 \/ Len(b) > Len(a) + 1

-----------------------------------------------------------------------------

SearchInit ==
    /\ search \in Searches
    /\ phase = "term" /\ t = 1
    /\ words = {}
    /\ left = <<>> /\ right = <<>> /\ i = 1 /\ j = 1 /\ edits = 0
    /\ near = "unknown"
    /\ shown = FALSE

End(answer) ==
    /\ phase' = "done"
    /\ shown' = answer
    /\ UNCHANGED <<search, t, words, comparison, near>>

\* The two lists of the sidebar.
matches_category == search.category \in {"All", Entry.kind}
matches_audit ==
    CASE search.audit = "All" -> TRUE
      [] search.audit = "Weak" -> Entry.weak
      [] search.audit = "Duplicate" -> Entry.duplicate

Finish ==
    /\ phase = "term"
    /\ t > Len(Query)
    /\ End(matches_category /\ matches_audit)

\* A term met by a whole word part needs no comparison.
TakeTerm ==
    /\ phase = "term"
    /\ t <= Len(Query)
    /\ LET term == TermOf(Query, t) IN
       \/ /\ Met(Entry, term)
          /\ t' = t + 1
          /\ UNCHANGED <<search, phase, words, comparison, near, shown>>
       \/ ~Met(Entry, term) /\ ~Comparable(term) /\ End(FALSE)
       \/ /\ ~Met(Entry, term) /\ Comparable(term)
          /\ phase' = "word"
          /\ words' = Haystack(Entry, term.field)
          /\ left' = term.text
          /\ near' = "unknown"
          /\ UNCHANGED <<search, t, right, i, j, edits, shown>>

\* within_one_edit starts: lengths too far apart need no loop.
TakeWord ==
    /\ phase = "word"
    /\ words # {}
    /\ \E word \in words :
          /\ words' = words \ {word}
          /\ right' = word
          /\ IF FarApart(left, word)
             THEN near' = "no" /\ UNCHANGED phase
             ELSE near' = "unknown" /\ phase' = "edit"
    /\ i' = 1 /\ j' = 1 /\ edits' = 0
    /\ UNCHANGED <<search, t, left, shown>>

NoWordLeft ==
    /\ phase = "word"
    /\ words = {}
    /\ End(FALSE)

Running == phase = "edit" /\ i <= Len(left) /\ j <= Len(right)

SameLetter ==
    /\ Running
    /\ left[i] = right[j]
    /\ i' = i + 1 /\ j' = j + 1
    /\ UNCHANGED <<search, phase, t, words, left, right, edits, near, shown>>

\* The longer word skips a letter; equal ones exchange it.
FirstEdit_Both ==
    /\ Running
    /\ left[i] # right[j]
    /\ edits = 0
    /\ edits' = 1
    /\ i' = i + 1 /\ j' = j + 1
    /\ UNCHANGED <<search, phase, t, words, left, right, near, shown>>
FirstEdit ==
    /\ Running
    /\ left[i] # right[j]
    /\ edits = 0
    /\ edits' = 1
    /\ i' = IF Len(right) > Len(left) THEN i ELSE i + 1
    /\ j' = IF Len(left) > Len(right) THEN j ELSE j + 1
    /\ UNCHANGED <<search, phase, t, words, left, right, near, shown>>

SecondEdit ==
    /\ Running
    /\ left[i] # right[j]
    /\ edits = 1
    /\ near' = "no"
    /\ phase' = "word"
    /\ UNCHANGED <<search, t, words, comparison, shown>>

EndOfWord_Settles ==
    /\ phase = "edit"
    /\ ~Running
    /\ LET leftover == IF i <= Len(left) \/ j <= Len(right) THEN 1 ELSE 0 IN
       IF edits + leftover <= 1
       THEN near' = "yes" /\ phase' = "term" /\ t' = Len(Query) + 1
       ELSE near' = "no" /\ phase' = "word" /\ UNCHANGED t
    /\ UNCHANGED <<search, words, comparison, shown>>
\* A letter left over is one more edit.
EndOfWord ==
    /\ phase = "edit"
    /\ ~Running
    /\ LET leftover == IF i <= Len(left) \/ j <= Len(right) THEN 1 ELSE 0 IN
       IF edits + leftover <= 1
       THEN near' = "yes" /\ phase' = "term" /\ t' = t + 1
       ELSE near' = "no" /\ phase' = "word" /\ UNCHANGED t
    /\ UNCHANGED <<search, words, comparison, shown>>

SearchNext ==
    \/ TakeTerm \/ Finish
    \/ TakeWord \/ NoWordLeft
    \/ SameLetter \/ FirstEdit \/ SecondEdit \/ EndOfWord

SearchSpec == SearchInit /\ [][SearchNext]_searchVars

-----------------------------------------------------------------------------
(* Properties. *)

\* Shape of the evaluation: the indices stay inside the words, and a comparison
\* runs for a term of the query that may be compared.
SearchOK ==
    /\ phase \in {"term", "word", "edit", "done"}
    /\ t \in 1..Len(Query) + 1
    /\ left \in Texts /\ right \in Texts
    /\ words \subseteq Texts
    /\ i \in 1..Len(left) + 1 \/ phase # "edit"
    /\ j \in 1..Len(right) + 1 \/ phase # "edit"
    /\ edits \in 0..1
    /\ near \in {"unknown", "yes", "no"}
    /\ shown \in BOOLEAN

\* One letter exchanged, or one dropped on either side.
Without(word, k) == [n \in 1..Len(word) - 1 |-> IF n < k THEN word[n] ELSE word[n + 1]]
Exchanged(a, b) ==
    Len(a) = Len(b) /\ \E k \in 1..Len(a) + 1 : \A n \in 1..Len(a) : n # k => a[n] = b[n]
ShorterBy(a, b) == Len(a) = Len(b) + 1 /\ \E k \in 1..Len(a) : Without(a, k) = b
Near(a, b) == Exchanged(a, b) \/ ShorterBy(a, b) \/ ShorterBy(b, a)

\* The loop decides what it is named for: its answer is yes exactly when one
\* letter exchanged, inserted or dropped makes the words equal, although it
\* never goes back on the letter it skipped (within_one_edit).
EditsExact ==
    /\ near = "yes" => Near(left, right)
    /\ near = "no" => ~Near(left, right)

Satisfied(entry, term) ==
    \/ Met(entry, term)
    \/ Comparable(term) /\ \E word \in Haystack(entry, term.field) : Near(term.text, word)

\* The card is visible exactly when each term is met by a word of its field, in
\* part or up to one edit, and both sidebar filters agree: no order of the words
\* and no early end changes that (install_flow_filter_and_sort).
ShownIsAsked ==
    phase = "done" =>
        (shown <=> /\ \A n \in DOMAIN Query : Satisfied(Entry, TermOf(Query, n))
                   /\ matches_category /\ matches_audit)

\* What the comment on the joining of tokens promises: a query with a space after
\* the colon of a field asks term by term for the same as the query without it, also
\* beside other tokens that end or begin with a colon, and for nothing more
\* (parse_search_terms).
Spaced(query, n) ==
    SubSeq(query, 1, n - 1)
    \o << [query[n] EXCEPT !.form = "open", !.text = <<>>],
          [query[n] EXCEPT !.form = "word"] >>
    \o SubSeq(query, n + 1, Len(query))
SpacedAlike ==
    \A n \in DOMAIN Query : Query[n].form = "field" =>
        /\ TermOf(Spaced(Query, n), n + 1) = Dropped
        /\ \A k \in DOMAIN Query :
              TermOf(Query, k) = TermOf(Spaced(Query, n), IF k <= n THEN k ELSE k + 1)

\* A card is visible exactly when the query asks for it, spaced one way or another.
SearchTrue == ShownIsAsked /\ SpacedAlike

=============================================================================
