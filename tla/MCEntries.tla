----------------------------- MODULE MCEntries -----------------------------
(***************************************************************************)
(* Small instances for TLC of the parts around the entries: SecurityAudit  *)
(* (the centre and the list), SearchMatch, PasswordGenerator, RateLimit    *)
(* and EntryEditor.                                                        *)
(* They touch nothing of each other, so a behaviour takes the steps of one *)
(* part, with the changes of the store for the centre and the list: every  *)
(* state of each is reached, not their products.                           *)
(***************************************************************************)
EXTENDS SecurityAudit, SearchMatch, PasswordGenerator, RateLimit, EntryEditor, TLC

CONSTANTS s1, s2, s3, v1, v2, short, solid

(* Entries: a password too short for its classes, one just long enough that    *)
(* two entries may share, one that cannot be read, a token with bad details.   *)
TextValue(text) == [form |-> "text", text |-> text]
Url(scheme) == [blank |-> FALSE, parses |-> TRUE, scheme |-> scheme, host |-> "name",
                login |-> FALSE, puny |-> FALSE]
Holding(kind, value, expires, details) ==
    [kind |-> kind, value |-> value, expires |-> expires, details |-> details]
SomeContents ==
    {Holding("Password", TextValue(short), "none", [form |-> "url", url |-> Url("http")]),
     Holding("Password", TextValue(solid), "later", [form |-> "url", url |-> Url("https")]),
     Holding("Password", [form |-> "binary"], "past", [form |-> "none"]),
     Holding("ApiToken", [form |-> "sealed"], "bad", [form |-> "number"])}
SomeLengths == short :> 12 @@ solid :> 14
SomeClasses == short :> {"upper", "lower", "digit"} @@ solid :> {"upper", "lower", "digit"}
SomeEstimates == short :> 4 @@ solid :> 3

(* Searches: every pair of words of about one length, every pair of tokens, *)
(* every pair of sidebar filters.                                           *)
SomeLetters == {"a", "b"}
SomeFields == {"title", "login"}
SomeKeyText == "title" :> <<"a", "b">> @@ "other" :> <<"b", "b">>
SomeFieldOf == "title" :> "title"
SomeHealthTexts == {<<"a", "b", "a", "b">>}
Words(length) == [1..length -> SomeLetters]
Token(form, name, text) == [form |-> form, name |-> name, text |-> text]
SomeTexts == {<<>>, <<"a">>, <<"a", "b", "a", "b">>, <<"b", "a", "b">>}
SomeTokens ==
    {Token(form, "title", text) : form \in {"word", "tag", "tail"}, text \in SomeTexts}
    \cup {Token("field", name, text) : name \in {"title", "other"}, text \in SomeTexts}
    \cup {Token("open", name, <<>>) : name \in {"title", "other"}}
Entry_(title, login, kind) ==
    [text |-> [f \in SomeFields |-> IF f = "title" THEN title ELSE login],
     marker |-> FALSE, hints |-> IF kind = "SshKey" THEN {"sure"} ELSE {"host", "unrelated"},
     kind |-> kind,
     weak |-> kind = "SshKey", duplicate |-> kind # "SshKey"]
Asks(query, entry, category, audit) ==
    [query |-> query, entry |-> entry, category |-> category, audit |-> audit]
Kinds == {"Password", "SshKey"}
SomeSearches ==
    {Asks(<<Token("word", "title", x)>>, Entry_({y}, {}, "Password"), "All", "All") :
        x \in Words(4) \cup Words(5), y \in UNION {Words(n) : n \in 3..6}}
    \cup {Asks(<<a, b>>, Entry_({<<"a", "b", "a">>, <<"a", "a", "a", "b">>}, {z}, kind),
               "All", "All") :
        a \in SomeTokens, b \in SomeTokens,
        z \in {<<"a", "b">>, <<"b", "a", "b", "b">>}, kind \in Kinds}
    \cup {Asks(<<>>, Entry_({}, {}, kind), category, audit) :
        kind \in Kinds, category \in {"All"} \cup Kinds,
        audit \in {"All", "Weak", "Duplicate"}}

(* Passwords: two lower case letters and one character of each other class, so  *)
(* that a choice has one, two or five outcomes and a word of 0..7 may be drawn again. *)
SomeClass == "x" :> "lower" @@ "y" :> "lower" @@ "X" :> "upper" @@ "4" :> "digit"
                @@ "#" :> "symbol" @@ " " :> "space"
SomeCharset == "lower" :> <<"x", "y">> @@ "upper" :> <<"X">> @@ "digit" :> <<"4">>
                @@ "symbol" :> <<"#">>

\* The order of the vaults on the page.
InOrder == <<v1, v2>>

VARIABLE part

Parts == {"centre", "list", "search", "password", "limit", "editor"}

\* Entries differ by their names alone, so they may start in the order of their places.
Rank(v) == CASE v = Nil -> 0 [] v = v1 -> 1 [] v = v2 -> 2

NoSearch == search = CHOOSE x \in SomeSearches : x.query = <<>>
NoEntries == held = [s \in Secrets |-> Nil]

MCInit ==
    /\ part \in Parts
    /\ LimitInit
    /\ EditorInit /\ row.details = "a" /\ row.value = "a"
    /\ (part = "editor" \/ (row.at = v1 /\ shows /\ active = v1))
    /\ GeneratorInit /\ (part = "password" \/ wanted = 0)
    /\ IF part = "search" THEN SearchInit ELSE NoSearch /\ SearchInit
    /\ IF part \in {"centre", "list"}
       THEN AuditInit /\ Rank(place[s1]) <= Rank(place[s2]) /\ Rank(place[s2]) <= Rank(place[s3])
       ELSE NoEntries /\ AuditInit

MCNext ==
    /\ UNCHANGED part
    /\ \/ /\ \/ part \in {"centre", "list"} /\ StoreNext
             \/ part = "centre" /\ CentreNext
             \/ part = "list" /\ ListNext
          /\ UNCHANGED <<searchVars, generatorVars, limitVars, editorVars>>
       \/ /\ part = "search" /\ SearchNext
          /\ UNCHANGED <<auditVars, generatorVars, limitVars, editorVars>>
       \/ /\ part = "password" /\ GeneratorNext
          /\ UNCHANGED <<auditVars, searchVars, limitVars, editorVars>>
       \/ /\ part = "limit" /\ LimitNext
          /\ UNCHANGED <<auditVars, searchVars, generatorVars, editorVars>>
       \/ /\ part = "editor" /\ EditorNext
          /\ UNCHANGED <<auditVars, searchVars, generatorVars, limitVars>>

MCSpec == MCInit /\ [][MCNext]_<<part, auditVars, searchVars, generatorVars, limitVars, editorVars>>

=============================================================================
