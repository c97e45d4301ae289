----------------------------- MODULE MCProfile -----------------------------
(***************************************************************************)
(* Small instances for TLC of what surrounds the vaults.  No part of       *)
(* ProfileParts touches the others, so a behaviour takes the steps of one. *)
(***************************************************************************)
EXTENDS ProfileParts, TLC

\* Addresses and names: four public, one of them only in an answer with a private
\* one and one only in an answer that is too long; a loopback inside an IPv6 address.
V4(block) == [family |-> 4, block |-> block]
V6(block, inner) == [family |-> 6, block |-> block, inner |-> inner]
Name(name) == [family |-> 0, block |-> name]
Public == V4("global")
Other == V6("global", "global")
Mixed == V6("nat64", "global")
Surplus == V6("mapped", "global")
SomeAddresses ==
    {Public, Other, Mixed, Surplus, V4("private"), V6("mapped", "loopback")}
SomeLookups ==
    {<<>>, <<Mixed, V4("private")>>, <<V6("mapped", "loopback"), Mixed>>,
     <<Other, Other, Public>>, <<Surplus, Other, Other, Public>>}

Url(scheme, host) ==
    [parses |-> TRUE, scheme |-> scheme, host |-> host, port |-> "any", login |-> FALSE]
SomeTexts ==
    {Url("https", Name("site")), Url("https", Name("other")), Url("https", Public),
     Url("https", V4("private")), Url("ftp", Name("site")), Url("mailto", Name("site")),
     [Url("https", Name("site")) EXCEPT !.login = TRUE],
     [Url("https", Name("site")) EXCEPT !.port = "zero"],
     [Url("https", Name("site")) EXCEPT !.parses = FALSE]}
    \cup {Url("https", Name(block)) :
             block \in {"local", "local.", "dotless", "nameless", "too long"}}

\* Files: one that cannot be read, one longer than the limit, one with every failure.
Csv(rows) == [readable |-> TRUE, rows |-> rows]
SomeFiles ==
    {[readable |-> FALSE, rows |-> <<>>], Csv(<<>>),
     Csv(<<"good", "unparsed", "good", "good">>), Csv(<<"field", "columns">>)}

VARIABLE part
Parts == {"updates", "url", "import", "form", "second factor", "one call", "two calls"}

profileVars ==
    <<part, updateVars, urlVars, importVars, formVars, twoFactorVars, accessVars>>

\* One user has a vault, the other perhaps a share of it.
SomeTables ==
    /\ people = [p \in People |-> "user"]
    /\ vaults = [v \in Vaults |-> [owner |-> "p1", deleted |-> FALSE]]
    /\ teams = Teams
    /\ shares \in [Vaults \X People -> {NoRow, [role |-> "admin", team |-> "t1"]}]
    /\ \A v \in Vaults : shares[v, "p1"] = NoRow
    /\ members = [x \in Teams \X People |-> NoRow]

\* Either one call while the tables change, or two calls, the second a deletion by the
\* other user, while they change once less.
FewCalls ==
    request'["c2"] # Nobody =>
        /\ part = "two calls" /\ request'["c1"] # Nobody
        /\ request'["c2"].op = "delete" /\ request'["c2"].user = "p2"

MCInit ==
    /\ UpdateInit /\ UrlInit /\ ImportInit /\ FormInit /\ TwoFactorInit
    /\ part \in Parts
    /\ SomeTables /\ TablesWhole /\ request = [c \in Requests |-> Nobody]
    /\ part \notin {"one call", "two calls"} => \A x \in Vaults \X People : shares[x] = NoRow
    /\ grants = IF part = "two calls" THEN 1 ELSE 0
    /\ part # "url" => text = Url("https", Name("site"))
    /\ part # "import" => csv = Csv(<<>>)
    /\ user.name = "n1" /\ user.language = "en" /\ user.email # "e2" /\ selected = "fr"
    /\ part # "form" => ~user.show /\ user.email = Empty
    /\ part # "second factor" => secret = NoSecret
    /\ secret \in {NoSecret, "s1"}

MCNext ==
    /\ UNCHANGED part
    /\ \/ /\ part = "updates" /\ UpdateNext
          /\ UNCHANGED <<urlVars, importVars, formVars, twoFactorVars, accessVars>>
       \/ /\ part = "url" /\ UrlNext
          /\ UNCHANGED <<updateVars, importVars, formVars, twoFactorVars, accessVars>>
       \/ /\ part = "import" /\ ImportNext
          /\ UNCHANGED <<updateVars, urlVars, formVars, twoFactorVars, accessVars>>
       \/ /\ part = "form" /\ FormNext
          /\ UNCHANGED <<updateVars, urlVars, importVars, twoFactorVars, accessVars>>
       \/ /\ part = "second factor" /\ TwoFactorNext
          /\ UNCHANGED <<updateVars, urlVars, importVars, formVars, accessVars>>
       \/ /\ part \in {"one call", "two calls"} /\ AccessNext /\ FewCalls
          /\ UNCHANGED <<updateVars, urlVars, importVars, formVars, twoFactorVars>>

MCSpec ==
    /\ MCInit /\ [][MCNext]_profileVars
    /\ WF_updateVars(Answers) /\ WF_urlVars(Probes) /\ ImportFairness

=============================================================================
