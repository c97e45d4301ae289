------------------------------ MODULE UrlCheck ------------------------------
(***************************************************************************)
(* The check of a URL on request: the two labels and the button of the     *)
(* entry editor (ui/widgets/url_security.rs), the consent dialog, and the  *)
(* bounded network check behind it (heelonvault-url-check): the target,    *)
(* the resolution and the filter of its addresses, the attempts to connect.*)
(* The text may change, the editor may be left and come back, and a lookup *)
(* may end after the check was abandoned.                                  *)
(*                                                                         *)
(* A text is a record of what the code reads in it.  Time is left out: an  *)
(* attempt or a whole check may time out at any of its steps.              *)
(***************************************************************************)
EXTENDS Naturals, Sequences, FiniteSets

CONSTANTS Texts,       \* texts of the URL field
          Addresses,   \* addresses a name may resolve to
          Lookups,     \* answers of the resolver
          Nothing,
          MAX_DNS_RESULTS, MAX_CONNECT_ATTEMPTS,
          MaxEdits, MaxChecks   \* bounds on the changes of the field and the checks

ASSUME LookupsAnswer == \A answer \in Lookups : answer \in Seq(Addresses)
ASSUME LimitsAreNumbers == MAX_DNS_RESULTS \in Nat /\ MAX_CONNECT_ATTEMPTS \in Nat \ {0}

VARIABLES
    text, mapped,     \* the field and whether its page is on screen
    sensitive,        \* the button can be pressed
    shown,            \* the transport label
    dialog,           \* the consent dialog that is open
    turn,             \* generation of the field
    handle,           \* the task that can be aborted
    probes,           \* the checks under way, whatever became of their handle
    agreed,           \* the origins the user let the program contact
    contacts,         \* <<origin, address>> of every connection started
    edits, checks

urlVars == <<text, mapped, sensitive, shown, dialog, turn, handle, probes, agreed, contacts,
             edits, checks>>

-----------------------------------------------------------------------------
(* Addresses.  Of an address the filter reads the block it lies in; an IPv6    *)
(* address that embeds an IPv4 one is judged by it.  A name is a host of no    *)
(* family.                                                                     *)

NonPublicV4 == {"this-network", "private", "cgnat", "loopback", "link-local", "protocol",
                "test-net", "as112", "amt", "6to4-relay", "benchmarking", "multicast", "reserved"}
NonPublicV6InGlobal == {"ietf", "documentation", "6to4"}

is_public_ipv4(block) == block \notin NonPublicV4
is_public_ipv6(ip) ==
    IF ip.block \in {"mapped", "nat64"} THEN is_public_ipv4(ip.inner)
    ELSE ip.block # "outside" /\ ip.block \notin NonPublicV6InGlobal
is_public_ip(ip) == IF ip.family = 4 THEN is_public_ipv4(ip.block) ELSE is_public_ipv6(ip)

\* One address that is not public refuses the whole answer; duplicates go.
validate_resolved_KeepsPublic(raw) ==
    LET public == SelectSeq(raw, is_public_ip) IN
    IF public = <<>> THEN [error |-> "dns", addresses |-> <<>>]
    ELSE [error |-> Nothing, addresses |-> public]
validate_resolved(raw) ==
    IF raw = <<>> THEN [error |-> "dns", addresses |-> <<>>]
    ELSE IF \E i \in DOMAIN raw : ~is_public_ip(raw[i])
    THEN [error |-> "blocked", addresses |-> <<>>]
    ELSE LET first(i) == \A j \in 1..(i - 1) : raw[j] # raw[i]
             rank(i) == Cardinality({j \in 1..i : first(j)})
         IN [error |-> Nothing,
             addresses |-> [k \in 1..Cardinality({i \in DOMAIN raw : first(i)}) |->
                                raw[CHOOSE i \in DOMAIN raw : first(i) /\ rank(i) = k]]]

\* An answer longer than the limit is not used at all.
resolve(raw) ==
    IF Len(raw) > MAX_DNS_RESULTS THEN [error |-> "dns", addresses |-> <<>>]
    ELSE validate_resolved(raw)

-----------------------------------------------------------------------------
(* Texts and origins. *)

\* The origin keeps the scheme, the host and the port of a URL and nothing else;
\* of a port only zero matters.  Other schemes have no origin to speak of.
TupleSchemes == {"http", "https", "ws", "wss", "ftp"}
Origin(t) ==
    IF t.scheme \in TupleSchemes
    THEN [scheme |-> t.scheme, host |-> t.host, port |-> t.port]
    ELSE [scheme |-> "opaque", host |-> Nothing, port |-> Nothing]
Origins == {Origin(t) : t \in {x \in Texts : x.parses}}

\* The check drops the dot a rooted name ends with.
is_local_name(host) == host.family = 0 /\ host.block \in {"local", "local."}

\* A name of dots only, or one no certificate can be for.
nameless(host) == host.family = 0 /\ host.block = "nameless"

\* Why an origin is not looked up at all, Nothing when it is.
parse_target(origin) ==
    IF origin.scheme = "opaque" THEN "invalid"
    ELSE IF origin.host.block = "too long" THEN "invalid"
    ELSE IF origin.scheme # "https" THEN "https-required"
    ELSE IF origin.port = "zero" \/ nameless(origin.host) THEN "invalid"
    ELSE IF is_local_name(origin.host) THEN "blocked" ELSE Nothing

\* assess_url (services/security_center.rs) takes a name as it is written: one
\* without a dot is local, one that ends with a dot is not.  The button is on for
\* the HTTPS names it has nothing against, an international one included.
local_status(t) ==
    /\ t.parses /\ t.scheme = "https" /\ ~t.login
    /\ t.host.family = 0 /\ t.host.block \notin {"local", "dotless"}

-----------------------------------------------------------------------------
(* The field. *)

Off == [kind |-> "off"]
Busy == [kind |-> "checking"]
Result(origin, verdict) == [kind |-> "result", origin |-> origin, verdict |-> verdict]
Verdicts == {"ok", "tls", "blocked", "timeout", "dns", "connection", "invalid", "https-required"}
ASSUME NothingIsNoVerdict == Nothing \notin Verdicts

\* The check under way is disowned and its task told to stop; the button comes
\* back whatever the text is.
cancel ==
    /\ turn' = turn + 1
    /\ handle' = Nothing
    /\ probes' = {[p EXCEPT !.aborted = @ \/ p.turn = handle] : p \in probes}
    /\ shown' = Off

Change(t) ==
    /\ mapped /\ dialog = Nothing /\ edits < MaxEdits
    /\ t # text
    /\ edits' = edits + 1
    /\ cancel
    /\ text' = t /\ sensitive' = local_status(t)
    /\ UNCHANGED <<mapped, dialog, agreed, contacts, checks>>

\* The page goes away, with the consent dialog open or not, and may come back.
Leave ==
    /\ mapped /\ edits < MaxEdits
    /\ edits' = edits + 1
    /\ mapped' = FALSE
    /\ cancel /\ sensitive' = TRUE
    /\ UNCHANGED <<text, dialog, agreed, contacts, checks>>
Return ==
    /\ ~mapped /\ mapped' = TRUE
    /\ UNCHANGED <<text, sensitive, shown, dialog, turn, handle, probes, agreed, contacts, edits,
                   checks>>

\* The button asks for consent to contact the origin of the text as it is now.
Click ==
    /\ mapped /\ sensitive /\ dialog = Nothing /\ checks < MaxChecks
    /\ text.parses
    /\ dialog' = [turn |-> turn, origin |-> Origin(text)]
    /\ checks' = checks + 1
    /\ UNCHANGED <<text, mapped, sensitive, shown, turn, handle, probes, agreed, contacts, edits>>

Dismiss ==
    /\ dialog # Nothing /\ dialog' = Nothing
    /\ UNCHANGED <<text, mapped, sensitive, shown, turn, handle, probes, agreed, contacts, edits,
                   checks>>

\* A consent given on a page that was left since is void.
Agree ==
    /\ dialog # Nothing /\ dialog' = Nothing
    /\ agreed' = agreed \cup {dialog.origin}
    /\ IF dialog.turn # turn \/ ~mapped
       THEN UNCHANGED <<sensitive, shown, handle, probes>>
       ELSE /\ sensitive' = FALSE /\ shown' = Busy /\ handle' = turn
            /\ probes' = probes \cup
                {[turn |-> turn, origin |-> dialog.origin, stage |-> "start",
                  left |-> <<>>, tried |-> 0, verdict |-> Nothing, aborted |-> FALSE]}
    /\ UNCHANGED <<text, mapped, turn, contacts, edits, checks>>

-----------------------------------------------------------------------------
(* The check.  A task told to stop does so at its next await, so it may still  *)
(* take a step.                                                                *)

Moves(p, q) ==
    /\ probes' = (probes \ {p}) \cup {q}
    /\ UNCHANGED <<text, mapped, sensitive, shown, dialog, turn, handle, agreed, edits, checks>>
Done(p, verdict) == [p EXCEPT !.stage = "done", !.verdict = verdict]

Begin(p) ==
    /\ p.stage = "start"
    /\ UNCHANGED contacts
    /\ LET refused == parse_target(p.origin)
           host == p.origin.host
       IN Moves(p, CASE refused # Nothing -> Done(p, refused)
                     [] refused = Nothing /\ host.family # 0 ->
                            IF is_public_ip(host)
                            THEN [p EXCEPT !.stage = "connect", !.left = <<host>>,
                                           !.verdict = "connection"]
                            ELSE Done(p, "blocked")
                     [] OTHER -> [p EXCEPT !.stage = "resolve"])

Resolve(p) ==
    /\ p.stage = "resolve"
    /\ UNCHANGED contacts
    /\ \/ Moves(p, Done(p, "dns"))
       \/ \E raw \in Lookups :
            LET found == resolve(raw) IN
            Moves(p, IF found.error # Nothing THEN Done(p, found.error)
                     ELSE [p EXCEPT !.stage = "connect", !.left = found.addresses,
                                    !.verdict = "connection"])

\* The attempts go to the addresses that were judged, in their order.
Connect(p) ==
    /\ p.stage = "connect"
    /\ IF p.left = <<>> \/ p.tried = MAX_CONNECT_ATTEMPTS
       THEN Moves(p, Done(p, p.verdict)) /\ UNCHANGED contacts
       ELSE /\ contacts' = contacts \cup {<<p.origin, Head(p.left)>>}
            /\ \/ Moves(p, Done(p, "ok"))
               \/ \E failure \in {"connection", "tls", "timeout"} :
                    Moves(p, [p EXCEPT !.left = Tail(@), !.tried = @ + 1, !.verdict = failure])

TimeOut(p) ==
    /\ p.stage \in {"resolve", "connect"}
    /\ UNCHANGED contacts
    /\ Moves(p, Done(p, "timeout"))

Abandon(p) ==
    /\ p.aborted
    /\ probes' = probes \ {p}
    /\ UNCHANGED <<text, mapped, sensitive, shown, dialog, turn, handle, agreed, contacts, edits,
                   checks>>

AnswerProbe(p) ==
    /\ p.stage = "done"
    /\ probes' = probes \ {p}
    /\ IF p.turn # turn \/ ~mapped
       THEN UNCHANGED <<sensitive, shown, handle>>
       ELSE /\ handle' = Nothing /\ sensitive' = TRUE
            /\ shown' = Result(p.origin, p.verdict)
    /\ UNCHANGED <<text, mapped, dialog, turn, agreed, contacts, edits, checks>>

Probe(p) == Begin(p) \/ Resolve(p) \/ Connect(p) \/ TimeOut(p) \/ Abandon(p) \/ AnswerProbe(p)
Probes == \E p \in probes : Probe(p)

UrlInit ==
    /\ text \in Texts /\ mapped = TRUE
    /\ sensitive = local_status(text) /\ shown = Off /\ dialog = Nothing
    /\ turn = 0 /\ handle = Nothing /\ probes = {}
    /\ agreed = {} /\ contacts = {}
    /\ edits = 0 /\ checks = 0

UrlNext ==
    \/ \E t \in Texts : Change(t)
    \/ Leave \/ Return \/ Click \/ Dismiss \/ Agree
    \/ Probes

\* A check has eight seconds in all, and a task told to stop stops.
UrlSpec == UrlInit /\ [][UrlNext]_urlVars /\ WF_urlVars(Probes)

-----------------------------------------------------------------------------
(* Properties. *)

\* The variables hold what the code can put there.
UrlTypeOK ==
    /\ text \in Texts /\ mapped \in BOOLEAN /\ sensitive \in BOOLEAN
    /\ shown \in {Off, Busy} \cup {Result(o, v) : o \in Origins, v \in Verdicts}
    /\ dialog \in [turn : Nat, origin : Origins] \cup {Nothing}
    /\ turn \in Nat /\ handle \in Nat \cup {Nothing}
    /\ probes \subseteq [turn : Nat, origin : Origins,
                         stage : {"start", "resolve", "connect", "done"}, left : Seq(Addresses),
                         tried : 0..MAX_CONNECT_ATTEMPTS, verdict : Verdicts \cup {Nothing},
                         aborted : BOOLEAN]
    /\ agreed \subseteq Origins /\ contacts \subseteq Origins \X Addresses

\* What is shown of a check speaks of the text on screen: no verdict, and no
\* check under way, outlives the text or the page it was asked on, whenever the
\* consent, the change, the abandonment and the answer happen; and the button
\* that waits for a check has one to wait for.
ResultOfText ==
    /\ shown.kind = "result" =>
        mapped /\ shown.origin = Origin(text) /\ shown.origin \in agreed
    /\ shown = Busy =>
        /\ mapped /\ ~sensitive
        /\ \E p \in probes : p.turn = turn /\ p.origin = Origin(text) /\ ~p.aborted

\* "Resolves to public addresses only", "callers are responsible for obtaining
\* user consent": a connection is started only over https, to an origin the user
\* agreed to, at a public address, and never because a name has a public address
\* among others.
OnlyPublic ==
    \A c \in contacts :
        /\ c[1] \in agreed /\ c[1].scheme = "https"
        /\ is_public_ip(c[2])
        /\ c[1].host.family # 0 => c[2] = c[1].host
        /\ c[1].host.family = 0 =>
            \E raw \in Lookups :
                /\ Len(raw) <= MAX_DNS_RESULTS
                /\ \A i \in DOMAIN raw : is_public_ip(raw[i])
                /\ \E i \in DOMAIN raw : raw[i] = c[2]

\* A check under way is answered or abandoned: the button does not wait for ever.
UrlEnds == (shown = Busy) ~> (shown # Busy)

=============================================================================
