---------------------------- MODULE ProfileForm ----------------------------
(***************************************************************************)
(* The identity, the language and the password display of the profile page *)
(* (profile_view/core.rs) over UserService: what the page shows, what the  *)
(* threads it starts carry, and the row of the user they write.            *)
(*                                                                         *)
(* Every save runs on a thread of its own with the values of the moment it *)
(* was started, and writes the columns of its kind whatever another one    *)
(* wrote since.  An empty text and an absent value are both Empty.  The    *)
(* auto-lock delay is in SessionLock, the second factor in TwoFactor.      *)
(***************************************************************************)
EXTENDS Naturals

CONSTANTS Names, Emails, Languages,
          Saves,      \* slots for the threads of the page
          Empty,
          MaxInputs,  \* bound on what the user does
          MaxErrors   \* bound on the statements that fail

ASSUME EmptyIsNone == Empty \notin Names \cup Emails \cup Languages

VARIABLES
    user,       \* the row: [name, email, language, show]
    loading,    \* loading_lock
    load,       \* the thread that loads the page: "read", "answer", "done" or "failed"
    loaded,     \* the row it read
    form,       \* [name, email] in the entries
    saved,      \* SavedIdentity, what the page takes for stored
    switch,     \* the show-passwords switch
    selected, applied,   \* the language row and applied_language
    spoken,     \* the language of the application
    pref,       \* show_passwords_in_edit of the session
    save,       \* each thread
    earned,     \* addresses stored at first or with the password
    doubt,      \* saves overlapped, or an answer failed after its write
    inputs, errors

formVars == <<user, loading, load, loaded, form, saved, switch, selected, applied, spoken, pref,
              save, earned, doubt, inputs, errors>>
pageVars == <<loading, load, loaded, form, saved, switch, selected, applied, spoken, pref>>

Identity(row) == [name |-> row.name, email |-> row.email]
NoIdentity == [name |-> Empty, email |-> Empty]

Ready == [kind |-> "ready"]
Saving(t) == save[t] # Ready
At(t, stage) == Saving(t) /\ save[t].stage = stage

\* A thread starts with what it carries; others may be under way.
Start(t, what, alone) ==
    /\ ~Saving(t)
    /\ save' = [save EXCEPT ![t] = what]
    /\ doubt' = (doubt \/ ~alone \/ \E o \in Saves : Saving(o))

Input == inputs < MaxInputs /\ inputs' = inputs + 1
Error == errors < MaxErrors /\ errors' = errors + 1

-----------------------------------------------------------------------------
(* The load of the page. *)

get_user_profile ==
    /\ load = "read"
    /\ \/ load' = "answer" /\ loaded' = user /\ UNCHANGED <<loading, errors>>
       \/ Error /\ load' = "failed" /\ loading' = FALSE /\ UNCHANGED loaded
    /\ UNCHANGED <<user, form, saved, switch, selected, applied, spoken, pref, save, earned,
                   doubt, inputs>>

\* The lock covers what the rows announce when they are set, except the switch,
\* whose change is saved again.
ShowProfile ==
    /\ load = "answer"
    /\ load' = "done" /\ loading' = FALSE
    /\ spoken' = loaded.language /\ selected' = loaded.language /\ applied' = loaded.language
    /\ form' = Identity(loaded) /\ saved' = Identity(loaded)
    /\ switch' = loaded.show /\ pref' = loaded.show
    /\ IF switch = loaded.show THEN UNCHANGED <<save, doubt>>
       ELSE \E t \in Saves :
               Start(t, [kind |-> "toggle", stage |-> "write", show |-> loaded.show], TRUE)
    /\ UNCHANGED <<user, loaded, earned, inputs, errors>>

Alone == load \in {"done", "failed"}

-----------------------------------------------------------------------------
(* What the user does.  The password entry shows only next to an address that *)
(* differs from the one taken for stored.                                     *)

Type ==
    /\ Input
    /\ \/ \E n \in Names \cup {Empty} : form' = [form EXCEPT !.name = n]
       \/ \E a \in Emails \cup {Empty} : form' = [form EXCEPT !.email = a]
    /\ form' # form
    /\ UNCHANGED <<user, loading, load, loaded, saved, switch, selected, applied, spoken, pref,
                   save, earned, doubt, errors>>

SaveIdentity(t, password) ==
    /\ Input
    /\ form # saved
    /\ password # "none" => form.email # saved.email
    /\ Start(t, [kind |-> "identity", stage |-> "check", name |-> form.name, email |-> form.email,
                 language |-> selected, show |-> switch, password |-> password], Alone)
    /\ UNCHANGED <<user, pageVars, earned, errors>>

FlipSwitch(t) ==
    /\ Input
    /\ switch' = ~switch
    /\ Start(t, [kind |-> "toggle", stage |-> "write", show |-> switch'], Alone)
    /\ UNCHANGED <<user, loading, load, loaded, form, saved, selected, applied, spoken, pref,
                   earned, errors>>

\* The identity a change of language carries.
Carried == saved

ChooseLanguage(t, language) ==
    /\ Input
    /\ selected # language /\ selected' = language
    /\ IF loading \/ applied = language THEN UNCHANGED <<applied, save, doubt>>
       ELSE /\ applied' = language
            /\ Start(t, [kind |-> "language", stage |-> "check", name |-> Carried.name,
                         email |-> Carried.email, language |-> language, show |-> switch,
                         password |-> "none"], Alone)
    /\ UNCHANGED <<user, loading, load, loaded, form, saved, switch, spoken, pref, earned, errors>>

-----------------------------------------------------------------------------
(* The threads. *)

Fails(t) ==
    /\ Error
    /\ save' = [save EXCEPT ![t].stage = "failed"]

\* A new address asks for the password; the address compared is the stored one.
Verified_IfGiven(t) == save[t].email = user.email \/ save[t].password \in {"none", "right"}
Verified(t) == save[t].email = user.email \/ save[t].password = "right"

CheckEmail(t) ==
    /\ At(t, "check")
    /\ \/ /\ save' = [save EXCEPT ![t].stage = IF Verified(t) THEN "write" ELSE "failed"]
          /\ earned' = earned \cup {a \in {save[t].email} : save[t].password = "right"}
          /\ UNCHANGED errors
       \/ Fails(t) /\ UNCHANGED earned
    /\ UNCHANGED <<user, pageVars, doubt, inputs>>

update_user_profile(t) ==
    /\ At(t, "write") /\ save[t].kind # "toggle"
    /\ \/ /\ user' = [name |-> save[t].name, email |-> save[t].email,
                      language |-> save[t].language, show |-> save[t].show]
          /\ save' = [save EXCEPT ![t].stage = "reread"]
          /\ UNCHANGED errors
       \/ Fails(t) /\ UNCHANGED user
    /\ UNCHANGED <<pageVars, earned, doubt, inputs>>

update_show_passwords_in_edit(t) ==
    /\ At(t, "write") /\ save[t].kind = "toggle"
    /\ \/ /\ user' = [user EXCEPT !.show = save[t].show]
          /\ save' = [save EXCEPT ![t].stage = "reread"]
          /\ UNCHANGED errors
       \/ Fails(t) /\ UNCHANGED user
    /\ UNCHANGED <<pageVars, earned, doubt, inputs>>

\* The answer is the row as it is by now; the write stays when this fails.
Reread(t) ==
    /\ At(t, "reread")
    /\ \/ /\ save' = [save EXCEPT ![t] = [kind |-> @.kind, stage |-> "answer", row |-> user]]
          /\ UNCHANGED <<doubt, errors>>
       \/ Fails(t) /\ doubt' = TRUE
    /\ UNCHANGED <<user, pageVars, earned, inputs>>

-----------------------------------------------------------------------------
(* The answers, back on the page. *)

Ends(t) == save' = [save EXCEPT ![t] = Ready]
Unmoved == <<user, loading, load, loaded, form, switch, selected, earned, doubt, inputs, errors>>

IdentityAnswer(t) ==
    /\ At(t, "answer") /\ save[t].kind = "identity" /\ Ends(t)
    /\ saved' = Identity(save[t].row)
    /\ spoken' = save[t].row.language /\ pref' = save[t].row.show
    /\ UNCHANGED <<Unmoved, applied>>

LanguageAnswer(t) ==
    /\ At(t, "answer") /\ save[t].kind = "language" /\ Ends(t)
    /\ spoken' = save[t].row.language
    /\ UNCHANGED <<Unmoved, saved, applied, pref>>

SwitchAnswer(t) ==
    /\ At(t, "answer") /\ save[t].kind = "toggle" /\ Ends(t)
    /\ pref' = save[t].row.show
    /\ UNCHANGED <<Unmoved, saved, applied, spoken>>

\* A failed change of language may be chosen again.
FailedAnswer(t) ==
    /\ At(t, "failed") /\ Ends(t)
    /\ applied' = IF save[t].kind = "language" THEN Empty ELSE applied
    /\ UNCHANGED <<Unmoved, saved, spoken, pref>>

-----------------------------------------------------------------------------

FormInit ==
    /\ user \in [name : Names \cup {Empty}, email : Emails \cup {Empty}, language : Languages,
                 show : BOOLEAN]
    /\ loading = TRUE /\ load = "read" /\ loaded = user
    /\ form = NoIdentity /\ saved = NoIdentity
    /\ switch = FALSE /\ pref = FALSE
    /\ selected \in Languages /\ applied = Empty /\ spoken = user.language
    /\ save = [t \in Saves |-> Ready]
    /\ earned = {user.email} /\ doubt = FALSE
    /\ inputs = 0 /\ errors = 0

SaveStep(t) ==
    \/ CheckEmail(t) \/ update_user_profile(t) \/ update_show_passwords_in_edit(t) \/ Reread(t)
    \/ IdentityAnswer(t) \/ LanguageAnswer(t) \/ SwitchAnswer(t) \/ FailedAnswer(t)

FormNext ==
    \/ get_user_profile \/ ShowProfile \/ Type
    \/ \E t \in Saves :
          \/ \E password \in {"none", "wrong", "right"} : SaveIdentity(t, password)
          \/ FlipSwitch(t)
          \/ \E language \in Languages : ChooseLanguage(t, language)
          \/ SaveStep(t)

FormSpec == FormInit /\ [][FormNext]_formVars

-----------------------------------------------------------------------------
(* Properties. *)

\* The address of the account is the one it had or one the password was given
\* for: saves that carry an older address may bring that one back, and none can
\* bring in an address nobody vouched for (UserService::update_user_profile).
EmailEarned == user.email \in earned

FormTrue ==
    load = "done" /\ (\A t \in Saves : ~Saving(t)) /\ ~doubt =>
        /\ saved = Identity(user) /\ spoken = user.language
        /\ errors = 0 => pref = user.show

\* "Only the language changes" (core.rs, the change of language): its write
\* leaves the name and the address alone.
OnlyTheLanguage ==
    [][\A t \in Saves :
          At(t, "write") /\ save[t].kind = "language" /\ user' # user =>
              Identity(user') = Identity(user)]_formVars

=============================================================================
