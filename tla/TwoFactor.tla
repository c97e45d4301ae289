----------------------------- MODULE TwoFactor -----------------------------
(***************************************************************************)
(* The two-factor section of the profile page                              *)
(* (profile_view/handlers/twofa.rs) over the TOTP service: the page loads  *)
(* what is stored, draws a secret, has it confirmed by a code, stores it,  *)
(* or removes it.  Each of these is a thread whose answer comes back to    *)
(* the page later, and no button waits for it.                             *)
(*                                                                         *)
(* A code is identified with the secret an authenticator made it from.     *)
(* The key the secret is sealed with is the subject of AccountRekey, the   *)
(* sign-in with a code that of SignIn.                                     *)
(***************************************************************************)
EXTENDS Naturals

CONSTANTS Secrets,    \* secrets the page may draw
          Calls,      \* slots for the threads the section starts
          NoSecret,
          MaxPresses  \* bound on the buttons pressed

ASSUME NoSecretIsNone == NoSecret \notin Secrets

VARIABLES
    secret,    \* users.totp_secret
    opening,   \* the load of the page: "read", "answer", "done" or "failed"
    found,     \* what the load read
    page,      \* the visible child of the stack
    asking,    \* the row that confirms the removal is visible
    pending,   \* pending_totp_secret
    drawn,     \* secrets shown so far
    proved,    \* secrets whose code was typed, and the one found stored
    call,      \* each thread
    crossed,   \* two threads ran at a time
    presses

twoFactorVars == <<secret, opening, found, page, asking, pending, drawn, proved, call,
                   crossed, presses>>

Free == [kind |-> "free"]
Running(k) == call[k] # Free
SomeRunning == \E k \in Calls : Running(k)

\* A press that starts a thread; another one may be under way.
Starts(k, what) ==
    /\ ~Running(k)
    /\ call' = [call EXCEPT ![k] = what]
    /\ crossed' = (crossed \/ SomeRunning)

Press ==
    /\ presses < MaxPresses
    /\ presses' = presses + 1

-----------------------------------------------------------------------------
(* The load of the page.  The name of the account, which every press that     *)
(* writes asks for, is filled in by its answer.                                *)

Named == opening = "done"

is_totp_enabled ==
    /\ opening = "read"
    /\ \/ opening' = "answer" /\ found' = (secret # NoSecret)
       \/ opening' = "failed" /\ UNCHANGED found
    /\ UNCHANGED <<secret, page, asking, pending, drawn, proved, call, crossed, presses>>

ShowTwoFactor ==
    /\ opening = "answer"
    /\ opening' = "done"
    /\ page' = IF found THEN "enabled" ELSE "disabled"
    /\ asking' = FALSE
    /\ UNCHANGED <<secret, found, pending, drawn, proved, call, crossed, presses>>

-----------------------------------------------------------------------------
(* Turning the second factor on. *)

\* A fresh secret replaces the one that was pending.
create_setup_payload(s) ==
    /\ s \notin drawn
    /\ drawn' = drawn \cup {s}
    /\ pending' = s

Activate ==
    /\ page = "disabled" /\ Named /\ Press
    /\ \E s \in Secrets : create_setup_payload(s)
    /\ page' = "setup"
    /\ UNCHANGED <<secret, opening, found, asking, proved, call, crossed>>

CancelSetup ==
    /\ page = "setup" /\ Press
    /\ pending' = NoSecret /\ page' = "disabled"
    /\ UNCHANGED <<secret, opening, found, asking, drawn, proved, call, crossed>>

\* The code must be of this secret and of the last minute or so.
verify_setup_code(s, code, recent) == recent /\ code = s

ConfirmSetup(k, code) ==
    /\ page = "setup" /\ Named /\ pending # NoSecret /\ Press
    /\ verify_setup_code(pending, code, TRUE)
    /\ proved' = proved \cup {code}
    /\ Starts(k, [kind |-> "enable", stage |-> "verify", secret |-> pending, code |-> code])
    /\ UNCHANGED <<secret, opening, found, page, asking, pending, drawn>>

\* enable_totp checks the code a second time; it may have expired.
Verify(k) ==
    /\ Running(k) /\ call[k].kind = "enable" /\ call[k].stage = "verify"
    /\ \E recent \in BOOLEAN :
          call' = [call EXCEPT ![k].stage =
                      IF verify_setup_code(call[k].secret, call[k].code, recent)
                      THEN "write" ELSE "failed"]
    /\ UNCHANGED <<secret, opening, found, page, asking, pending, drawn, proved, crossed, presses>>

\* The write of a thread, or its failure.
Writes(k, new) ==
    /\ call[k].stage = "write"
    /\ \/ secret' = new /\ call' = [call EXCEPT ![k].stage = "written"]
       \/ call' = [call EXCEPT ![k].stage = "failed"] /\ UNCHANGED secret
    /\ UNCHANGED <<opening, found, page, asking, pending, drawn, proved, crossed, presses>>

enable_totp(k) ==
    Running(k) /\ call[k].kind = "enable" /\ Writes(k, call[k].secret)

\* Mutation: an answer that finds the setup left does not touch the page.
EnableAnswer_IfStillThere(k) ==
    /\ Running(k) /\ call[k].kind = "enable" /\ call[k].stage \in {"written", "failed"}
    /\ IF call[k].stage = "written" /\ page = "setup"
       THEN pending' = NoSecret /\ page' = "enabled"
       ELSE UNCHANGED <<pending, page>>
    /\ call' = [call EXCEPT ![k] = Free]
    /\ UNCHANGED <<secret, opening, found, asking, drawn, proved, crossed, presses>>
EnableAnswer(k) ==
    /\ Running(k) /\ call[k].kind = "enable" /\ call[k].stage \in {"written", "failed"}
    /\ IF call[k].stage = "written" THEN pending' = NoSecret /\ page' = "enabled"
       ELSE UNCHANGED <<pending, page>>
    /\ call' = [call EXCEPT ![k] = Free]
    /\ UNCHANGED <<secret, opening, found, asking, drawn, proved, crossed, presses>>

-----------------------------------------------------------------------------
(* Turning it off. *)

AskDisable ==
    /\ page = "enabled" /\ Press
    /\ asking' = ~asking
    /\ UNCHANGED <<secret, opening, found, page, pending, drawn, proved, call, crossed>>

Disable(k) ==
    /\ page = "enabled" /\ asking /\ Press
    /\ Starts(k, [kind |-> "disable", stage |-> "write"])
    /\ UNCHANGED <<secret, opening, found, page, asking, pending, drawn, proved>>

disable_totp(k) == Running(k) /\ call[k].kind = "disable" /\ Writes(k, NoSecret)

DisableAnswer(k) ==
    /\ Running(k) /\ call[k].kind = "disable" /\ call[k].stage \in {"written", "failed"}
    /\ IF call[k].stage = "written" THEN asking' = FALSE /\ page' = "disabled"
       ELSE UNCHANGED <<asking, page>>
    /\ call' = [call EXCEPT ![k] = Free]
    /\ UNCHANGED <<secret, opening, found, pending, drawn, proved, crossed, presses>>

-----------------------------------------------------------------------------

TwoFactorInit ==
    /\ secret \in Secrets \cup {NoSecret}
    /\ opening = "read" /\ found = FALSE
    /\ page = "disabled" /\ asking = FALSE
    /\ pending = NoSecret
    /\ drawn = {secret} \ {NoSecret} /\ proved = {secret} \ {NoSecret}
    /\ call = [k \in Calls |-> Free] /\ crossed = FALSE
    /\ presses = 0

Works(k) == Verify(k) \/ enable_totp(k) \/ disable_totp(k) \/ EnableAnswer(k) \/ DisableAnswer(k)

TwoFactorNext ==
    \/ is_totp_enabled \/ ShowTwoFactor
    \/ Activate \/ CancelSetup \/ AskDisable
    \/ \E k \in Calls : Disable(k) \/ \E code \in drawn : ConfirmSetup(k, code)
    \/ \E k \in Calls : Works(k)

TwoFactorSpec == TwoFactorInit /\ [][TwoFactorNext]_twoFactorVars

-----------------------------------------------------------------------------
(* Properties. *)

\* The secret the account asks codes of is one the user has shown to hold: its
\* own code was typed before it was stored.  A page that was left, a second
\* secret drawn while the first is being stored, an answer that comes late do
\* not lock the account behind a secret nobody scanned (twofa.rs, enable_totp).
StoredWasProved == secret # NoSecret => secret \in proved

\* Once nothing is under way, the page says what is stored, failures included.
\* Two threads that run at a time may end in either order, and the page then
\* keeps the answer that came last, not the write that came last.
TwoFactorShown ==
    opening = "done" /\ ~SomeRunning /\ ~crossed =>
        (page = "enabled" <=> secret # NoSecret)

=============================================================================
