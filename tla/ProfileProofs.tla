---------------------------- MODULE ProfileProofs ---------------------------
(***************************************************************************)
(* Proofs about ProfileParts: the second factor and the form of the        *)
(* profile page, access to vaults, the discovery of updates, the check of  *)
(* a URL and the import of a file.  They share nothing but lemmas, so each *)
(* has an inductive invariant of its own.                                  *)
(***************************************************************************)
EXTENDS ProfileParts, FiniteSetTheorems, SequenceTheorems, TLAPS

-----------------------------------------------------------------------------
(* TwoFactor.                                                                *)

Enabling ==
  [kind : {"enable"}, stage : {"verify", "write", "written", "failed"},
   secret : Secrets, code : Secrets]
Disabling == [kind : {"disable"}, stage : {"write", "written", "failed"}]

TwoFactorType ==
  /\ secret \in Secrets \cup {NoSecret}
  /\ opening \in {"read", "answer", "done", "failed"}
  /\ page \in {"disabled", "setup", "enabled"}
  /\ pending \in Secrets \cup {NoSecret}
  /\ drawn \subseteq Secrets
  /\ found \in BOOLEAN /\ crossed \in BOOLEAN
  /\ call \in [Calls -> {Free} \cup Enabling \cup Disabling]

(* Before its load is pane the page has started nothing, and what the load  *)
(* read is what is stored.                                                   *)
Unopened ==
  /\ opening # "done" => page = "disabled" /\ ~SomeRunning
  /\ opening = "answer" => (found <=> secret # NoSecret)

(* What one thread, running alone, leaves between the page and the row.      *)
Between(c, pane, kept) ==
  /\ c.kind = "enable" => pane # "enabled" /\ (c.stage = "written" <=> kept # NoSecret)
  /\ c.kind = "disable" => pane = "enabled" /\ (c.stage = "written" <=> kept = NoSecret)

OneThread ==
  ~crossed =>
    /\ \A j, k \in Calls : Running(j) /\ Running(k) => j = k
    /\ \A k \in Calls : Running(k) => Between(call[k], page, secret)

TwoFactorInv ==
  /\ TwoFactorType
  /\ StoredWasProved
  /\ \A k \in Calls : call[k].kind = "enable" => call[k].secret \in proved
  /\ Unopened
  /\ OneThread
  /\ TwoFactorShown

LEMMA InitTwoFactor == TwoFactorInit => TwoFactorInv
<1> SUFFICES ASSUME TwoFactorInit PROVE TwoFactorInv
  OBVIOUS
<1> USE NoSecretIsNone DEF TwoFactorInit
<1>1. TwoFactorType
  BY DEF TwoFactorType
<1>2. \A k \in Calls : ~Running(k) /\ call[k].kind = "free"
  BY DEF Running, Free
<1> QED
  BY <1>1, <1>2 DEF TwoFactorInv, StoredWasProved, Unopened, OneThread, TwoFactorShown,
                    SomeRunning

LEMMA NextTwoFactor == TwoFactorInv /\ [TwoFactorNext]_twoFactorVars => TwoFactorInv'
<1> SUFFICES ASSUME TwoFactorInv, [TwoFactorNext]_twoFactorVars PROVE TwoFactorInv'
  OBVIOUS
<1> USE NoSecretIsNone DEF TwoFactorInv, TwoFactorType
<1>f. \A k \in Calls : Running(k) <=> call[k] \in Enabling \cup Disabling
  BY DEF Running, Free, Enabling, Disabling
<1>k. \A k \in Calls : /\ call[k].kind = "enable" <=> call[k] \in Enabling
                       /\ call[k].kind = "disable" <=> call[k] \in Disabling
  BY DEF Free, Enabling, Disabling
(* Steps of the page alone: no thread moves and nothing is stored.           *)
<1>p. ASSUME UNCHANGED <<secret, proved, call, crossed>>, TwoFactorType', Unopened',
             opening' = "done" /\ ~crossed =>
               /\ ~SomeRunning => (page' = "enabled" <=> secret # NoSecret)
               /\ SomeRunning => (page' = "enabled" <=> page = "enabled")
      PROVE  TwoFactorInv'
  <2>1. \A k \in Calls : Running(k)' <=> Running(k)
    BY <1>p DEF Running
  <2>2. SomeRunning' <=> SomeRunning
    BY <2>1 DEF SomeRunning
  <2>3. \A k \in Calls : ~crossed /\ Running(k) => Between(call'[k], page', secret')
    <3> SUFFICES ASSUME NEW k \in Calls, ~crossed, Running(k) PROVE Between(call'[k], page', secret')
      OBVIOUS
    <3>1. SomeRunning /\ Between(call[k], page, secret)
      BY DEF SomeRunning, OneThread
    <3>2. opening' = "done"
      BY <1>p, <2>2, <3>1 DEF Unopened
    <3> QED
      BY <1>p, <3>1, <3>2 DEF Between
  <2>4. OneThread'
    BY <1>p, <2>1, <2>3 DEF OneThread
  <2>5. TwoFactorShown'
    BY <1>p, <2>2 DEF TwoFactorShown
  <2> QED
    BY <1>p, <2>4, <2>5 DEF StoredWasProved
(* Thread k goes from one record to another.                                 *)
<1>t. ASSUME NEW k \in Calls, NEW c \in {Free} \cup Enabling \cup Disabling,
             call' = [call EXCEPT ![k] = c],
             UNCHANGED <<opening, found, drawn>>,
             opening = "done",
             secret' \in Secrets \cup {NoSecret}, page' \in {"disabled", "setup", "enabled"},
             pending' \in Secrets \cup {NoSecret}, crossed' \in BOOLEAN,
             ~crossed' => ~crossed /\ \A j \in Calls \ {k} : ~Running(j),
             proved \subseteq proved', secret' # NoSecret => secret' \in proved',
             c.kind = "enable" => c.secret \in proved',
             ~crossed' /\ c = Free => (page' = "enabled" <=> secret' # NoSecret),
             ~crossed' /\ c # Free => Between(c, page', secret')
      PROVE  TwoFactorInv'
  <2>1. TwoFactorType'
    BY <1>t
  <2>2. /\ call'[k] = c
        /\ \A j \in Calls \ {k} : call'[j] = call[j]
        /\ \A j \in Calls \ {k} : Running(j)' <=> Running(j)
        /\ Running(k)' <=> c # Free
    BY <1>t DEF Running
  <2>3. OneThread'
    BY <1>t, <2>2 DEF OneThread, Between
  <2>4. \A j \in Calls : call'[j].kind = "enable" => call'[j].secret \in proved'
    BY <1>t, <2>2
  <2>5. TwoFactorShown'
    BY <1>t, <2>2 DEF TwoFactorShown, SomeRunning
  <2> QED
    BY <1>t, <2>1, <2>3, <2>4, <2>5 DEF StoredWasProved, Unopened
<1>1. CASE is_totp_enabled
  BY <1>1, <1>p DEF is_totp_enabled, Unopened, SomeRunning, Running
<1>2. CASE ShowTwoFactor
  BY <1>2, <1>p DEF ShowTwoFactor, Unopened
<1>3. CASE Activate
  <2>1. /\ UNCHANGED <<secret, opening, found, asking, proved, call, crossed>>
        /\ page = "disabled" /\ page' = "setup" /\ opening = "done"
        /\ pending' \in Secrets /\ drawn' \subseteq Secrets
    BY <1>3 DEF Activate, create_setup_payload, Named
  <2>2. TwoFactorType' /\ Unopened'
    BY <2>1 DEF Unopened
  <2> QED
    BY <2>1, <2>2, <1>p DEF TwoFactorShown
<1>4. CASE CancelSetup
  <2>1. /\ UNCHANGED <<secret, opening, found, asking, drawn, proved, call, crossed>>
        /\ page = "setup" /\ page' = "disabled" /\ pending' = NoSecret
    BY <1>4 DEF CancelSetup
  <2>2. TwoFactorType' /\ Unopened'
    BY <2>1 DEF Unopened
  <2> QED
    BY <2>1, <2>2, <1>p DEF TwoFactorShown
<1>5. CASE AskDisable
  <2>1. UNCHANGED <<secret, opening, found, page, pending, drawn, proved, call, crossed>>
    BY <1>5 DEF AskDisable
  <2>2. TwoFactorType' /\ Unopened'
    BY <2>1 DEF Unopened, SomeRunning, Running
  <2> QED
    BY <2>1, <2>2, <1>p DEF TwoFactorShown
<1>s. ASSUME NEW k \in Calls, NEW what, Starts(k, what)
      PROVE  /\ call' = [call EXCEPT ![k] = what]
             /\ ~Running(k) /\ crossed' \in BOOLEAN
             /\ ~crossed' => ~crossed /\ ~SomeRunning
  BY <1>s DEF Starts
<1>6. ASSUME NEW k \in Calls, Disable(k)
      PROVE  TwoFactorInv'
  <2> DEFINE c == [kind |-> "disable", stage |-> "write"]
  <2>1. c \in Disabling /\ c.kind = "disable" /\ c.stage = "write" /\ c # Free
    BY DEF Disabling, Free
  <2>2. /\ UNCHANGED <<secret, opening, found, page, asking, pending, drawn, proved>>
        /\ page = "enabled" /\ Starts(k, c)
    BY <1>6 DEF Disable
  <2>3. opening = "done"
    BY <2>2 DEF Unopened
  <2>4. ~crossed' => Between(c, page', secret')
    BY <2>1, <2>2, <2>3, <1>s DEF Between, TwoFactorShown
  <2> HIDE DEF c
  <2> QED
    BY <2>1, <2>2, <2>3, <2>4, <1>s, <1>t DEF SomeRunning, StoredWasProved
<1>7. ASSUME NEW k \in Calls, NEW code \in drawn, ConfirmSetup(k, code)
      PROVE  TwoFactorInv'
  <2> DEFINE c == [kind |-> "enable", stage |-> "verify", secret |-> pending, code |-> code]
  <2>1. /\ UNCHANGED <<secret, opening, found, page, asking, pending, drawn>>
        /\ page = "setup" /\ opening = "done" /\ pending = code
        /\ proved' = proved \cup {code} /\ Starts(k, c)
    BY <1>7 DEF ConfirmSetup, verify_setup_code, Named
  <2>2. /\ c \in Enabling /\ c.kind = "enable" /\ c.stage = "verify" /\ c # Free
        /\ c.secret \in proved'
    BY <2>1 DEF Enabling, Free
  <2>4. ~crossed' => Between(c, page', secret')
    BY <2>1, <2>2, <1>s DEF Between, TwoFactorShown
  <2> HIDE DEF c
  <2> QED
    BY <2>1, <2>2, <2>4, <1>s, <1>t DEF SomeRunning, StoredWasProved
(* A thread that runs: the load is over, and no other runs uncrossed.        *)
<1>r. ASSUME NEW k \in Calls, Running(k)
      PROVE  /\ opening = "done"
             /\ ~crossed => Between(call[k], page, secret) /\ \A j \in Calls \ {k} : ~Running(j)
  BY <1>r DEF Unopened, SomeRunning, OneThread
<1>8. ASSUME NEW k \in Calls, Verify(k)
      PROVE  TwoFactorInv'
  <2>1. PICK stage \in {"write", "failed"} : call' = [call EXCEPT ![k].stage = stage]
    BY <1>8 DEF Verify
  <2> DEFINE c == [call[k] EXCEPT !.stage = stage]
  <2>2. /\ Running(k) /\ call[k] \in Enabling /\ call[k].stage = "verify"
        /\ UNCHANGED <<secret, opening, found, page, asking, pending, drawn, proved, crossed>>
    BY <1>8, <1>k DEF Verify
  <2>3. /\ c \in Enabling /\ c.kind = "enable" /\ c.stage # "written" /\ c # Free
        /\ c.secret = call[k].secret /\ call' = [call EXCEPT ![k] = c]
    BY <2>1, <2>2 DEF Enabling, Free
  <2>4. ~crossed' => Between(c, page', secret')
    BY <2>2, <2>3, <1>r, <1>k DEF Between
  <2> HIDE DEF c
  <2> QED
    BY <2>2, <2>3, <2>4, <1>r, <1>k, <1>t DEF StoredWasProved
<1>9. ASSUME NEW k \in Calls, enable_totp(k)
      PROVE  TwoFactorInv'
  <2>1. PICK stage \in {"written", "failed"} :
          /\ call' = [call EXCEPT ![k].stage = stage]
          /\ secret' = IF stage = "written" THEN call[k].secret ELSE secret
    BY <1>9 DEF enable_totp, Writes
  <2> DEFINE c == [call[k] EXCEPT !.stage = stage]
  <2>2. /\ Running(k) /\ call[k] \in Enabling /\ call[k].stage = "write"
        /\ UNCHANGED <<opening, found, page, asking, pending, drawn, proved, crossed>>
    BY <1>9, <1>k DEF enable_totp, Writes
  <2>3. /\ c \in Enabling /\ c.kind = "enable" /\ c.stage = stage /\ c # Free
        /\ c.secret = call[k].secret /\ call' = [call EXCEPT ![k] = c]
        /\ call[k].secret \in Secrets
    BY <2>1, <2>2 DEF Enabling, Free
  <2>4. ~crossed' => Between(c, page', secret')
    BY <2>1, <2>2, <2>3, <1>r, <1>k DEF Between
  <2> HIDE DEF c
  <2> QED
    BY ZenonT(60), <2>1, <2>2, <2>3, <2>4, <1>r, <1>k, <1>t DEF StoredWasProved
<1>10. ASSUME NEW k \in Calls, disable_totp(k)
       PROVE  TwoFactorInv'
  <2>1. PICK stage \in {"written", "failed"} :
          /\ call' = [call EXCEPT ![k].stage = stage]
          /\ secret' = IF stage = "written" THEN NoSecret ELSE secret
    BY <1>10 DEF disable_totp, Writes
  <2> DEFINE c == [call[k] EXCEPT !.stage = stage]
  <2>2. /\ Running(k) /\ call[k] \in Disabling /\ call[k].stage = "write"
        /\ UNCHANGED <<opening, found, page, asking, pending, drawn, proved, crossed>>
    BY <1>10, <1>k DEF disable_totp, Writes
  <2>3. /\ c \in Disabling /\ c.kind = "disable" /\ c.stage = stage /\ c # Free
        /\ call' = [call EXCEPT ![k] = c]
    BY <2>1, <2>2 DEF Disabling, Free
  <2>4. ~crossed' => Between(c, page', secret')
    BY <2>1, <2>2, <2>3, <1>r, <1>k DEF Between
  <2> HIDE DEF c
  <2> QED
    BY ZenonT(120), <2>1, <2>2, <2>3, <2>4, <1>r, <1>k, <1>t DEF StoredWasProved
<1>11. ASSUME NEW k \in Calls, EnableAnswer(k) \/ DisableAnswer(k)
       PROVE  TwoFactorInv'
  <2>1. /\ Running(k) /\ call' = [call EXCEPT ![k] = Free]
        /\ UNCHANGED <<secret, opening, found, drawn, proved, crossed>>
        /\ page' \in {"disabled", "setup", "enabled"} /\ pending' \in Secrets \cup {NoSecret}
    BY <1>11 DEF EnableAnswer, DisableAnswer
  <2>2. ~crossed' => (page' = "enabled" <=> secret' # NoSecret)
    BY <1>11, <2>1, <1>r, <1>k DEF EnableAnswer, DisableAnswer, Between
  <2>3. Free.kind = "free"
    BY DEF Free
  <2> QED
    BY <2>1, <2>2, <2>3, <1>r, <1>t DEF StoredWasProved
<1>12. CASE UNCHANGED twoFactorVars
  BY <1>12, <1>p DEF twoFactorVars, Unopened, SomeRunning, Running, TwoFactorShown
<1> QED
  BY <1>1, <1>2, <1>3, <1>4, <1>5, <1>6, <1>7, <1>8, <1>9, <1>10, <1>11, <1>12
  DEF TwoFactorNext, Works

(* The account never asks codes of a secret whose own code was not typed.    *)
THEOREM SecondFactorProved == TwoFactorSpec => [](StoredWasProved /\ TwoFactorShown)
<1>1. TwoFactorInv => StoredWasProved /\ TwoFactorShown
  BY DEF TwoFactorInv
<1> QED
  BY InitTwoFactor, NextTwoFactor, <1>1, PTL DEF TwoFactorSpec

-----------------------------------------------------------------------------
(* ProfileForm.                                                              *)

UserRow ==
  [name : Names \cup {Empty}, email : Emails \cup {Empty}, language : Languages,
   show : BOOLEAN]

Writing ==
  [kind : {"identity", "language"}, stage : {"check", "write", "reread", "failed"},
   name : Names \cup {Empty}, email : Emails \cup {Empty}, language : Languages,
   show : BOOLEAN, password : {"none", "wrong", "right"}]
Toggling == [kind : {"toggle"}, stage : {"write", "reread", "failed"}, show : BOOLEAN]
RowAnswers == [kind : {"identity", "language", "toggle"}, stage : {"answer"}, row : UserRow]
SaveRecord == Writing \cup Toggling \cup RowAnswers

FormType ==
  /\ user \in UserRow /\ loaded \in UserRow
  /\ load \in {"read", "answer", "done", "failed"}
  /\ form \in [name : Names \cup {Empty}, email : Emails \cup {Empty}]
  /\ saved \in [name : Names \cup {Empty}, email : Emails \cup {Empty}]
  /\ switch \in BOOLEAN /\ pref \in BOOLEAN
  /\ selected \in Languages
  /\ save \in [Saves -> {Ready} \cup SaveRecord]
  /\ doubt \in BOOLEAN /\ errors \in Nat

(* A thread past the check carries an address that was vouched for.          *)
CarriedEarned ==
  \A t \in Saves : At(t, "write") /\ save[t].kind # "toggle" => save[t].email \in earned

(* The page shows what is stored; the switch too, if no statement failed.    *)
Settled ==
  /\ saved = Identity(user) /\ spoken = user.language
  /\ errors = 0 => pref = user.show /\ switch = user.show

(* What one thread, alone, has done to the row so far and still owes to the  *)
(* page: before its write the page is settled but for a switch just flipped, *)
(* after it each kind is behind in what its answer will set.                 *)
Under(s) ==
  /\ s.stage \in {"check", "write", "failed"} =>
       /\ saved = Identity(user) /\ spoken = user.language
       /\ errors = 0 => pref = user.show
       /\ errors = 0 /\ s.kind # "toggle" => switch = user.show
       /\ s.kind = "toggle" /\ s.stage = "failed" => errors # 0
  /\ s.stage \in {"check", "write"} =>
       /\ s.kind = "language" => saved.name = s.name /\ saved.email = s.email
       /\ errors = 0 => s.show = switch
  /\ s.stage \in {"reread", "answer"} =>
       /\ errors = 0 => switch = user.show
       /\ s.kind \in {"language", "toggle"} => saved = Identity(user)
       /\ s.kind = "language" /\ errors = 0 => pref = user.show
       /\ s.kind = "toggle" => spoken = user.language
  /\ s.stage = "answer" => s.row = user

OneSave ==
  ~doubt =>
    /\ \A t, o \in Saves : Saving(t) /\ Saving(o) => t = o
    /\ load \in {"read", "answer"} => \A t \in Saves : ~Saving(t)
    /\ load = "answer" => loaded = user
    /\ load = "done" =>
         /\ (\A t \in Saves : ~Saving(t)) => Settled
         /\ \A t \in Saves : Saving(t) => Under(save[t])

FormInv == FormType /\ EmailEarned /\ CarriedEarned /\ OneSave

LEMMA InitForm == FormInit => FormInv
<1> SUFFICES ASSUME FormInit PROVE FormInv
  OBVIOUS
<1>1. /\ user \in UserRow /\ loaded = user /\ load = "read" /\ earned = {user.email}
      /\ save = [t \in Saves |-> Ready]
  BY DEF FormInit, UserRow
<1>2. FormType
  BY <1>1 DEF FormInit, FormType, NoIdentity
<1>3. \A t \in Saves : ~Saving(t)
  BY <1>1 DEF Saving
<1> QED
  BY <1>1, <1>2, <1>3 DEF FormInv, EmailEarned, CarriedEarned, OneSave, At

LEMMA NextForm == FormInv /\ [FormNext]_formVars => FormInv'
<1> SUFFICES ASSUME FormInv, [FormNext]_formVars PROVE FormInv'
  OBVIOUS
<1> USE DEF FormInv
<1>ty. FormType
  OBVIOUS
<1>s. ASSUME NEW t \in Saves
      PROVE  /\ Saving(t) <=> save[t] \in SaveRecord
             /\ Saving(t) /\ save[t].stage = "check" => save[t] \in Writing
             /\ Saving(t) /\ save[t].stage = "answer" => save[t] \in RowAnswers
             /\ Saving(t) /\ save[t].kind = "toggle" /\ save[t].stage # "answer"
                  => save[t] \in Toggling
             /\ Saving(t) /\ save[t].kind # "toggle" /\ save[t].stage # "answer"
                  => save[t] \in Writing
  <2>1. save[t] \in {Ready} \cup SaveRecord
    BY DEF FormType
  <2>2. Ready \notin SaveRecord
    BY DEF Ready, SaveRecord, Writing, Toggling, RowAnswers
  <2> QED
    BY <2>1, <2>2 DEF Saving, SaveRecord, Writing, Toggling, RowAnswers
(* No thread moves: the page does, or nothing.                               *)
<1>p. ASSUME UNCHANGED <<user, save, earned, doubt>>, FormType',
             ~doubt /\ load' \in {"read", "answer"} => \A t \in Saves : ~Saving(t),
             ~doubt /\ load' = "answer" => loaded' = user,
             ~doubt /\ load' = "done" /\ (\A t \in Saves : ~Saving(t)) => Settled',
             ~doubt /\ load' = "done" =>
               load = "done" /\ UNCHANGED <<saved, spoken, pref, switch, errors>>
      PROVE  FormInv'
  <2>1. \A t \in Saves : (Saving(t)' <=> Saving(t)) /\ save'[t] = save[t]
    BY <1>p DEF Saving
  <2>2. CarriedEarned' /\ EmailEarned'
    BY <1>p, <2>1 DEF CarriedEarned, EmailEarned, At
  <2>3. ASSUME NEW t \in Saves, ~doubt, load' = "done", Saving(t)
        PROVE  Under(save[t])'
    <3>1. Under(save[t])
      BY <1>p, <2>3 DEF OneSave
    <3> QED
      BY <1>p, <2>3, <3>1 DEF Under, Identity
  <2>4. OneSave'
    BY <1>p, <2>1, <2>3 DEF OneSave
  <2> QED
    BY <1>p, <2>2, <2>4
(* Thread t goes on as s.                                                    *)
<1>t. ASSUME NEW t \in Saves, NEW s \in {Ready} \cup SaveRecord,
             save' = [save EXCEPT ![t] = s], FormType', earned \subseteq earned',
             user'.email \in earned',
             s \in Writing /\ s.stage = "write" => s.email \in earned',
             ~doubt' => /\ ~doubt /\ load' \in {"done", "failed"}
                        /\ \A o \in Saves \ {t} : ~Saving(o),
             ~doubt' /\ load' = "done" /\ s = Ready => Settled',
             ~doubt' /\ load' = "done" /\ s # Ready => Under(s)'
      PROVE  FormInv'
  <2>1. /\ save'[t] = s /\ (Saving(t)' <=> s # Ready)
        /\ \A o \in Saves \ {t} : save'[o] = save[o] /\ (Saving(o)' <=> Saving(o))
    BY <1>t DEF Saving, FormType
  <2>2. EmailEarned'
    BY <1>t DEF EmailEarned
  <2>3. ASSUME NEW o \in Saves, At(o, "write")', save'[o].kind # "toggle"
        PROVE  save'[o].email \in earned'
    <3>1. CASE o = t
      BY <1>t, <2>1, <2>3, <3>1 DEF At, SaveRecord, Writing, Toggling, RowAnswers
    <3>2. CASE o # t
      BY <1>t, <2>1, <2>3, <3>2 DEF At, CarriedEarned
    <3> QED
      BY <3>1, <3>2
  <2>4. OneSave'
    <3> SUFFICES ASSUME ~doubt' PROVE OneSave'
      BY DEF OneSave
    <3>1. \A o \in Saves \ {t} : ~Saving(o)'
      BY <1>t, <2>1
    <3>2. load' = "done" /\ Saving(t)' => Under(save[t])'
      <4>1. Under(save[t])' <=> Under(s)'
        BY <2>1 DEF Under
      <4> QED
        BY <1>t, <2>1, <4>1
    <3> QED
      BY <1>t, <2>1, <3>1, <3>2 DEF OneSave
  <2> QED
    BY <1>t, <2>2, <2>3, <2>4 DEF CarriedEarned
<1>1. CASE get_user_profile
  <2>1. /\ load = "read"
        /\ UNCHANGED <<user, form, saved, switch, selected, applied, spoken, pref, save, earned,
                       doubt, inputs>>
        /\ \/ load' = "answer" /\ loaded' = user /\ errors' = errors
           \/ load' = "failed" /\ loaded' = loaded /\ errors' = errors + 1
    BY <1>1 DEF get_user_profile, Error
  <2>2. FormType'
    BY <2>1, <1>ty DEF FormType
  <2> QED
    BY <2>1, <2>2, <1>p DEF OneSave
<1>st. ASSUME NEW t \in Saves, NEW what, NEW alone \in BOOLEAN, Start(t, what, alone)
       PROVE  /\ save' = [save EXCEPT ![t] = what] /\ ~Saving(t)
              /\ doubt' \in BOOLEAN
              /\ ~doubt' => ~doubt /\ alone /\ \A o \in Saves : ~Saving(o)
  BY <1>st, <1>ty DEF Start, FormType
<1>2. CASE ShowProfile
  <2>1. /\ load = "answer" /\ load' = "done"
        /\ spoken' = loaded.language /\ selected' = loaded.language
        /\ form' = Identity(loaded) /\ saved' = Identity(loaded)
        /\ switch' = loaded.show /\ pref' = loaded.show
        /\ UNCHANGED <<user, loaded, earned, inputs, errors>>
        /\ \/ UNCHANGED <<save, doubt>>
           \/ \E t \in Saves :
                Start(t, [kind |-> "toggle", stage |-> "write", show |-> loaded.show], TRUE)
    BY <1>2 DEF ShowProfile
  <2>2. ~doubt => loaded = user /\ \A t \in Saves : ~Saving(t)
    BY <2>1 DEF OneSave
  <2>3. ASSUME save' \in [Saves -> {Ready} \cup SaveRecord], doubt' \in BOOLEAN
        PROVE  FormType'
    BY <2>1, <2>3, <1>ty DEF FormType, UserRow, Identity
  <2>4. ~doubt => Settled'
    BY <2>1, <2>2 DEF Settled, Identity
  <2>5. CASE UNCHANGED <<save, doubt>>
    <3>1. FormType' /\ EmailEarned' /\ CarriedEarned'
      BY <2>1, <2>3, <2>5, <1>ty DEF FormType, EmailEarned, CarriedEarned, At, Saving
    <3>2. \A t \in Saves : Saving(t)' <=> Saving(t)
      BY <2>5 DEF Saving
    <3> QED
      BY <2>1, <2>2, <2>4, <2>5, <3>1, <3>2 DEF OneSave
  <2>6. ASSUME NEW t \in Saves,
               Start(t, [kind |-> "toggle", stage |-> "write", show |-> loaded.show], TRUE)
        PROVE  FormInv'
    <3>1. PICK s \in Toggling : /\ s = [kind |-> "toggle", stage |-> "write", show |-> loaded.show]
                                /\ s # Ready
      <4>1. loaded.show \in BOOLEAN
        BY <1>ty DEF FormType, UserRow
      <4>2. [kind |-> "toggle", stage |-> "write", show |-> loaded.show] \in Toggling
        BY <4>1 DEF Toggling
      <4>3. [kind |-> "toggle", stage |-> "write", show |-> loaded.show] # Ready
        BY DEF Ready
      <4> QED
        BY <4>2, <4>3
    <3>2. /\ save' = [save EXCEPT ![t] = s] /\ doubt' \in BOOLEAN
          /\ ~doubt' => ~doubt /\ \A o \in Saves : ~Saving(o)
      BY <2>6, <3>1, <1>st
    <3>3. s \in SaveRecord /\ s.kind = "toggle" /\ s.stage = "write" /\ s.show = loaded.show
          /\ s \notin Writing
      BY <3>1 DEF SaveRecord, Toggling, Writing
    <3>4. FormType'
      BY <2>3, <3>2, <3>3, <1>ty DEF FormType
    <3>5. ~doubt' => Under(s)'
      BY <2>1, <2>2, <2>4, <3>2, <3>3 DEF Under, Settled
    <3> QED
      BY <2>1, <3>1, <3>2, <3>3, <3>4, <3>5, <1>t DEF EmailEarned
  <2> QED
    BY <2>1, <2>5, <2>6
<1>3. CASE Type
  <2>1. /\ UNCHANGED <<user, loading, load, loaded, saved, switch, selected, applied, spoken,
                       pref, save, earned, doubt, errors>>
        /\ \/ \E n \in Names \cup {Empty} : form' = [form EXCEPT !.name = n]
           \/ \E a \in Emails \cup {Empty} : form' = [form EXCEPT !.email = a]
    BY <1>3 DEF Type
  <2>2. FormType'
    BY <2>1, <1>ty DEF FormType
  <2>3. Settled' <=> Settled
    BY <2>1 DEF Settled, Identity
  <2> QED
    BY <2>1, <2>2, <2>3, <1>p DEF OneSave
<1>al. Alone \in BOOLEAN
  BY DEF Alone
<1>4. ASSUME NEW t \in Saves, NEW password \in {"none", "wrong", "right"},
             SaveIdentity(t, password)
      PROVE  FormInv'
  <2> DEFINE c == [kind |-> "identity", stage |-> "check", name |-> form.name,
                   email |-> form.email, language |-> selected, show |-> switch,
                   password |-> password]
  <2>1. UNCHANGED <<user, pageVars, earned, errors>> /\ Start(t, c, Alone)
    BY <1>4 DEF SaveIdentity
  <2>c. c \in Writing /\ c # Ready
    <3>1. /\ form.name \in Names \cup {Empty} /\ form.email \in Emails \cup {Empty}
          /\ selected \in Languages /\ switch \in BOOLEAN
      BY <1>ty DEF FormType
    <3> QED
      BY <3>1 DEF Writing, Ready
  <2>2. PICK s \in Writing : s = c /\ s # Ready
    BY <2>c
  <2>3. /\ s \in SaveRecord /\ s.kind = "identity" /\ s.stage = "check" /\ s.show = switch
    BY <2>2 DEF SaveRecord
  <2> HIDE DEF c
  <2>4. /\ save' = [save EXCEPT ![t] = s] /\ doubt' \in BOOLEAN
        /\ ~doubt' => ~doubt /\ Alone /\ \A o \in Saves : ~Saving(o)
    BY <2>1, <2>2, <1>st, <1>al
  <2>5. FormType'
    BY <2>1, <2>3, <2>4, <1>ty DEF FormType, pageVars
  <2>6. ~doubt' /\ load' = "done" => Under(s)'
    BY <2>1, <2>3, <2>4 DEF OneSave, Under, Settled, Identity, pageVars
  <2> QED
    BY <2>1, <2>2, <2>3, <2>4, <2>5, <2>6, <1>t DEF Alone, EmailEarned, pageVars
<1>5. ASSUME NEW t \in Saves, FlipSwitch(t)
      PROVE  FormInv'
  <2>1. /\ UNCHANGED <<user, loading, load, loaded, form, saved, selected, applied, spoken, pref,
                       earned, errors>>
        /\ switch' = ~switch
        /\ Start(t, [kind |-> "toggle", stage |-> "write", show |-> switch'], Alone)
    BY <1>5 DEF FlipSwitch
  <2>2. PICK s \in Toggling : /\ s = [kind |-> "toggle", stage |-> "write", show |-> switch']
                              /\ s # Ready
    <3>1. switch' \in BOOLEAN
      BY <2>1
    <3>2. [kind |-> "toggle", stage |-> "write", show |-> switch'] \in Toggling
      BY <3>1 DEF Toggling
    <3>3. [kind |-> "toggle", stage |-> "write", show |-> switch'] # Ready
      BY DEF Ready
    <3> QED
      BY <3>2, <3>3
  <2>3. /\ s \in SaveRecord /\ s.kind = "toggle" /\ s.stage = "write" /\ s.show = switch'
        /\ s \notin Writing
    BY <2>2 DEF SaveRecord, Toggling, Writing
  <2>4. /\ save' = [save EXCEPT ![t] = s] /\ doubt' \in BOOLEAN
        /\ ~doubt' => ~doubt /\ Alone /\ \A o \in Saves : ~Saving(o)
    BY <2>1, <2>2, <1>st, <1>al
  <2>5. FormType'
    BY <2>1, <2>3, <2>4, <1>ty DEF FormType
  <2>6. ~doubt' /\ load' = "done" => Under(s)'
    BY <2>1, <2>3, <2>4 DEF OneSave, Under, Settled, Identity
  <2> QED
    BY <2>1, <2>2, <2>3, <2>4, <2>5, <2>6, <1>t DEF Alone, EmailEarned
<1>6. ASSUME NEW t \in Saves, NEW language \in Languages, ChooseLanguage(t, language)
      PROVE  FormInv'
  <2> DEFINE c == [kind |-> "language", stage |-> "check", name |-> saved.name,
                   email |-> saved.email, language |-> language, show |-> switch,
                   password |-> "none"]
  <2>1. /\ UNCHANGED <<user, loading, load, loaded, form, saved, switch, spoken, pref, earned,
                       errors>>
        /\ selected' = language
        /\ UNCHANGED <<save, doubt>> \/ Start(t, c, Alone)
    BY <1>6 DEF ChooseLanguage, Carried
  <2>2. CASE UNCHANGED <<save, doubt>>
    <3>1. FormType'
      BY <2>1, <2>2, <1>ty DEF FormType
    <3>2. Settled' <=> Settled
      BY <2>1 DEF Settled, Identity
    <3> QED
      BY <2>1, <2>2, <3>1, <3>2, <1>p DEF OneSave
  <2>3. CASE Start(t, c, Alone)
    <3>1. c \in Writing /\ c # Ready
      <4>1. /\ saved.name \in Names \cup {Empty} /\ saved.email \in Emails \cup {Empty}
            /\ switch \in BOOLEAN
        BY <1>ty DEF FormType
      <4> QED
        BY <4>1 DEF Writing, Ready
    <3>2. PICK s \in Writing : s = c /\ s # Ready
      BY <3>1
    <3>3. /\ s \in SaveRecord /\ s.kind = "language" /\ s.stage = "check" /\ s.show = switch
          /\ s.name = saved.name /\ s.email = saved.email
      BY <3>2 DEF SaveRecord
    <3> HIDE DEF c
    <3>4. /\ save' = [save EXCEPT ![t] = s] /\ doubt' \in BOOLEAN
          /\ ~doubt' => ~doubt /\ Alone /\ \A o \in Saves : ~Saving(o)
      BY <2>3, <3>2, <1>st, <1>al
    <3>5. FormType'
      BY <2>1, <3>3, <3>4, <1>ty DEF FormType
    <3>6. ~doubt' /\ load' = "done" => Under(s)'
      BY <2>1, <3>3, <3>4 DEF OneSave, Under, Settled, Identity
    <3> QED
      BY <2>1, <3>2, <3>3, <3>4, <3>5, <3>6, <1>t DEF Alone, EmailEarned
  <2> QED
    BY <2>1, <2>2, <2>3
(* A thread that runs undoubted: the load is over, no other runs.            *)
<1>u. ASSUME NEW t \in Saves, Saving(t), ~doubt
      PROVE  /\ load \in {"done", "failed"} /\ \A o \in Saves \ {t} : ~Saving(o)
             /\ load = "done" => Under(save[t])
  BY <1>u, <1>ty DEF OneSave, FormType
(* A statement failed, the thread will say so.                               *)
<1>e. ASSUME NEW t \in Saves, At(t, "check") \/ At(t, "write"), Fails(t),
             UNCHANGED <<user, pageVars, earned, doubt, inputs>>
      PROVE  FormInv'
  <2>1. Saving(t) /\ save[t] \in Writing \cup Toggling /\ errors' = errors + 1
        /\ save[t].stage \in {"check", "write"}
    BY <1>e, <1>s DEF At, Fails, Error
  <2>2. PICK s \in Writing \cup Toggling : s = [save[t] EXCEPT !.stage = "failed"]
    BY <2>1 DEF Writing, Toggling
  <2>3. /\ save' = [save EXCEPT ![t] = s] /\ s.stage = "failed" /\ s # Ready
        /\ s.kind = save[t].kind /\ s \in SaveRecord
    BY <1>e, <2>1, <2>2 DEF Fails, Writing, Toggling, SaveRecord, Ready
  <2>4. FormType'
    BY <1>e, <2>1, <2>3, <1>ty DEF FormType, pageVars
  <2>5. ~doubt /\ load' = "done" => Under(s)'
    BY <1>e, <2>1, <2>3, <1>u, <1>ty DEF Under, Identity, pageVars, FormType
  <2> QED
    BY <1>e, <2>1, <2>3, <2>4, <2>5, <1>u, <1>t DEF pageVars, EmailEarned
<1>7. ASSUME NEW t \in Saves, CheckEmail(t)
      PROVE  FormInv'
  <2>0. CASE Fails(t) /\ UNCHANGED earned
    BY <1>7, <2>0, <1>e DEF CheckEmail
  <2>1. CASE ~(Fails(t) /\ UNCHANGED earned)
    <3>1. /\ Saving(t) /\ save[t].stage = "check" /\ save[t] \in Writing
          /\ UNCHANGED <<user, pageVars, errors, doubt, inputs>>
          /\ save' = [save EXCEPT ![t].stage = IF Verified(t) THEN "write" ELSE "failed"]
          /\ earned' = earned \cup {a \in {save[t].email} : save[t].password = "right"}
      BY <1>7, <2>1, <1>s DEF CheckEmail, At
    <3>2. PICK s \in Writing :
             s = [save[t] EXCEPT !.stage = IF Verified(t) THEN "write" ELSE "failed"]
      BY <3>1 DEF Writing
    <3>3. /\ save' = [save EXCEPT ![t] = s] /\ s # Ready /\ s \in SaveRecord
          /\ s.stage = IF Verified(t) THEN "write" ELSE "failed"
          /\ s.kind = save[t].kind /\ s.show = save[t].show
          /\ s.name = save[t].name /\ s.email = save[t].email
      BY <3>1, <3>2 DEF Writing, SaveRecord, Ready
    <3>4. s.stage = "write" => s.email \in earned'
      BY <3>1, <3>3 DEF Verified, EmailEarned
    <3>5. FormType'
      BY <3>1, <3>3, <1>ty DEF FormType, pageVars
    <3>6. ~doubt /\ load' = "done" => Under(s)'
      BY <3>1, <3>3, <1>u DEF Under, Identity, pageVars, Writing
    <3> QED
      BY <3>1, <3>3, <3>4, <3>5, <3>6, <1>u, <1>t DEF pageVars, EmailEarned
  <2> QED
    BY <2>0, <2>1
<1>8. ASSUME NEW t \in Saves, update_user_profile(t)
      PROVE  FormInv'
  <2>0. CASE Fails(t) /\ UNCHANGED user
    BY <1>8, <2>0, <1>e DEF update_user_profile
  <2>1. CASE ~(Fails(t) /\ UNCHANGED user)
    <3>1. /\ Saving(t) /\ save[t].stage = "write" /\ save[t] \in Writing
          /\ UNCHANGED <<pageVars, errors, earned, doubt, inputs>>
          /\ save' = [save EXCEPT ![t].stage = "reread"]
          /\ user' = [name |-> save[t].name, email |-> save[t].email,
                      language |-> save[t].language, show |-> save[t].show]
      BY <1>8, <2>1, <1>s DEF update_user_profile, At
    <3>2. PICK s \in Writing : s = [save[t] EXCEPT !.stage = "reread"]
      BY <3>1 DEF Writing
    <3>3. /\ save' = [save EXCEPT ![t] = s] /\ s # Ready /\ s \in SaveRecord
          /\ s.stage = "reread" /\ s.kind = save[t].kind
      BY <3>1, <3>2 DEF Writing, SaveRecord, Ready
    <3>4. user'.email \in earned
      BY <3>1 DEF CarriedEarned, At, Writing
    <3>5. FormType'
      BY <3>1, <3>3, <1>ty DEF FormType, pageVars, UserRow, Writing
    <3>6. ~doubt /\ load' = "done" => Under(s)'
      <4>1. SUFFICES ASSUME ~doubt, load' = "done" PROVE Under(s)'
        OBVIOUS
      <4>2. Under(save[t])
        BY <3>1, <4>1, <1>u DEF pageVars
      <4>3. /\ errors' = 0 => switch' = user'.show
            /\ errors' = 0 /\ s.kind = "language" => pref' = user'.show
        BY <3>1, <3>3, <4>2 DEF Under, pageVars, Writing
      <4>4. s.kind = "language" => saved' = Identity(user')
        BY <3>1, <3>3, <4>2, <1>ty DEF Under, pageVars, Identity, FormType
      <4> QED
        BY <3>1, <3>3, <4>3, <4>4 DEF Under, Writing
    <3> QED
      BY <3>1, <3>3, <3>4, <3>5, <3>6, <1>u, <1>t DEF pageVars
  <2> QED
    BY <2>0, <2>1
<1>9. ASSUME NEW t \in Saves, update_show_passwords_in_edit(t)
      PROVE  FormInv'
  <2>0. CASE Fails(t) /\ UNCHANGED user
    BY <1>9, <2>0, <1>e DEF update_show_passwords_in_edit
  <2>1. CASE ~(Fails(t) /\ UNCHANGED user)
    <3>1. /\ Saving(t) /\ save[t].stage = "write" /\ save[t] \in Toggling
          /\ UNCHANGED <<pageVars, errors, earned, doubt, inputs>>
          /\ save' = [save EXCEPT ![t].stage = "reread"]
          /\ user' = [user EXCEPT !.show = save[t].show]
      BY <1>9, <2>1, <1>s DEF update_show_passwords_in_edit, At
    <3>2. PICK s \in Toggling : s = [save[t] EXCEPT !.stage = "reread"]
      BY <3>1 DEF Toggling
    <3>3. /\ save' = [save EXCEPT ![t] = s] /\ s # Ready /\ s \in SaveRecord /\ s \notin Writing
          /\ s.stage = "reread" /\ s.kind = "toggle"
      BY <3>1, <3>2 DEF Toggling, Writing, SaveRecord, Ready
    <3>4. /\ user'.email = user.email /\ user'.name = user.name
          /\ user'.language = user.language /\ user'.show = save[t].show
          /\ user' \in UserRow
      BY <3>1, <1>ty DEF FormType, UserRow, Toggling
    <3>5. FormType'
      BY <3>1, <3>3, <3>4, <1>ty DEF FormType, pageVars
    <3>6. ~doubt /\ load' = "done" => Under(s)'
      BY <3>1, <3>3, <3>4, <1>u DEF Under, Identity, pageVars, Toggling
    <3> QED
      <4>1. user'.email \in earned'
        BY <3>1, <3>4 DEF EmailEarned
      <4>2. ~doubt' => /\ ~doubt /\ load' \in {"done", "failed"}
                       /\ \A o \in Saves \ {t} : ~Saving(o)
        BY <3>1, <1>u DEF pageVars
      <4>3. ~doubt' /\ load' = "done" => Under(s)'
        BY <3>1, <3>6
      <4> QED
        BY <3>1, <3>3, <3>5, <4>1, <4>2, <4>3, <1>t
  <2> QED
    BY <2>0, <2>1
<1>10. ASSUME NEW t \in Saves, Reread(t)
       PROVE  FormInv'
  <2>0. /\ Saving(t) /\ save[t].stage = "reread" /\ save[t] \in Writing \cup Toggling
        /\ UNCHANGED <<user, pageVars, earned, inputs>>
    BY <1>10, <1>s DEF Reread, At
  <2>1. CASE UNCHANGED <<doubt, errors>>
             /\ save' = [save EXCEPT ![t] = [kind |-> @.kind, stage |-> "answer", row |-> user]]
    <3>2. PICK s \in RowAnswers : s = [kind |-> save[t].kind, stage |-> "answer", row |-> user]
      BY <2>0, <1>ty DEF RowAnswers, FormType, Writing, Toggling
    <3>3. /\ save' = [save EXCEPT ![t] = s] /\ s # Ready /\ s \in SaveRecord /\ s \notin Writing
          /\ s.stage = "answer" /\ s.kind = save[t].kind /\ s.row = user
      BY <2>1, <3>2 DEF RowAnswers, Writing, SaveRecord, Ready
    <3>5. FormType'
      BY <2>0, <2>1, <3>3, <1>ty DEF FormType, pageVars
    <3>6. ~doubt /\ load' = "done" => Under(s)'
      BY <2>0, <2>1, <3>3, <1>u DEF Under, Identity, pageVars
    <3> QED
      BY <2>0, <2>1, <3>3, <3>5, <3>6, <1>u, <1>t DEF pageVars, EmailEarned
  <2>2. CASE Fails(t) /\ doubt' = TRUE
    <3>2. PICK s \in Writing \cup Toggling : s = [save[t] EXCEPT !.stage = "failed"]
      BY <2>0 DEF Writing, Toggling
    <3>3. /\ save' = [save EXCEPT ![t] = s] /\ s # Ready /\ s \in SaveRecord
          /\ s.stage = "failed" /\ errors' = errors + 1
      BY <2>0, <2>2, <3>2 DEF Fails, Error, Writing, Toggling, SaveRecord, Ready
    <3>5. FormType'
      BY <2>0, <2>2, <3>3, <1>ty DEF FormType, pageVars
    <3> QED
      BY <2>0, <2>2, <3>3, <3>5, <1>t DEF pageVars, EmailEarned
  <2> QED
    BY <1>10, <2>1, <2>2 DEF Reread
<1>11. ASSUME NEW t \in Saves,
              \/ IdentityAnswer(t) \/ LanguageAnswer(t) \/ SwitchAnswer(t) \/ FailedAnswer(t)
       PROVE  FormInv'
  <2>1. /\ Saving(t) /\ save' = [save EXCEPT ![t] = Ready]
        /\ UNCHANGED <<user, load, loaded, form, switch, selected, earned, doubt, inputs, errors>>
        /\ save[t].stage \in {"answer", "failed"}
    BY <1>11 DEF IdentityAnswer, LanguageAnswer, SwitchAnswer, FailedAnswer, Ends, Unmoved, At
  <2>2. save[t].stage = "answer" => save[t] \in RowAnswers /\ save[t].row \in UserRow
    BY <2>1, <1>s DEF RowAnswers
  <2>3. /\ saved' \in [name : Names \cup {Empty}, email : Emails \cup {Empty}]
        /\ pref' \in BOOLEAN
    BY <1>11, <2>1, <2>2, <1>ty
    DEF IdentityAnswer, LanguageAnswer, SwitchAnswer, FailedAnswer, At, Identity, UserRow, FormType
  <2>4. FormType'
    BY <2>1, <2>3, <1>ty DEF FormType
  <2>5. ~doubt /\ load = "done" => Settled'
    <3> SUFFICES ASSUME ~doubt, load = "done" PROVE Settled'
      OBVIOUS
    <3>1. Under(save[t])
      BY <2>1, <1>u
    <3>2. CASE IdentityAnswer(t)
      BY <2>1, <3>1, <3>2 DEF IdentityAnswer, Settled, Under, At
    <3>3. CASE LanguageAnswer(t)
      BY <2>1, <3>1, <3>3 DEF LanguageAnswer, Settled, Under, At, Identity
    <3>4. CASE SwitchAnswer(t)
      BY <2>1, <3>1, <3>4 DEF SwitchAnswer, Settled, Under, At, Identity
    <3>5. CASE FailedAnswer(t)
      BY <2>1, <3>1, <3>5 DEF FailedAnswer, Settled, Under, At, Identity
    <3> QED
      BY <1>11, <3>2, <3>3, <3>4, <3>5
  <2>6. Ready \notin Writing
    BY DEF Ready, Writing
  <2> QED
    BY <2>1, <2>4, <2>5, <2>6, <1>u, <1>t DEF EmailEarned
<1>12. CASE UNCHANGED formVars
  <2>1. FormType' /\ (Settled' <=> Settled)
    BY <1>12, <1>ty DEF FormType, Settled, Identity, formVars
  <2> QED
    BY <1>12, <2>1, <1>p DEF formVars, OneSave
<1> QED
  BY <1>1, <1>2, <1>3, <1>4, <1>5, <1>6, <1>7, <1>8, <1>9, <1>10, <1>11, <1>12
  DEF FormNext, SaveStep

(* Whatever saves overlap or fail, no address enters the account that nobody *)
(* vouched for.                                                              *)
THEOREM AddressVouchedFor == FormSpec => [](EmailEarned /\ FormTrue)
<1>1. FormInv => EmailEarned /\ FormTrue
  BY DEF FormInv, FormTrue, OneSave, Settled
<1> QED
  BY InitForm, NextForm, <1>1, PTL DEF FormSpec

\* The identity a change of language carries is the stored one when the load of
\* the page did not fail and no save overlapped it: its write changes the
\* language only (core.rs, the change of language).
LanguageAlone ==
  [][load = "done" /\ ~doubt =>
       \A t \in Saves :
          At(t, "write") /\ save[t].kind = "language" /\ user' # user =>
              Identity(user') = Identity(user)]_formVars

(* A change of language leaves the name and the address alone.               *)
THEOREM LanguageLeavesIdentity == FormSpec => LanguageAlone
<1>1. FormInv /\ [FormNext]_formVars =>
        [load = "done" /\ ~doubt =>
           \A t \in Saves :
              At(t, "write") /\ save[t].kind = "language" /\ user' # user =>
                  Identity(user') = Identity(user)]_formVars
  <2> SUFFICES ASSUME FormInv, FormNext, load = "done", ~doubt, NEW t \in Saves,
                      At(t, "write"), save[t].kind = "language", user' # user
               PROVE  Identity(user') = Identity(user)
    OBVIOUS
  <2>p. ~get_user_profile /\ ~ShowProfile /\ ~Type
    BY DEF get_user_profile, ShowProfile, Type
  <2>u. ASSUME NEW o \in Saves
        PROVE  /\ \A password : ~SaveIdentity(o, password)
               /\ \A language : ~ChooseLanguage(o, language)
               /\ ~FlipSwitch(o) /\ ~CheckEmail(o) /\ ~Reread(o)
    BY DEF SaveIdentity, ChooseLanguage, FlipSwitch, CheckEmail, Reread
  <2>a. ASSUME NEW o \in Saves
        PROVE  ~IdentityAnswer(o) /\ ~LanguageAnswer(o) /\ ~SwitchAnswer(o) /\ ~FailedAnswer(o)
    BY DEF IdentityAnswer, LanguageAnswer, SwitchAnswer, FailedAnswer, Unmoved
  <2>1. PICK o \in Saves : update_user_profile(o) \/ update_show_passwords_in_edit(o)
    BY <2>p, <2>u, <2>a DEF FormNext, SaveStep
  <2>2. At(o, "write")
    BY <2>1 DEF update_user_profile, update_show_passwords_in_edit
  <2>3. o = t
    BY <2>2 DEF FormInv, OneSave, At
  <2>4. update_user_profile(t)
    BY <2>1, <2>3 DEF update_show_passwords_in_edit
  <2>5. user'.name = save[t].name /\ user'.email = save[t].email
    BY <2>4 DEF update_user_profile
  <2>6. Under(save[t])
    BY DEF FormInv, OneSave, At
  <2>7. /\ saved = Identity(user)
        /\ saved.name = save[t].name /\ saved.email = save[t].email
    BY <2>6 DEF Under, At
  <2> QED
    BY <2>5, <2>7 DEF Identity
<1> QED
  BY InitForm, NextForm, <1>1, PTL DEF FormSpec, LanguageAlone

(* The two halves of the page. *)

\* With nothing under way and nothing overlapped the whole page shows what is stored.
THEOREM PageShowsStored == FormSpec /\ TwoFactorSpec => []PageTrue
<1>1. FormTrue /\ TwoFactorShown => PageTrue
  BY DEF PageTrue
<1> QED
  BY <1>1, AddressVouchedFor, SecondFactorProved, PTL

-----------------------------------------------------------------------------
(* VaultAccess.                                                            *)

Roles == {"user", "admin"}
VaultRow == [owner : People, deleted : BOOLEAN]
Rights == {"none", "owner", "read", "write", "admin"}
Stages == {"vault", "user", "row", "insert", "envelope", "trash", "count", "order", "done"}
RightAnswers == {"none", "missing", "error", "created", "denied", "no", "yes", "key", "deleted",
            "sorted"}

TablesType ==
  /\ people \in [People -> {NoRow} \cup Roles]
  /\ vaults \in [Vaults -> {NoRow} \cup VaultRow]
  /\ teams \subseteq Teams
  /\ shares \in [Vaults \X People -> {NoRow} \cup Share]
  /\ members \in [Teams \X People -> {NoRow, "member", "leader"}]

Asking ==
  [stage : Stages, op : Operations, user : People \cup {NoRow}, vault : Vaults,
   role : {NoRow} \cup Roles, owns : BOOLEAN, answer : RightAnswers,
   roles : SUBSET ({NoRow} \cup Roles), rights : SUBSET Rights, given : SUBSET BOOLEAN]

\* A call under way has seen what holds now of its user and its vault.
UpToDate(q, pe, va, sh) ==
  UnderWay(q) /\ q.user # NoRow =>
    /\ pe[q.user] \in q.roles
    /\ Right(va, sh, q.user, q.vault) \in q.rights
    /\ Given(sh, q.vault) \in q.given

\* What a stage of a call rests on.
Grounded(q, va) ==
  /\ q.user = NoRow \/ q.op = "open as owner" => q.stage \in {"vault", "done"}
  /\ q.stage = "insert" => q.op = "create"
  /\ q.stage = "row" => q.op \in {"open", "delete", "shared with others", "sort"}
  /\ q.stage = "row" /\ q.op # "sort" => q.role \in q.roles
  /\ q.stage = "envelope" =>
       /\ q.op = "open" /\ \E right \in q.rights : right # "none"
       /\ q.owns => "owner" \in q.rights
       /\ ~q.owns => "none" \in q.rights \/ (va[q.vault] # NoRow /\ va[q.vault].owner # q.user)
  /\ q.stage = "trash" =>
       /\ q.op = "delete"
       /\ \E role \in q.roles, right \in q.rights : MayDelete(role, right)
  /\ q.stage = "count" => q.op = "shared with others" /\ "owner" \in q.rights
  /\ q.stage = "order" => q.op = "sort" /\ "owner" \in q.rights

\* The answer of a call is right for what it met.
Fits(answer, op, roles, rights, given) ==
  CASE answer = "key" -> rights # {"none"}
    [] answer = "deleted" -> \E role \in roles, right \in rights : MayDelete(role, right)
    [] answer = "denied" ->
          \E role \in roles, right \in rights :
              CASE op = "delete" -> ~MayDelete(role, right)
                [] op = "sort" -> right # "owner"
                [] OTHER -> right = "none"
    [] answer = "sorted" -> "owner" \in rights
    [] answer = "yes" -> "owner" \in rights /\ TRUE \in given
    [] answer = "no" -> rights # {"owner"} \/ FALSE \in given
    [] OTHER -> TRUE
AnsweredByRight(q) == q.stage = "done" => Fits(q.answer, q.op, q.roles, q.rights, q.given)

Sound(q, pe, va, sh) ==
  q = Nobody \/ (q \in Asking /\ UpToDate(q, pe, va, sh) /\ Grounded(q, va) /\ AnsweredByRight(q))

\* A vault is created under an identifier that no vault has and no other call creates.
Creates(q, v) == UnderWay(q) /\ q.op = "create" /\ q.vault = v
CreateAlone ==
  \A c \in Requests, v \in Vaults : Creates(request[c], v) =>
    vaults[v] = NoRow /\ \A d \in Requests \ {c} : ~Creates(request[d], v)

AccessInv ==
  /\ TablesType /\ TablesWhole
  /\ request = [c \in Requests |-> request[c]]
  /\ \A c \in Requests : Sound(request[c], people, vaults, shares)
  /\ CreateAlone

-----------------------------------------------------------------------------

LEMMA PairIs ==
  ASSUME NEW f, NEW A, NEW v \in Vaults, NEW p \in People,
         f \in [Vaults \X People -> A]
  PROVE  f[<<v, p>>] \in A
OBVIOUS

LEMMA RightIs ==
  ASSUME NEW va \in [Vaults -> {NoRow} \cup VaultRow],
         NEW sh \in [Vaults \X People -> {NoRow} \cup Share],
         NEW p \in People, NEW v \in Vaults
  PROVE  Right(va, sh, p, v) \in Rights
<1>1. sh[<<v, p>>] \in {NoRow} \cup Share
  BY PairIs
<1>2. sh[<<v, p>>] # NoRow => sh[<<v, p>>].role \in {"read", "write", "admin"}
  BY <1>1 DEF Share
<1> QED
  BY <1>2 DEF Right, Rights

LEMMA GivenIs ==
  ASSUME NEW sh, NEW v PROVE Given(sh, v) \in BOOLEAN
BY DEF Given

LEMMA UnderWayIs ==
  ASSUME NEW q \in Asking
  PROVE  /\ q # Nobody /\ (UnderWay(q) <=> q.stage # "done")
BY DEF Asking, UnderWay, Nobody, Stages

-----------------------------------------------------------------------------
(* The view. *)

RowOf(p, v) ==
  [user |-> p, vault |-> v, owner |-> vaults[v].owner,
   role |-> IF vaults[v].owner = p THEN "admin" ELSE shares[<<v, p>>].role,
   kind |-> IF vaults[v].owner = p THEN "owner"
            ELSE IF shares[<<v, p>>].team = NoRow THEN "direct_share" ELSE "team_share"]

LEMMA OwnedRowIs ==
  ASSUME NEW row, NEW p \in People, NEW v \in Vaults
  PROVE  row \in OwnedRows /\ row.user = p /\ row.vault = v
           <=> Live(v) /\ vaults[v].owner = p /\ row = RowOf(p, v)
<1>1. ASSUME row \in OwnedRows, row.user = p, row.vault = v
      PROVE  Live(v) /\ vaults[v].owner = p /\ row = RowOf(p, v)
  BY <1>1 DEF OwnedRows, RowOf
<1>2. ASSUME Live(v), vaults[v].owner = p, row = RowOf(p, v)
      PROVE  row \in OwnedRows /\ row.user = p /\ row.vault = v
  BY <1>2 DEF OwnedRows, RowOf
<1> QED
  BY <1>1, <1>2

LEMMA SharedRowIs ==
  ASSUME NEW row, NEW p \in People, NEW v \in Vaults
  PROVE  row \in SharedRows /\ row.user = p /\ row.vault = v
           <=> Live(v) /\ vaults[v].owner # p /\ shares[<<v, p>>] # NoRow /\ row = RowOf(p, v)
<1>1. ASSUME row \in SharedRows, row.user = p, row.vault = v
      PROVE  Live(v) /\ vaults[v].owner # p /\ shares[<<v, p>>] # NoRow /\ row = RowOf(p, v)
  <2>1. PICK x \in Vaults \X People :
           /\ Live(x[1]) /\ shares[x] # NoRow /\ vaults[x[1]].owner # x[2]
           /\ row = SharedRow(x[1], x[2])
    BY <1>1 DEF SharedRows
  <2>2. x[1] = v /\ x[2] = p /\ x = <<v, p>>
    BY <1>1, <2>1 DEF SharedRow
  <2> QED
    BY <2>1, <2>2 DEF SharedRow, RowOf
<1>2. ASSUME Live(v), vaults[v].owner # p, shares[<<v, p>>] # NoRow, row = RowOf(p, v)
      PROVE  row \in SharedRows /\ row.user = p /\ row.vault = v
  <2>1. row = SharedRow(v, p) /\ row.user = p /\ row.vault = v
    BY <1>2 DEF RowOf, SharedRow
  <2>2. <<v, p>> \in Vaults \X People /\ <<v, p>>[1] = v /\ <<v, p>>[2] = p
    OBVIOUS
  <2> QED
    BY <1>2, <2>1, <2>2 DEF SharedRows
<1> QED
  BY <1>1, <1>2

LEMMA ViewRow ==
  ASSUME TablesType, NEW p \in People, NEW v \in Vaults
  PROVE  get_vault_with_permission(p, v)
           = IF Right(vaults, shares, p, v) = "none" THEN {} ELSE {RowOf(p, v)}
<1>1. \A row : row \in get_vault_with_permission(p, v)
         <=> (row \in OwnedRows \/ row \in SharedRows) /\ row.user = p /\ row.vault = v
  BY DEF get_vault_with_permission, accessible_vaults
<1>2. \A row : row \in get_vault_with_permission(p, v)
         <=> Live(v) /\ (vaults[v].owner = p \/ shares[<<v, p>>] # NoRow) /\ row = RowOf(p, v)
  BY <1>1, OwnedRowIs, SharedRowIs
<1>3. Right(vaults, shares, p, v) = "none"
         <=> ~(Live(v) /\ (vaults[v].owner = p \/ shares[<<v, p>>] # NoRow))
  <2>1. shares[<<v, p>>] \in {NoRow} \cup Share
    BY PairIs DEF TablesType
  <2>2. shares[<<v, p>>] # NoRow => shares[<<v, p>>].role # "none"
    BY <2>1 DEF Share
  <2> QED
    BY <2>2 DEF Right, Live
<1>4. CASE Right(vaults, shares, p, v) = "none"
  <2>1. \A row : row \notin get_vault_with_permission(p, v)
    BY <1>2, <1>3, <1>4
  <2>2. get_vault_with_permission(p, v) = {}
    BY <2>1, Zenon
  <2> QED
    BY <1>4, <2>2
<1>5. CASE Right(vaults, shares, p, v) # "none"
  <2>1. \A row : row \in get_vault_with_permission(p, v) <=> row = RowOf(p, v)
    BY <1>2, <1>3, <1>5
  <2>2. get_vault_with_permission(p, v) = {RowOf(p, v)}
    BY <2>1, Zenon
  <2> QED
    BY <1>5, <2>2
<1> QED
  BY <1>4, <1>5

LEMMA ViewIsExact ==
  ASSUME TablesType
  PROVE  ViewExact
<1>1. ASSUME NEW p \in People, NEW v \in Vaults
      PROVE  /\ Cardinality(get_vault_with_permission(p, v))
                  = IF Right(vaults, shares, p, v) = "none" THEN 0 ELSE 1
             /\ \A row \in get_vault_with_permission(p, v) :
                   row.role = IF Right(vaults, shares, p, v) = "owner" THEN "admin"
                              ELSE Right(vaults, shares, p, v)
  <2>1. CASE Right(vaults, shares, p, v) = "none"
    <3>1. get_vault_with_permission(p, v) = {} /\ Cardinality({}) = 0
      BY <2>1, ViewRow, FS_EmptySet
    <3> QED
      BY <2>1, <3>1
  <2>2. CASE Right(vaults, shares, p, v) # "none"
    <3>1. get_vault_with_permission(p, v) = {RowOf(p, v)}
      BY <2>2, ViewRow
    <3>2. Cardinality({RowOf(p, v)}) = 1
      BY FS_Singleton
    <3>3. RowOf(p, v).role = IF Right(vaults, shares, p, v) = "owner" THEN "admin"
                             ELSE Right(vaults, shares, p, v)
      <4>1. shares[<<v, p>>] \in {NoRow} \cup Share
        BY PairIs DEF TablesType
      <4>2. shares[<<v, p>>] # NoRow => shares[<<v, p>>].role \in {"read", "write", "admin"}
        BY <4>1 DEF Share
      <4> QED
        BY <2>2, <4>2 DEF RowOf, Right
    <3> HIDE DEF RowOf
    <3>4. \A row \in {RowOf(p, v)} : row.role = RowOf(p, v).role
      OBVIOUS
    <3> QED
      BY <2>2, <3>1, <3>2, <3>3, <3>4
  <2> QED
    BY <2>1, <2>2
<1>2. ASSUME NEW p \in People
      PROVE  list_owned_vaults(p) \cap list_shared_vaults(p) = {}
  BY DEF list_owned_vaults, list_shared_vaults
<1>3. ASSUME NEW p \in People
      PROVE  list_owned_vaults(p) \cup list_shared_vaults(p)
               = {row.vault : row \in {r \in accessible_vaults : r.user = p}}
  <2>1. ASSUME NEW v \in list_owned_vaults(p) \cup list_shared_vaults(p)
        PROVE  v \in {row.vault : row \in {r \in accessible_vaults : r.user = p}}
    <3>1. v \in Vaults /\ RowOf(p, v) \in OwnedRows \cup SharedRows
          /\ RowOf(p, v).user = p /\ RowOf(p, v).vault = v
      BY OwnedRowIs, SharedRowIs DEF list_owned_vaults, list_shared_vaults
    <3> QED
      BY <3>1 DEF accessible_vaults
  <2>2. ASSUME NEW row \in accessible_vaults, row.user = p
        PROVE  row.vault \in list_owned_vaults(p) \cup list_shared_vaults(p)
    <3>1. row.vault \in Vaults
      <4>1. CASE row \in OwnedRows
        BY <4>1 DEF OwnedRows
      <4>2. CASE row \in SharedRows
        <5>1. PICK x \in Vaults \X People : row = SharedRow(x[1], x[2])
          BY <4>2 DEF SharedRows
        <5> QED
          BY <5>1 DEF SharedRow
      <4> QED
        BY <2>2, <4>1, <4>2 DEF accessible_vaults
    <3> QED
      BY <2>2, <3>1, OwnedRowIs, SharedRowIs DEF accessible_vaults, list_owned_vaults,
         list_shared_vaults
  <2> QED
    BY <2>1, <2>2
<1> QED
  BY <1>1, <1>2, <1>3 DEF ViewExact

-----------------------------------------------------------------------------
(* A call that watches.                                                      *)

\* The owner of a vault changes only with the vault.
SameOwners ==
  \A v \in Vaults :
    vaults[v] # NoRow /\ vaults'[v] # NoRow => vaults'[v].owner = vaults[v].owner

\* The answer q gets after having watched what changed.
LEMMA WatchedIs ==
  ASSUME TablesType', NEW q \in Asking
  PROVE  /\ Watched(q) \in Asking
         /\ Watched(q).stage = q.stage /\ Watched(q).op = q.op /\ Watched(q).user = q.user
         /\ Watched(q).vault = q.vault /\ Watched(q).role = q.role
         /\ Watched(q).owns = q.owns /\ Watched(q).answer = q.answer
         /\ q.roles \subseteq Watched(q).roles /\ q.rights \subseteq Watched(q).rights
         /\ q.given \subseteq Watched(q).given
         /\ UnderWay(q) /\ q.user # NoRow =>
              /\ people'[q.user] \in Watched(q).roles
              /\ Right(vaults', shares', q.user, q.vault) \in Watched(q).rights
              /\ Given(shares', q.vault) \in Watched(q).given
         /\ ~UnderWay(q) => Watched(q) = q
<1> USE UnderWayIs
<1>1. CASE ~(UnderWay(q) /\ q.user # NoRow)
  <2>1. Watched(q) = q
    BY <1>1 DEF Watched
  <2> QED
    BY <1>1, <2>1
<1>2. CASE UnderWay(q) /\ q.user # NoRow
  <2>1. q.user \in People /\ q.vault \in Vaults
    BY <1>2 DEF Asking
  <2>2. people'[q.user] \in {NoRow} \cup Roles
    BY <2>1 DEF TablesType
  <2>3. Right(vaults', shares', q.user, q.vault) \in Rights
    BY <2>1, RightIs DEF TablesType
  <2>4. Given(shares', q.vault) \in BOOLEAN
    BY <2>1, GivenIs
  <2>5. PICK a, b, g : a = people'[q.user] /\ b = Right(vaults', shares', q.user, q.vault)
                       /\ g = Given(shares', q.vault)
    OBVIOUS
  <2>6. Watched(q) = [q EXCEPT !.roles = @ \cup {a}, !.rights = @ \cup {b},
                               !.given = @ \cup {g}]
    BY <1>2, <2>5 DEF Watched
  <2>7. a \in {NoRow} \cup Roles /\ b \in Rights /\ g \in BOOLEAN
    BY <2>2, <2>3, <2>4, <2>5
  <2>8. /\ Watched(q) \in Asking
        /\ Watched(q).stage = q.stage /\ Watched(q).op = q.op /\ Watched(q).user = q.user
        /\ Watched(q).vault = q.vault /\ Watched(q).role = q.role
        /\ Watched(q).owns = q.owns /\ Watched(q).answer = q.answer
        /\ Watched(q).roles = q.roles \cup {a} /\ Watched(q).rights = q.rights \cup {b}
        /\ Watched(q).given = q.given \cup {g}
    <3> DEFINE w == [q EXCEPT !.roles = @ \cup {a}, !.rights = @ \cup {b},
                              !.given = @ \cup {g}]
    <3>1. /\ q.roles \cup {a} \subseteq {NoRow} \cup Roles
          /\ q.rights \cup {b} \subseteq Rights /\ q.given \cup {g} \subseteq BOOLEAN
      BY <2>7 DEF Asking
    <3>2. w \in Asking
      BY <3>1 DEF Asking
    <3>3. /\ w.stage = q.stage /\ w.op = q.op /\ w.user = q.user
          /\ w.vault = q.vault /\ w.role = q.role /\ w.owns = q.owns /\ w.answer = q.answer
          /\ w.roles = q.roles \cup {a} /\ w.rights = q.rights \cup {b}
          /\ w.given = q.given \cup {g}
      BY DEF Asking
    <3> QED
      BY <2>6, <3>2, <3>3
  <2> QED
    BY <1>2, <2>5, <2>8
<1> QED
  BY <1>1, <1>2

\* What a call rests on stays when it has met more.
LEMMA MoreIsSound ==
  ASSUME NEW q \in Asking, NEW w \in Asking, NEW va, NEW wa,
         Grounded(q, va), AnsweredByRight(q),
         w.stage = q.stage, w.op = q.op, w.user = q.user, w.vault = q.vault,
         w.role = q.role, w.owns = q.owns, w.answer = q.answer,
         q.roles \subseteq w.roles, q.rights \subseteq w.rights, q.given \subseteq w.given,
         q.stage = "envelope" /\ ~q.owns =>
           "none" \in w.rights \/ (wa[q.vault] # NoRow /\ wa[q.vault].owner # q.user),
         q.stage = "done" => w = q
  PROVE  Grounded(w, wa) /\ AnsweredByRight(w)
<1>1. AnsweredByRight(w)
  <2>1. CASE q.stage = "done"
    BY <2>1
  <2>2. CASE q.stage # "done"
    BY <2>2 DEF AnsweredByRight
  <2> QED
    BY <2>1, <2>2
<1>2. /\ w.user = NoRow \/ w.op = "open as owner" => w.stage \in {"vault", "done"}
      /\ w.stage = "insert" => w.op = "create"
      /\ w.stage = "row" => w.op \in {"open", "delete", "shared with others", "sort"}
      /\ w.stage = "row" /\ w.op # "sort" => w.role \in w.roles
  BY DEF Grounded
<1>3. w.stage = "envelope" =>
        /\ w.op = "open" /\ \E right \in w.rights : right # "none"
        /\ w.owns => "owner" \in w.rights
        /\ ~w.owns => "none" \in w.rights \/ (wa[w.vault] # NoRow /\ wa[w.vault].owner # w.user)
  BY DEF Grounded
<1>4. w.stage = "trash" =>
        /\ w.op = "delete"
        /\ \E role \in w.roles, right \in w.rights : MayDelete(role, right)
  <2> HIDE DEF MayDelete
  <2> QED
    BY DEF Grounded
<1>5. /\ w.stage = "count" => w.op = "shared with others" /\ "owner" \in w.rights
      /\ w.stage = "order" => w.op = "sort" /\ "owner" \in w.rights
  BY DEF Grounded
<1> QED
  BY <1>1, <1>2, <1>3, <1>4, <1>5 DEF Grounded

LEMMA WatchedIsSound ==
  ASSUME TablesType, TablesType', SameOwners, NEW q, Sound(q, people, vaults, shares)
  PROVE  /\ Sound(Watched(q), people', vaults', shares')
         /\ Watched(q).stage = q.stage
         /\ UnderWay(q) => Watched(q).op = q.op /\ Watched(q).vault = q.vault
<1>1. CASE q = Nobody
  <2>1. Watched(q) = q /\ ~UnderWay(q)
    BY <1>1 DEF Watched, UnderWay, Nobody
  <2> QED
    BY <1>1, <2>1 DEF Sound
<1>2. CASE q # Nobody
  <2>1. q \in Asking /\ UpToDate(q, people, vaults, shares) /\ Grounded(q, vaults) /\ AnsweredByRight(q)
    BY <1>2 DEF Sound
  <2>2. PICK w : w = Watched(q)
    OBVIOUS
  <2>3. /\ w \in Asking
        /\ w.stage = q.stage /\ w.op = q.op /\ w.user = q.user
        /\ w.vault = q.vault /\ w.role = q.role /\ w.owns = q.owns /\ w.answer = q.answer
        /\ q.roles \subseteq w.roles /\ q.rights \subseteq w.rights
        /\ q.given \subseteq w.given
        /\ UnderWay(q) /\ q.user # NoRow =>
             /\ people'[q.user] \in w.roles
             /\ Right(vaults', shares', q.user, q.vault) \in w.rights
             /\ Given(shares', q.vault) \in w.given
        /\ ~UnderWay(q) => w = q
    BY <2>1, <2>2, WatchedIs
  <2>4. UnderWay(w) <=> UnderWay(q)
    BY <2>3 DEF UnderWay
  <2>5. UpToDate(w, people', vaults', shares')
    BY <2>3, <2>4 DEF UpToDate
  <2>6. q.stage = "envelope" /\ ~q.owns =>
          "none" \in w.rights \/ (vaults'[q.vault] # NoRow /\ vaults'[q.vault].owner # q.user)
    <3> SUFFICES ASSUME q.stage = "envelope", ~q.owns
        PROVE "none" \in w.rights \/ (vaults'[q.vault] # NoRow /\ vaults'[q.vault].owner # q.user)
      OBVIOUS
    <3>1. UnderWay(q) /\ q.user # NoRow /\ q.vault \in Vaults
      BY <2>1 DEF Grounded, UnderWay, Asking
    <3>2. "none" \in q.rights \/ (vaults[q.vault] # NoRow /\ vaults[q.vault].owner # q.user)
      BY <2>1 DEF Grounded
    <3>3. vaults'[q.vault] = NoRow => Right(vaults', shares', q.user, q.vault) = "none"
      BY DEF Right
    <3> QED
      BY <2>3, <3>1, <3>2, <3>3 DEF SameOwners
  <2>7. q.stage = "done" => w = q
    BY <2>3 DEF UnderWay
  <2>8. Grounded(w, vaults') /\ AnsweredByRight(w)
    BY <2>1, <2>3, <2>6, <2>7, MoreIsSound
  <2> QED
    BY <2>2, <2>3, <2>5, <2>8 DEF Sound
<1> QED
  BY <1>1, <1>2

-----------------------------------------------------------------------------
(* The steps of a call.                                                      *)

LEMMA TurnKeeps ==
  ASSUME AccessInv, TablesType', TablesWhole', SameOwners,
         NEW c \in Requests, NEW q, Turn(c, q), Sound(q, people', vaults', shares'),
         \A v \in Vaults : Creates(q, v) =>
           vaults'[v] = NoRow /\ \A d \in Requests \ {c} : ~Creates(request[d], v),
         \A v \in Vaults, d \in Requests \ {c} : Creates(request[d], v) => vaults'[v] = NoRow
  PROVE  AccessInv'
<1>1. /\ request' = [d \in Requests |-> request'[d]]
      /\ request'[c] = q
      /\ \A d \in Requests \ {c} : request'[d] = Watched(request[d])
  <2> HIDE DEF Watched
  <2>1. request' = [d \in Requests |-> IF d = c THEN q ELSE Watched(request[d])]
    BY DEF Turn
  <2> QED
    BY <2>1
<1>2. ASSUME NEW d \in Requests \ {c}
      PROVE  /\ Sound(request'[d], people', vaults', shares')
             /\ \A v \in Vaults : Creates(request'[d], v) <=> Creates(request[d], v)
  <2>1. Sound(request[d], people, vaults, shares)
    BY DEF AccessInv
  <2>2. PICK w : w = Watched(request[d])
    OBVIOUS
  <2>3. /\ Sound(w, people', vaults', shares') /\ w.stage = request[d].stage
        /\ UnderWay(request[d]) => w.op = request[d].op /\ w.vault = request[d].vault
    BY <2>1, <2>2, WatchedIsSound DEF AccessInv
  <2> QED
    BY <1>1, <2>2, <2>3 DEF Creates, UnderWay
<1>3. \A d \in Requests : Sound(request'[d], people', vaults', shares')
  BY <1>1, <1>2
<1>4. \A d \in Requests, v \in Vaults : Creates(request'[d], v) =>
        vaults'[v] = NoRow /\ \A e \in Requests \ {d} : ~Creates(request'[e], v)
  <2> HIDE DEF Creates
  <2> QED
    BY <1>1, <1>2 DEF AccessInv, CreateAlone
<1> QED
  BY <1>1, <1>3, <1>4 DEF AccessInv, CreateAlone

LEMMA TablesStay ==
  ASSUME AccessInv, UNCHANGED tables
  PROVE  /\ TablesType' /\ TablesWhole' /\ SameOwners
         /\ people' = people /\ vaults' = vaults /\ shares' = shares
BY DEF AccessInv, TablesType, TablesWhole, SameOwners, tables

\* A call that goes on under another stage.
LEMMA GoesOn ==
  ASSUME AccessInv, UNCHANGED tables, NEW c \in Requests, UnderWay(request[c]),
         NEW q \in Asking, Turn(c, q), q.op = request[c].op, q.vault = request[c].vault,
         Sound(q, people, vaults, shares)
  PROVE  AccessInv'
<1>1. /\ TablesType' /\ TablesWhole' /\ SameOwners
      /\ people' = people /\ vaults' = vaults /\ shares' = shares
  BY TablesStay
<1>2. \A v \in Vaults : Creates(q, v) => Creates(request[c], v)
  BY DEF Creates
<1>3. \A d \in Requests, v \in Vaults : Creates(request[d], v) =>
        vaults'[v] = NoRow /\ \A e \in Requests \ {d} : ~Creates(request[e], v)
  BY <1>1 DEF AccessInv, CreateAlone
<1>4. Sound(q, people', vaults', shares')
  BY <1>1
<1> HIDE DEF Creates, Sound
<1> QED
  BY <1>1, <1>2, <1>3, <1>4, TurnKeeps

\* A call that has its answer.
LEMMA ReplyKeeps ==
  ASSUME AccessInv, TablesType', TablesWhole', SameOwners, NEW c \in Requests, UnderWay(request[c]),
         NEW answer \in RightAnswers, NEW w, w \in {request[c], Watched(request[c])},
         Turn(c, [w EXCEPT !.stage = "done", !.answer = answer]),
         Fits(answer, w.op, w.roles, w.rights, w.given),
         \A v \in Vaults, d \in Requests \ {c} : Creates(request[d], v) => vaults'[v] = NoRow
  PROVE  AccessInv'
<1>1. request[c] \in Asking
  BY DEF AccessInv, Sound, UnderWay, Nobody
<1>2. w \in Asking
  BY <1>1, WatchedIs
<1>3. PICK q : q = [w EXCEPT !.stage = "done", !.answer = answer]
  OBVIOUS
<1>4. /\ q \in Asking /\ q.stage = "done" /\ q.answer = answer /\ q.op = w.op
      /\ q.roles = w.roles /\ q.rights = w.rights /\ q.given = w.given
  BY <1>2, <1>3 DEF Asking, Stages
<1>5. ~UnderWay(q)
  BY <1>4 DEF UnderWay
<1>6. Sound(q, people', vaults', shares')
  <2>1. UpToDate(q, people', vaults', shares')
    BY <1>5 DEF UpToDate
  <2>2. Grounded(q, vaults')
    BY <1>4 DEF Grounded
  <2>3. AnsweredByRight(q)
    BY <1>4 DEF AnsweredByRight
  <2> QED
    BY <1>4, <2>1, <2>2, <2>3 DEF Sound
<1>7. \A v : ~Creates(q, v)
  BY <1>5 DEF Creates
<1> HIDE DEF Creates, Sound
<1> QED
  BY <1>3, <1>6, <1>7, TurnKeeps

\* What a call has met once it has watched, with the tables as they were.
LEMMA HasMet ==
  ASSUME AccessInv, UNCHANGED tables, NEW c \in Requests, UnderWay(request[c]),
         NEW w, w = Watched(request[c])
  PROVE  /\ request[c] \in Asking /\ Grounded(request[c], vaults)
         /\ w.op = request[c].op /\ w.user = request[c].user /\ w.vault = request[c].vault
         /\ w \in Asking
         /\ request[c].roles \subseteq w.roles /\ request[c].rights \subseteq w.rights
         /\ request[c].user # NoRow =>
              /\ people[request[c].user] \in w.roles
              /\ Right(vaults, shares, request[c].user, request[c].vault) \in w.rights
              /\ Given(shares, request[c].vault) \in w.given
<1>1. request[c] \in Asking /\ Grounded(request[c], vaults)
  BY DEF AccessInv, Sound, UnderWay, Nobody
<1>2. TablesType' /\ people' = people /\ vaults' = vaults /\ shares' = shares
  BY TablesStay
<1> QED
  BY <1>1, <1>2, WatchedIs

LEMMA RepliesKeep ==
  ASSUME AccessInv, UNCHANGED tables, NEW c \in Requests, UnderWay(request[c]),
         NEW answer \in RightAnswers, Reply(c, answer),
         NEW w, w = Watched(request[c]),
         Fits(answer, w.op, w.roles, w.rights, w.given)
  PROVE  AccessInv'
<1>1. /\ TablesType' /\ TablesWhole' /\ SameOwners /\ vaults' = vaults
  BY TablesStay
<1>2. Turn(c, [w EXCEPT !.stage = "done", !.answer = answer])
  BY DEF Reply
<1>3. \A v \in Vaults, d \in Requests \ {c} : Creates(request[d], v) => vaults'[v] = NoRow
  BY <1>1 DEF AccessInv, CreateAlone
<1> QED
  BY <1>1, <1>2, <1>3, ReplyKeeps

LEMMA PlainFits ==
  ASSUME NEW answer \in {"missing", "error", "created", "none"},
         NEW op, NEW roles, NEW rights, NEW given
  PROVE  Fits(answer, op, roles, rights, given)
BY DEF Fits

LEMMA AskedIsSound ==
  ASSUME TablesType, NEW op \in Operations, NEW p \in People, NEW v \in Vaults
  PROVE  /\ Asked(op, p, v) \in Asking
         /\ Sound(Asked(op, p, v), people, vaults, shares)
         /\ Asked(op, p, v).op = op /\ Asked(op, p, v).vault = v
<1>1. people[p] \in {NoRow} \cup Roles /\ Right(vaults, shares, p, v) \in Rights
      /\ Given(shares, v) \in BOOLEAN
  BY RightIs, GivenIs DEF TablesType
<1>2. PICK a, b, g : a = people[p] /\ b = Right(vaults, shares, p, v) /\ g = Given(shares, v)
  OBVIOUS
<1>3. PICK q : q = Asked(op, p, v)
  OBVIOUS
<1>4. q = [stage |-> IF op = "open as owner" THEN "vault" ELSE IF op = "sort" THEN "row" ELSE "user",
           op |-> op, user |-> IF op = "open as owner" THEN NoRow ELSE p, vault |-> v,
           role |-> NoRow, owns |-> FALSE, answer |-> "none",
           roles |-> {a}, rights |-> {b}, given |-> {g}]
  BY <1>2, <1>3 DEF Asked
<1>5. q \in Asking
  <2>1. a \in {NoRow} \cup Roles /\ b \in Rights /\ g \in BOOLEAN
    BY <1>1, <1>2
  <2> QED
    BY <1>4, <2>1 DEF Asking, Stages, RightAnswers
<1>6. UpToDate(q, people, vaults, shares)
  <2>1. p \in People /\ q.user # NoRow => q.user = p
    BY <1>4
  <2>2. a \in q.roles /\ b \in q.rights /\ g \in q.given /\ q.vault = v
    BY <1>4
  <2> QED
    BY <1>2, <2>1, <2>2 DEF UpToDate
<1>7. p # NoRow
  BY NoRowIsNoName
<1>8. Grounded(q, vaults)
  <2>1. q.stage \in {"vault", "user", "row"} /\ (q.stage = "row" => q.op = "sort")
    BY <1>4
  <2>2. q.user = NoRow \/ q.op = "open as owner" => q.stage = "vault"
    BY <1>4, <1>7
  <2> QED
    BY <2>1, <2>2 DEF Grounded
<1>9. AnsweredByRight(q)
  BY <1>4 DEF AnsweredByRight
<1>10. Sound(q, people, vaults, shares) /\ q.op = op /\ q.vault = v
  BY <1>4, <1>5, <1>6, <1>8, <1>9 DEF Sound
<1> HIDE DEF Sound
<1> QED
  BY <1>3, <1>5, <1>10

LEMMA AskKeeps ==
  ASSUME AccessInv, NEW c \in Requests, NEW op \in Operations, NEW p \in People,
         NEW v \in Vaults, Ask(c, op, p, v)
  PROVE  AccessInv'
<1>1. /\ TablesType' /\ TablesWhole' /\ SameOwners
      /\ people' = people /\ vaults' = vaults /\ shares' = shares
  BY TablesStay DEF Ask
<1>2. PICK q : q = Asked(op, p, v)
  OBVIOUS
<1>3. Sound(q, people', vaults', shares') /\ q.op = op /\ q.vault = v /\ q \in Asking
  BY <1>1, <1>2, AskedIsSound DEF AccessInv
<1>4. Turn(c, q)
  BY <1>2 DEF Ask
<1>5. \A x \in Vaults : Creates(q, x) =>
        vaults'[x] = NoRow /\ \A d \in Requests \ {c} : ~Creates(request[d], x)
  BY <1>1, <1>3 DEF Ask, Creates
<1>6. \A x \in Vaults, d \in Requests \ {c} : Creates(request[d], x) => vaults'[x] = NoRow
  BY <1>1 DEF AccessInv, CreateAlone
<1> HIDE DEF Creates, Sound
<1> QED
  BY <1>1, <1>3, <1>4, <1>5, <1>6, TurnKeeps

LEMMA GetVaultKeeps ==
  ASSUME AccessInv, NEW c \in Requests, GetVault(c)
  PROVE  AccessInv'
<1>1. UNCHANGED tables /\ UnderWay(request[c]) /\ request[c].stage = "vault"
  BY DEF GetVault, UnderWay
<1>2. request[c] \in Asking /\ request[c].vault \in Vaults
  BY <1>1, HasMet DEF Asking
<1>3. CASE Live(request[c].vault)
  <2>1. PICK v \in Vaults : v = request[c].vault
    BY <1>2
  <2>2. PICK p \in People : p = vaults[v].owner
    BY <1>3, <2>1 DEF AccessInv, TablesType, Live, VaultRow
  <2>3. PICK q : q = Asked("open", p, v)
    OBVIOUS
  <2>4. q \in Asking /\ Sound(q, people, vaults, shares) /\ q.op = "open" /\ q.vault = v
    <3>1. "open" \in Operations
      BY DEF Operations
    <3> HIDE DEF Sound
    <3> QED
      BY <2>3, <3>1, AskedIsSound DEF AccessInv
  <2>5. q.stage = "user"
    BY <2>3 DEF Asked
  <2>6. [q EXCEPT !.stage = "user"] = q
    BY <2>4, <2>5 DEF Asking
  <2>7. Turn(c, q)
    BY <1>3, <2>1, <2>2, <2>3, <2>6 DEF GetVault
  <2>8. /\ TablesType' /\ TablesWhole' /\ SameOwners
        /\ people' = people /\ vaults' = vaults /\ shares' = shares
    BY <1>1, TablesStay
  <2>9. \A x \in Vaults : ~Creates(q, x)
    BY <2>4 DEF Creates
  <2>10. \A x \in Vaults, d \in Requests \ {c} : Creates(request[d], x) => vaults'[x] = NoRow
    BY <2>8 DEF AccessInv, CreateAlone
  <2>11. Sound(q, people', vaults', shares')
    BY <2>4, <2>8
  <2> HIDE DEF Creates, Sound
  <2> QED
    BY <2>7, <2>8, <2>9, <2>10, <2>11, TurnKeeps
<1>4. CASE ~Live(request[c].vault)
  <2>1. PICK w : w = Watched(request[c])
    OBVIOUS
  <2>2. Reply(c, "missing") /\ "missing" \in RightAnswers
    BY <1>4 DEF GetVault, RightAnswers
  <2>3. Fits("missing", w.op, w.roles, w.rights, w.given)
    BY PlainFits
  <2> QED
    BY <1>1, <2>1, <2>2, <2>3, RepliesKeep
<1> QED
  BY <1>3, <1>4

LEMMA GetUserKeeps ==
  ASSUME AccessInv, NEW c \in Requests, GetUser(c)
  PROVE  AccessInv'
<1>1. UNCHANGED tables /\ UnderWay(request[c]) /\ request[c].stage = "user"
  BY DEF GetUser, UnderWay
<1>2. PICK q \in Asking : q = request[c] /\ Grounded(q, vaults)
                        /\ UpToDate(q, people, vaults, shares)
  BY <1>1 DEF AccessInv, Sound, UnderWay, Nobody
<1>3. q.user \in People /\ q.user # NoRow
  BY <1>1, <1>2 DEF Grounded, Asking
<1>4. CASE people[q.user] = NoRow
  <2>1. PICK w : w = Watched(request[c])
    OBVIOUS
  <2>2. Reply(c, "missing") /\ "missing" \in RightAnswers
    BY <1>2, <1>4 DEF GetUser, RightAnswers
  <2>3. Fits("missing", w.op, w.roles, w.rights, w.given)
    BY PlainFits
  <2> QED
    BY <1>1, <2>1, <2>2, <2>3, RepliesKeep
<1>5. CASE people[q.user] # NoRow
  <2>1. PICK a : a = people[q.user]
    OBVIOUS
  <2>2. a \in Roles /\ a \in q.roles
    BY <1>1, <1>2, <1>3, <1>5, <2>1 DEF AccessInv, TablesType, UpToDate
  <2>3. PICK s : s = IF q.op = "create" THEN "insert" ELSE "row"
    OBVIOUS
  <2>4. PICK r : r = [q EXCEPT !.stage = s, !.role = a]
    OBVIOUS
  <2>5. /\ r \in Asking /\ r.stage = s /\ r.role = a /\ r.op = q.op /\ r.vault = q.vault
        /\ r.user = q.user /\ r.roles = q.roles /\ r.rights = q.rights /\ r.given = q.given
    BY <2>2, <2>3, <2>4 DEF Asking, Stages
  <2>6. Turn(c, r)
    BY <1>2, <1>5, <2>1, <2>3, <2>4 DEF GetUser
  <2>7. q.op \in Operations /\ q.op # "open as owner"
    BY <1>1, <1>2 DEF Grounded, Asking
  <2>8. Grounded(r, vaults)
    BY <1>3, <2>2, <2>3, <2>5, <2>7 DEF Grounded, Operations
  <2>9. UpToDate(r, people, vaults, shares)
    BY <1>1, <1>2, <2>5 DEF UpToDate, UnderWay
  <2>10. AnsweredByRight(r)
    BY <2>3, <2>5 DEF AnsweredByRight
  <2>11. Sound(r, people, vaults, shares)
    BY <2>5, <2>8, <2>9, <2>10 DEF Sound
  <2> QED
    BY <1>1, <1>2, <2>5, <2>6, <2>11, GoesOn
<1> QED
  BY <1>4, <1>5

LEMMA CallIs ==
  ASSUME AccessInv, NEW c \in Requests, UnderWay(request[c])
  PROVE  \E q \in Asking : /\ q = request[c] /\ Grounded(q, vaults) /\ AnsweredByRight(q)
                            /\ UpToDate(q, people, vaults, shares)
BY DEF AccessInv, Sound, UnderWay, Nobody

LEMMA InsertVaultKeeps ==
  ASSUME AccessInv, NEW c \in Requests, InsertVault(c)
  PROVE  AccessInv'
<1>1. UnderWay(request[c]) /\ request[c].stage = "insert"
  BY DEF InsertVault, UnderWay
<1>2. PICK q \in Asking : q = request[c] /\ Grounded(q, vaults) /\ AnsweredByRight(q)
  BY <1>1, CallIs
<1>3. q.user \in People /\ q.op = "create" /\ q.vault \in Vaults
  BY <1>1, <1>2 DEF Grounded, Asking
<1>4. Creates(request[c], q.vault)
  BY <1>1, <1>2, <1>3 DEF Creates
<1>5. CASE people[q.user] = NoRow
  <2>1. UNCHANGED tables /\ Reply(c, "error") /\ "error" \in RightAnswers
    BY <1>2, <1>5 DEF InsertVault, tables, RightAnswers
  <2>2. PICK w : w = Watched(request[c])
    OBVIOUS
  <2>3. Fits("error", w.op, w.roles, w.rights, w.given)
    BY PlainFits
  <2> QED
    BY <1>1, <2>1, <2>2, <2>3, RepliesKeep
<1>6. CASE people[q.user] # NoRow
  <2>1. PICK v \in Vaults, p \in People : v = q.vault /\ p = q.user
    BY <1>3
  <2>2. vaults[v] = NoRow /\ \A d \in Requests \ {c} : ~Creates(request[d], v)
    BY <1>4, <2>1 DEF AccessInv, CreateAlone
  <2>3. PICK answer \in {"created", "error"} :
          Turn(c, [q EXCEPT !.stage = "done", !.answer = answer])
    BY <1>2, <1>6 DEF InsertVault
  <2>4. /\ vaults' = [vaults EXCEPT ![v] = [owner |-> p, deleted |-> FALSE]]
        /\ UNCHANGED <<people, shares, teams, members>>
    BY <1>2, <1>6, <2>1 DEF InsertVault
  <2>5. [owner |-> p, deleted |-> FALSE] \in VaultRow
    BY DEF VaultRow
  <2>6. TablesType'
    BY <2>4, <2>5 DEF AccessInv, TablesType
  <2>7. /\ vaults'[v] = [owner |-> p, deleted |-> FALSE]
        /\ \A x \in Vaults \ {v} : vaults'[x] = vaults[x]
    BY <2>4 DEF AccessInv, TablesType
  <2>8. TablesWhole'
    <3>1. \A x \in Vaults : vaults'[x] # NoRow => people[vaults'[x].owner] # NoRow
      BY <1>6, <2>1, <2>7 DEF AccessInv, TablesWhole
    <3>2. \A x \in Vaults \X People : shares[x] # NoRow =>
            vaults'[x[1]] # NoRow /\ people[x[2]] # NoRow /\ shares[x].team \in teams \cup {NoRow}
      BY <2>2, <2>7 DEF AccessInv, TablesWhole
    <3> QED
      BY <2>4, <3>1, <3>2 DEF AccessInv, TablesWhole
  <2>9. SameOwners
    BY <2>2, <2>7 DEF SameOwners
  <2>10. \A x \in Vaults, d \in Requests \ {c} : Creates(request[d], x) => vaults'[x] = NoRow
    BY <2>2, <2>7 DEF AccessInv, CreateAlone
  <2>11. Fits(answer, q.op, q.roles, q.rights, q.given) /\ answer \in RightAnswers
    BY <2>3, PlainFits DEF RightAnswers
  <2> QED
    BY <1>1, <1>2, <2>3, <2>6, <2>8, <2>9, <2>10, <2>11, ReplyKeeps
<1> QED
  BY <1>5, <1>6

LEMMA GetRowKeeps ==
  ASSUME AccessInv, NEW c \in Requests, GetRow(c)
  PROVE  AccessInv'
<1>1. UNCHANGED tables /\ UnderWay(request[c]) /\ request[c].stage = "row"
  BY DEF GetRow, UnderWay
<1>2. PICK q \in Asking : /\ q = request[c] /\ Grounded(q, vaults)
                         /\ UpToDate(q, people, vaults, shares)
  BY <1>1, CallIs
<1>3. /\ q.user \in People /\ q.vault \in Vaults /\ UnderWay(q) /\ q.user # NoRow
      /\ q.op \in {"open", "delete", "shared with others", "sort"}
      /\ q.op # "sort" => q.role \in q.roles
  BY <1>1, <1>2, NoRowIsNoName DEF Grounded, Asking
<1>4. PICK p \in People, v \in Vaults : p = q.user /\ v = q.vault
  BY <1>3
<1>5. PICK w : w = Watched(request[c])
  OBVIOUS
<1>6. PICK right : right = Right(vaults, shares, p, v)
  OBVIOUS
<1>7. /\ w.op = q.op /\ q.roles \subseteq w.roles /\ right \in w.rights
      /\ people[p] \in w.roles /\ right \in q.rights
  BY <1>1, <1>2, <1>3, <1>4, <1>5, <1>6, HasMet DEF UpToDate
<1>8. get_vault_with_permission(p, v) = IF right = "none" THEN {} ELSE {RowOf(p, v)}
  BY <1>6, ViewRow DEF AccessInv
<1>9. CASE right = "none"
  <2>1. Reply(c, "denied") /\ "denied" \in RightAnswers
    BY <1>2, <1>4, <1>8, <1>9 DEF GetRow, RightAnswers
  <2>2. Fits("denied", w.op, w.roles, w.rights, w.given)
    BY <1>7, <1>9 DEF Fits, MayDelete
  <2> QED
    BY <1>1, <1>5, <2>1, <2>2, RepliesKeep
<1>10. CASE right # "none"
  <2>1. PICK row : row = RowOf(p, v)
    OBVIOUS
  <2>2. IF Passes(q, row)
        THEN Turn(c, [q EXCEPT !.stage = AfterRow[q.op], !.owns = row.owner = q.user])
        ELSE Reply(c, IF q.op = "shared with others" THEN "no" ELSE "denied")
    <3>1. get_vault_with_permission(p, v) = {row}
      BY <1>8, <1>10, <2>1
    <3> HIDE DEF Passes, Turn, Reply, AfterRow, get_vault_with_permission
    <3> QED
      BY <1>2, <1>4, <3>1 DEF GetRow
  <2>3. /\ vaults[v] # NoRow /\ (right = "owner" <=> vaults[v].owner = p)
        /\ row.owner = vaults[v].owner
        /\ right = "owner" => row.role = "admin" /\ row.kind = "owner"
        /\ right # "owner" => row.role = right /\ row.kind \in {"direct_share", "team_share"}
    <3>1. shares[<<v, p>>] # NoRow => shares[<<v, p>>].role \in {"read", "write", "admin"}
      <4>1. shares[<<v, p>>] \in {NoRow} \cup Share
        BY PairIs DEF AccessInv, TablesType
      <4> QED
        BY <4>1 DEF Share
    <3>2. /\ row.owner = vaults[v].owner
          /\ row.role = IF vaults[v].owner = p THEN "admin" ELSE shares[<<v, p>>].role
          /\ row.kind = IF vaults[v].owner = p THEN "owner"
                        ELSE IF shares[<<v, p>>].team = NoRow THEN "direct_share" ELSE "team_share"
      BY <2>1 DEF RowOf
    <3> QED
      BY <1>6, <1>10, <3>1, <3>2 DEF Right
  <2>4. PICK r : r = Resource(p, row)
    OBVIOUS
  <2>5. /\ r.is_owner = (row.owner = p) /\ r.share_role = row.role
        /\ Has_access(r)
    BY <2>3, <2>4 DEF Resource, Has_access
  <2>6. /\ q.op = "open" => Passes(q, row)
        /\ q.op = "delete" => (Passes(q, row) <=> MayDelete(q.role, right))
        /\ q.op \in {"shared with others", "sort"} => (Passes(q, row) <=> right = "owner")
    <3>1. check_permission(q.role, "VaultOpen", r)
      BY <2>5 DEF check_permission
    <3>2. check_permission(q.role, "VaultDelete", r) <=> MayDelete(q.role, right)
      BY <1>10, <2>3, <2>5 DEF check_permission, MayDelete
    <3> QED
      BY <1>4, <2>3, <2>4, <3>1, <3>2 DEF Passes
  <2>7. CASE ~Passes(q, row)
    <3>1. PICK answer : answer = IF q.op = "shared with others" THEN "no" ELSE "denied"
      OBVIOUS
    <3>2. Reply(c, answer) /\ answer \in RightAnswers
      BY <2>2, <2>7, <3>1 DEF RightAnswers
    <3>3. Fits(answer, w.op, w.roles, w.rights, w.given)
      <4>1. CASE q.op = "shared with others"
        <5>1. answer = "no" /\ w.rights # {"owner"}
          BY <1>7, <2>6, <2>7, <3>1, <4>1
        <5> QED
          BY <5>1 DEF Fits
      <4>2. CASE q.op = "delete"
        <5>1. /\ answer = "denied" /\ w.op = "delete" /\ q.role \in w.roles /\ right \in w.rights
              /\ ~MayDelete(q.role, right)
          BY <1>3, <1>7, <2>6, <2>7, <3>1, <4>2
        <5> HIDE DEF MayDelete
        <5> QED
          BY <5>1 DEF Fits
      <4>3. CASE q.op = "sort"
        <5>1. /\ answer = "denied" /\ w.op = "sort" /\ right # "owner" /\ right \in w.rights
              /\ people[p] \in w.roles
          BY <1>7, <2>6, <2>7, <3>1, <4>3
        <5> QED
          BY <5>1 DEF Fits
      <4> QED
        BY <1>3, <2>6, <2>7, <4>1, <4>2, <4>3
    <3> QED
      BY <1>1, <1>5, <3>2, <3>3, RepliesKeep
  <2>8. CASE Passes(q, row)
    <3>1. PICK stage, owns : stage = AfterRow[q.op] /\ owns = (row.owner = q.user)
      OBVIOUS
    <3>2. /\ q.op = "open" => stage = "envelope"
          /\ q.op = "delete" => stage = "trash"
          /\ q.op = "shared with others" => stage = "count"
          /\ q.op = "sort" => stage = "order"
      BY <3>1 DEF AfterRow
    <3>3. stage \in Stages /\ owns \in BOOLEAN
      BY <1>3, <3>1, <3>2 DEF Stages
    <3>4. PICK n : n = [q EXCEPT !.stage = stage, !.owns = owns]
      OBVIOUS
    <3>5. /\ n \in Asking /\ n.stage = stage /\ n.owns = owns /\ n.role = q.role
          /\ n.op = q.op /\ n.vault = q.vault /\ n.user = q.user
          /\ n.roles = q.roles /\ n.rights = q.rights /\ n.given = q.given
      BY <3>3, <3>4 DEF Asking
    <3>6. Turn(c, n)
      BY <2>2, <2>8, <3>1, <3>4
    <3>7. UpToDate(n, people, vaults, shares)
      BY <1>2, <1>3, <3>5 DEF UpToDate
    <3>8. AnsweredByRight(n)
      BY <1>3, <3>2, <3>5 DEF AnsweredByRight
    <3>9. Grounded(n, vaults)
      <4>1. CASE q.op = "open"
        <5>1. owns <=> right = "owner"
          BY <1>4, <2>3, <3>1
        <5>2. ~owns => vaults[n.vault] # NoRow /\ vaults[n.vault].owner # n.user
          BY <1>4, <2>3, <3>5, <5>1
        <5>3. right \in n.rights /\ n.stage = "envelope" /\ n.user # NoRow
          BY <1>3, <1>7, <3>2, <3>5, <4>1
        <5> QED
          BY <1>10, <3>5, <4>1, <5>1, <5>2, <5>3 DEF Grounded
      <4>2. CASE q.op = "delete"
        <5>1. n.role \in n.roles /\ right \in n.rights /\ MayDelete(n.role, right)
          BY <1>3, <1>7, <2>6, <2>8, <3>5, <4>2
        <5> HIDE DEF MayDelete
        <5> QED
          BY <1>3, <3>2, <3>5, <4>2, <5>1 DEF Grounded
      <4>3. CASE q.op = "shared with others"
        BY <1>3, <1>7, <2>6, <2>8, <3>2, <3>5, <4>3 DEF Grounded
      <4>4. CASE q.op = "sort"
        BY <1>3, <1>7, <2>6, <2>8, <3>2, <3>5, <4>4 DEF Grounded
      <4> QED
        BY <1>3, <4>1, <4>2, <4>3, <4>4
    <3>10. Sound(n, people, vaults, shares)
      BY <3>5, <3>7, <3>8, <3>9 DEF Sound
    <3> QED
      BY <1>1, <1>2, <3>5, <3>6, <3>10, GoesOn
  <2> QED
    BY <2>7, <2>8
<1> QED
  BY <1>9, <1>10

LEMMA GetEnvelopeKeeps ==
  ASSUME AccessInv, NEW c \in Requests, GetEnvelope(c)
  PROVE  AccessInv'
<1>1. UNCHANGED tables /\ UnderWay(request[c]) /\ request[c].stage = "envelope"
  BY DEF GetEnvelope, UnderWay
<1>2. PICK q \in Asking : /\ q = request[c] /\ Grounded(q, vaults)
                         /\ UpToDate(q, people, vaults, shares)
  BY <1>1, CallIs
<1>3. /\ q.user \in People /\ q.vault \in Vaults /\ UnderWay(q) /\ q.user # NoRow /\ q.op = "open"
  BY <1>1, <1>2 DEF Grounded, Asking
<1>4. PICK w : w = Watched(request[c])
  OBVIOUS
<1>5. /\ w.op = "open" /\ q.roles \subseteq w.roles /\ q.rights \subseteq w.rights
      /\ people[q.user] \in w.roles
      /\ Right(vaults, shares, q.user, q.vault) \in w.rights
  BY <1>1, <1>2, <1>3, <1>4, HasMet
<1>6. PICK answer : answer = IF q.owns
                             THEN IF vaults[q.vault] # NoRow THEN "key" ELSE "error"
                             ELSE IF shares[<<q.vault, q.user>>] # NoRow THEN "key" ELSE "denied"
  OBVIOUS
<1>7. Reply(c, answer) /\ answer \in RightAnswers
  BY <1>2, <1>6 DEF GetEnvelope, RightAnswers
<1>8. \E right \in w.rights : right # "none"
  BY <1>1, <1>2, <1>5 DEF Grounded
<1>9. answer = "denied" => "none" \in w.rights
  <2> SUFFICES ASSUME answer = "denied" PROVE "none" \in w.rights
    OBVIOUS
  <2>1. ~q.owns /\ shares[<<q.vault, q.user>>] = NoRow
    BY <1>6
  <2>2. CASE "none" \in q.rights
    BY <1>5, <2>2
  <2>3. CASE vaults[q.vault] # NoRow /\ vaults[q.vault].owner # q.user
    BY <1>5, <2>1, <2>3 DEF Right
  <2> QED
    BY <1>1, <1>2, <2>1, <2>2, <2>3 DEF Grounded
<1>10. Fits(answer, w.op, w.roles, w.rights, w.given)
  BY <1>5, <1>6, <1>8, <1>9 DEF Fits
<1> QED
  BY <1>1, <1>4, <1>7, <1>10, RepliesKeep

LEMMA TrashVaultKeeps ==
  ASSUME AccessInv, NEW c \in Requests, TrashVault(c)
  PROVE  AccessInv'
<1>1. UnderWay(request[c]) /\ request[c].stage = "trash"
  BY DEF TrashVault, UnderWay
<1>2. PICK q \in Asking : q = request[c] /\ Grounded(q, vaults)
  BY <1>1, CallIs
<1>3. CASE ~Live(q.vault)
  <2>1. UNCHANGED tables /\ Reply(c, "missing") /\ "missing" \in RightAnswers
    BY <1>2, <1>3 DEF TrashVault, tables, RightAnswers
  <2>2. PICK w : w = Watched(request[c])
    OBVIOUS
  <2>3. Fits("missing", w.op, w.roles, w.rights, w.given)
    BY PlainFits
  <2> QED
    BY <1>1, <2>1, <2>2, <2>3, RepliesKeep
<1>4. CASE Live(q.vault)
  <2>1. PICK v \in Vaults : v = q.vault
    BY DEF Asking
  <2>2. vaults[v] # NoRow /\ vaults[v] \in VaultRow
    BY <1>4, <2>1 DEF AccessInv, TablesType, Live
  <2>3. PICK row : row = [vaults[v] EXCEPT !.deleted = TRUE]
    OBVIOUS
  <2>4. row \in VaultRow /\ row.owner = vaults[v].owner
    BY <2>2, <2>3 DEF VaultRow
  <2>5. /\ vaults' = [vaults EXCEPT ![v] = row]
        /\ UNCHANGED <<people, shares, teams, members>>
        /\ Turn(c, [q EXCEPT !.stage = "done", !.answer = "deleted"])
    BY <1>2, <1>4, <2>1, <2>3 DEF TrashVault
  <2>6. TablesType'
    BY <2>4, <2>5 DEF AccessInv, TablesType
  <2>7. vaults'[v] = row /\ \A x \in Vaults \ {v} : vaults'[x] = vaults[x]
    BY <2>5 DEF AccessInv, TablesType
  <2>8. row # NoRow
    BY <2>4, NoRowIsNoRow DEF VaultRow
  <2>9. TablesWhole'
    <3>1. \A x \in Vaults : vaults'[x] # NoRow => people[vaults'[x].owner] # NoRow
      BY <2>2, <2>4, <2>7 DEF AccessInv, TablesWhole
    <3>2. \A x \in Vaults \X People : shares[x] # NoRow =>
            vaults'[x[1]] # NoRow /\ people[x[2]] # NoRow /\ shares[x].team \in teams \cup {NoRow}
      BY <2>2, <2>7, <2>8 DEF AccessInv, TablesWhole
    <3> QED
      BY <2>5, <3>1, <3>2 DEF AccessInv, TablesWhole
  <2>10. SameOwners
    BY <2>4, <2>7 DEF SameOwners
  <2>11. \A x \in Vaults, d \in Requests \ {c} : Creates(request[d], x) => vaults'[x] = NoRow
    BY <2>2, <2>7 DEF AccessInv, CreateAlone
  <2>12. \E role \in q.roles, right \in q.rights : MayDelete(role, right)
    <3> HIDE DEF MayDelete
    <3> QED
      BY <1>1, <1>2 DEF Grounded
  <2>13. Fits("deleted", q.op, q.roles, q.rights, q.given) /\ "deleted" \in RightAnswers
    <3> HIDE DEF MayDelete
    <3> QED
      BY <2>12 DEF Fits, RightAnswers
  <2> QED
    BY <1>1, <1>2, <2>5, <2>6, <2>9, <2>10, <2>11, <2>13, ReplyKeeps
<1> QED
  BY <1>3, <1>4

LEMMA LastsKeep ==
  ASSUME AccessInv, NEW c \in Requests, CountShares(c) \/ SortVault(c) \/ Fail(c)
  PROVE  AccessInv'
<1>1. UNCHANGED tables /\ UnderWay(request[c])
  BY DEF CountShares, SortVault, Fail, UnderWay
<1>2. PICK q \in Asking : q = request[c] /\ Grounded(q, vaults)
  BY <1>1, CallIs
<1>3. PICK w : w = Watched(request[c])
  OBVIOUS
<1>4. /\ w.op = q.op /\ q.rights \subseteq w.rights
      /\ q.user # NoRow => Given(shares, q.vault) \in w.given
  BY <1>1, <1>2, <1>3, HasMet
<1>5. CASE CountShares(c)
  <2>1. PICK answer : answer = IF Given(shares, q.vault) THEN "yes" ELSE "no"
    OBVIOUS
  <2>2. Reply(c, answer) /\ answer \in RightAnswers /\ q.stage = "count"
    BY <1>2, <1>5, <2>1 DEF CountShares, RightAnswers
  <2>3. "owner" \in w.rights /\ Given(shares, q.vault) \in w.given
    BY <1>2, <1>4, <2>2 DEF Grounded
  <2>4. Given(shares, q.vault) \in BOOLEAN
    BY GivenIs DEF Asking
  <2>5. Fits(answer, w.op, w.roles, w.rights, w.given)
    BY <2>1, <2>3, <2>4 DEF Fits
  <2> QED
    BY <1>1, <1>3, <2>2, <2>5, RepliesKeep
<1>6. CASE SortVault(c)
  <2>1. Reply(c, "sorted") /\ "sorted" \in RightAnswers /\ q.stage = "order"
    BY <1>2, <1>6 DEF SortVault, RightAnswers
  <2>2. "owner" \in w.rights
    BY <1>2, <1>4, <2>1 DEF Grounded
  <2>3. Fits("sorted", w.op, w.roles, w.rights, w.given)
    BY <2>2 DEF Fits
  <2> QED
    BY <1>1, <1>3, <2>1, <2>3, RepliesKeep
<1>7. CASE Fail(c)
  <2>1. Reply(c, "error") /\ "error" \in RightAnswers
    BY <1>7 DEF Fail, RightAnswers
  <2>2. Fits("error", w.op, w.roles, w.rights, w.given)
    BY PlainFits
  <2> QED
    BY <1>1, <1>3, <2>1, <2>2, RepliesKeep
<1> QED
  BY <1>5, <1>6, <1>7

-----------------------------------------------------------------------------
(* Statements of other services.                                             *)

LEMMA WrittenKeeps ==
  ASSUME AccessInv, Written, TablesType', TablesWhole', SameOwners,
         \A v \in Vaults : vaults[v] = NoRow => vaults'[v] = NoRow
  PROVE  AccessInv'
<1>1. /\ request' = [d \in Requests |-> request'[d]]
      /\ \A d \in Requests : request'[d] = Watched(request[d])
  <2> HIDE DEF Watched
  <2>1. request' = [d \in Requests |-> Watched(request[d])]
    BY DEF Written
  <2> QED
    BY <2>1
<1>2. ASSUME NEW d \in Requests
      PROVE  /\ Sound(request'[d], people', vaults', shares')
             /\ \A v \in Vaults : Creates(request'[d], v) <=> Creates(request[d], v)
  <2>1. Sound(request[d], people, vaults, shares)
    BY DEF AccessInv
  <2>2. PICK w : w = Watched(request[d])
    OBVIOUS
  <2>3. /\ Sound(w, people', vaults', shares') /\ w.stage = request[d].stage
        /\ UnderWay(request[d]) => w.op = request[d].op /\ w.vault = request[d].vault
    BY <2>1, <2>2, WatchedIsSound DEF AccessInv
  <2> QED
    BY <1>1, <2>2, <2>3 DEF Creates, UnderWay
<1>3. CreateAlone'
  <2> HIDE DEF Creates
  <2>1. \A d \in Requests, v \in Vaults : Creates(request'[d], v) =>
          vaults'[v] = NoRow /\ \A e \in Requests \ {d} : ~Creates(request'[e], v)
    BY <1>2 DEF AccessInv, CreateAlone
  <2> QED
    BY <2>1 DEF CreateAlone
<1> QED
  BY <1>1, <1>2, <1>3 DEF AccessInv

\* People come and go, or change their role.
LEMMA PeopleKeep ==
  ASSUME AccessInv, NEW p \in People,
         \/ \E role \in {"user", "admin"} : create_user_db(p, role) \/ update_user_role(p, role)
         \/ delete_user(p)
  PROVE  AccessInv'
<1>1. TablesType /\ TablesWhole
  BY DEF AccessInv
<1>2. CASE \E role \in {"user", "admin"} : create_user_db(p, role) \/ update_user_role(p, role)
  <2>1. PICK role \in {"user", "admin"} : people' = [people EXCEPT ![p] = role]
    BY <1>2 DEF create_user_db, update_user_role
  <2>2. UNCHANGED <<vaults, shares, teams, members>> /\ Written
    BY <1>2 DEF create_user_db, update_user_role
  <2>3. role # NoRow /\ role \in Roles
    BY NoRowIsNoRow DEF Roles
  <2>4. TablesType'
    BY <1>1, <2>1, <2>2, <2>3 DEF TablesType
  <2>5. \A x \in People : people[x] # NoRow => people'[x] # NoRow
    BY <1>1, <2>1, <2>3 DEF TablesType
  <2>6. /\ \A v \in Vaults : vaults[v] # NoRow => vaults[v].owner \in People
        /\ \A x \in Vaults \X People : x[2] \in People
        /\ \A x \in Teams \X People : x[2] \in People
    BY <1>1 DEF TablesType, VaultRow
  <2>7. TablesWhole'
    BY <1>1, <2>2, <2>5, <2>6 DEF TablesWhole
  <2>8. SameOwners
    BY <2>2 DEF SameOwners
  <2> QED
    BY <2>2, <2>4, <2>7, <2>8, WrittenKeeps
<1>3. CASE delete_user(p)
  <2> DEFINE Removed(v) == vaults[v] # NoRow /\ vaults[v].owner = p
  <2>1. /\ people' = [people EXCEPT ![p] = NoRow]
        /\ vaults' = [v \in Vaults |-> IF Removed(v) THEN NoRow ELSE vaults[v]]
        /\ shares' = [x \in Vaults \X People |->
                        IF x[2] = p \/ Removed(x[1]) THEN NoRow ELSE shares[x]]
        /\ members' = [x \in Teams \X People |-> IF x[2] = p THEN NoRow ELSE members[x]]
        /\ teams' = teams /\ Written
    BY <1>3 DEF delete_user
  <2>2. /\ people' \in [People -> {NoRow} \cup Roles]
        /\ vaults' \in [Vaults -> {NoRow} \cup VaultRow]
    BY <1>1, <2>1 DEF TablesType
  <2>3. shares' \in [Vaults \X People -> {NoRow} \cup Share]
    <3> HIDE DEF Removed
    <3> QED
      BY <1>1, <2>1 DEF TablesType
  <2>4. members' \in [Teams \X People -> {NoRow, "member", "leader"}]
    BY <1>1, <2>1 DEF TablesType
  <2>5. TablesType'
    BY <1>1, <2>1, <2>2, <2>3, <2>4 DEF TablesType
  <2>6. \A v \in Vaults : vaults'[v] # NoRow =>
          vaults'[v] = vaults[v] /\ vaults[v] # NoRow /\ vaults[v].owner # p
    BY <2>1
  <2>7. \A x \in People : x # p => people'[x] = people[x]
    BY <1>1, <2>1 DEF TablesType
  <2>8. \A v \in Vaults : vaults'[v] # NoRow => people'[vaults'[v].owner] # NoRow
    BY <1>1, <2>6, <2>7 DEF TablesType, TablesWhole, VaultRow
  <2>9. \A x \in Vaults \X People : shares'[x] # NoRow =>
          /\ vaults'[x[1]] # NoRow /\ people'[x[2]] # NoRow
          /\ shares'[x].team \in teams' \cup {NoRow}
    <3> SUFFICES ASSUME NEW x \in Vaults \X People, shares'[x] # NoRow
        PROVE /\ vaults'[x[1]] # NoRow /\ people'[x[2]] # NoRow
              /\ shares'[x].team \in teams' \cup {NoRow}
      OBVIOUS
    <3>1. x[2] # p /\ ~Removed(x[1]) /\ shares'[x] = shares[x] /\ x[1] \in Vaults /\ x[2] \in People
      BY <2>1
    <3>2. vaults'[x[1]] = vaults[x[1]]
      BY <2>1, <3>1
    <3> QED
      BY <1>1, <2>1, <2>7, <3>1, <3>2 DEF TablesWhole
  <2>10. \A x \in Teams \X People : members'[x] # NoRow => x[1] \in teams' /\ people'[x[2]] # NoRow
    BY <1>1, <2>1, <2>7 DEF TablesWhole
  <2>11. TablesWhole'
    BY <2>8, <2>9, <2>10 DEF TablesWhole
  <2>12. SameOwners /\ \A v \in Vaults : vaults[v] = NoRow => vaults'[v] = NoRow
    BY <2>1, <2>6 DEF SameOwners
  <2> QED
    BY <2>1, <2>5, <2>11, <2>12, WrittenKeeps
<1> QED
  BY <1>2, <1>3

\* Vaults and users stay, what links them changes.
LEMMA LinksKeep ==
  ASSUME AccessInv, Written, UNCHANGED <<people, vaults>>,
         teams' \subseteq Teams,
         shares' \in [Vaults \X People -> {NoRow} \cup Share],
         members' \in [Teams \X People -> {NoRow, "member", "leader"}],
         \A x \in Vaults \X People : shares'[x] # NoRow =>
           /\ vaults[x[1]] # NoRow /\ people[x[2]] # NoRow
           /\ shares'[x].team \in teams' \cup {NoRow},
         \A x \in Teams \X People : members'[x] # NoRow => x[1] \in teams' /\ people[x[2]] # NoRow
  PROVE  AccessInv'
<1>1. TablesType'
  BY DEF AccessInv, TablesType
<1>2. TablesWhole'
  BY DEF AccessInv, TablesWhole
<1>3. SameOwners /\ \A v \in Vaults : vaults[v] = NoRow => vaults'[v] = NoRow
  BY DEF SameOwners
<1> QED
  BY <1>1, <1>2, <1>3, WrittenKeeps

LEMMA RestoreVaultKeeps ==
  ASSUME AccessInv, NEW v \in Vaults, RestoreVault(v)
  PROVE  AccessInv'
<1>1. vaults[v] # NoRow /\ vaults[v] \in VaultRow
  BY DEF RestoreVault, AccessInv, TablesType
<1>2. PICK row : row = [vaults[v] EXCEPT !.deleted = FALSE]
  OBVIOUS
<1>3. row \in VaultRow /\ row.owner = vaults[v].owner
  BY <1>1, <1>2 DEF VaultRow
<1>4. row # NoRow
  BY <1>3, NoRowIsNoRow DEF VaultRow
<1>5. vaults' = [vaults EXCEPT ![v] = row] /\ UNCHANGED <<people, shares, teams, members>> /\ Written
  BY <1>2 DEF RestoreVault
<1>6. TablesType'
  BY <1>3, <1>5 DEF AccessInv, TablesType
<1>7. vaults'[v] = row /\ \A x \in Vaults \ {v} : vaults'[x] = vaults[x]
  BY <1>5 DEF AccessInv, TablesType
<1>8. \A x \in Vaults : vaults'[x] # NoRow => people[vaults'[x].owner] # NoRow
  BY <1>1, <1>3, <1>7 DEF AccessInv, TablesWhole
<1>9. \A x \in Vaults \X People : shares[x] # NoRow =>
        vaults'[x[1]] # NoRow /\ people[x[2]] # NoRow /\ shares[x].team \in teams \cup {NoRow}
  BY <1>4, <1>7 DEF AccessInv, TablesWhole
<1>10. TablesWhole'
  BY <1>5, <1>8, <1>9 DEF AccessInv, TablesWhole
<1>11. SameOwners /\ \A x \in Vaults : vaults[x] = NoRow => vaults'[x] = NoRow
  BY <1>1, <1>3, <1>7 DEF SameOwners
<1> QED
  BY <1>5, <1>6, <1>10, <1>11, WrittenKeeps

LEMMA SharesKeep ==
  ASSUME AccessInv, NEW v \in Vaults,
         \/ \E kept \in UNION {[who -> Teams \cup {NoRow}] : who \in SUBSET People} :
               replace_all_key_shares(v, kept)
         \/ \E p \in People :
               delete_key_share(v, p) \/ \E share \in Share : insert_key_share(v, p, share)
  PROVE  AccessInv'
<1>1. TablesType /\ TablesWhole
  BY DEF AccessInv
<1>2. \A x \in Vaults \X People : shares[x] # NoRow =>
        vaults[x[1]] # NoRow /\ people[x[2]] # NoRow /\ shares[x].team \in teams \cup {NoRow}
  BY <1>1 DEF TablesWhole
<1>3. \A x \in Teams \X People : members[x] # NoRow => x[1] \in teams /\ people[x[2]] # NoRow
  BY <1>1 DEF TablesWhole
<1>4. CASE \E kept \in UNION {[who -> Teams \cup {NoRow}] : who \in SUBSET People} :
             replace_all_key_shares(v, kept)
  <2>1. PICK kept \in UNION {[set -> Teams \cup {NoRow}] : set \in SUBSET People} :
          replace_all_key_shares(v, kept)
    BY <1>4
  <2>0. PICK who \in SUBSET People : kept \in [who -> Teams \cup {NoRow}]
    OBVIOUS
  <2>2. /\ shares' = [x \in Vaults \X People |->
                       IF x[1] # v THEN shares[x]
                       ELSE IF x[2] \in who THEN [role |-> "read", team |-> kept[x[2]]]
                       ELSE NoRow]
        /\ vaults[v] # NoRow /\ UNCHANGED <<people, vaults, teams, members>> /\ Written
        /\ \A p \in who : people[p] # NoRow /\ kept[p] \in teams \cup {NoRow}
    BY <2>0, <2>1 DEF replace_all_key_shares
  <2>3. \A p \in who : [role |-> "read", team |-> kept[p]] \in Share
    BY <2>0 DEF Share
  <2>4. shares' \in [Vaults \X People -> {NoRow} \cup Share]
    BY <1>1, <2>2, <2>3 DEF TablesType
  <2>5. ASSUME NEW x \in Vaults \X People, shares'[x] # NoRow
        PROVE  /\ vaults[x[1]] # NoRow /\ people[x[2]] # NoRow
               /\ shares'[x].team \in teams \cup {NoRow}
    BY <1>2, <2>2, <2>5
  <2> QED
    BY <1>1, <1>3, <2>2, <2>4, <2>5, LinksKeep DEF TablesType
<1>5. ASSUME NEW p \in People, delete_key_share(v, p) PROVE AccessInv'
  <2>1. shares' = [shares EXCEPT ![<<v, p>>] = NoRow]
        /\ UNCHANGED <<people, vaults, teams, members>> /\ Written
    BY <1>5 DEF delete_key_share
  <2>2. shares' \in [Vaults \X People -> {NoRow} \cup Share]
    BY <1>1, <2>1 DEF TablesType
  <2>3. \A x \in Vaults \X People : shares'[x] # NoRow => shares'[x] = shares[x]
    BY <1>1, <2>1 DEF TablesType
  <2>4. \A x \in Vaults \X People : shares'[x] # NoRow =>
          /\ vaults[x[1]] # NoRow /\ people[x[2]] # NoRow
          /\ shares'[x].team \in teams' \cup {NoRow}
    BY <1>2, <2>1, <2>3
  <2> QED
    BY <1>1, <1>3, <2>1, <2>2, <2>4, LinksKeep DEF TablesType
<1>6. ASSUME NEW p \in People, NEW share \in Share, insert_key_share(v, p, share) PROVE AccessInv'
  <2>1. shares' = [shares EXCEPT ![<<v, p>>] = share]
        /\ UNCHANGED <<people, vaults, teams, members>> /\ Written
        /\ vaults[v] # NoRow /\ people[p] # NoRow /\ share.team \in teams \cup {NoRow}
    BY <1>6 DEF insert_key_share
  <2>2. shares' \in [Vaults \X People -> {NoRow} \cup Share]
    BY <1>1, <2>1 DEF TablesType
  <2>3. \A x \in Vaults \X People :
          shares'[x] = shares[x] \/ (x[1] = v /\ x[2] = p /\ shares'[x] = share)
    BY <1>1, <2>1 DEF TablesType
  <2>4. \A x \in Vaults \X People : shares'[x] # NoRow =>
          /\ vaults[x[1]] # NoRow /\ people[x[2]] # NoRow
          /\ shares'[x].team \in teams' \cup {NoRow}
    BY <1>2, <2>1, <2>3
  <2> QED
    BY <1>1, <1>3, <2>1, <2>2, <2>4, LinksKeep DEF TablesType
<1> QED
  BY <1>4, <1>5, <1>6

LEMMA TeamsKeep ==
  ASSUME AccessInv, NEW t \in Teams,
         \/ create_team(t) \/ delete_team(t)
         \/ \E p \in People :
               \/ \E role \in {"member", "leader"} : add_member(t, p, role)
               \/ remove_member(t, p) \/ delete_key_shares_for_user_via_team(p, t)
  PROVE  AccessInv'
<1>1. TablesType /\ TablesWhole
  BY DEF AccessInv
<1>2. \A x \in Vaults \X People : shares[x] # NoRow =>
        vaults[x[1]] # NoRow /\ people[x[2]] # NoRow /\ shares[x].team \in teams \cup {NoRow}
  BY <1>1 DEF TablesWhole
<1>3. \A x \in Teams \X People : members[x] # NoRow => x[1] \in teams /\ people[x[2]] # NoRow
  BY <1>1 DEF TablesWhole
<1>4. CASE create_team(t)
  <2>1. teams' = teams \cup {t} /\ UNCHANGED <<people, vaults, shares, members>> /\ Written
    BY <1>4 DEF create_team
  <2>2. teams' \subseteq Teams /\ teams \subseteq teams'
    BY <1>1, <2>1 DEF TablesType
  <2> QED
    BY <1>1, <1>2, <1>3, <2>1, <2>2, LinksKeep DEF TablesType
<1>5. CASE delete_team(t)
  <2>1. /\ teams' = teams \ {t}
        /\ members' = [x \in Teams \X People |-> IF x[1] = t THEN NoRow ELSE members[x]]
        /\ shares' = [x \in Vaults \X People |->
                        IF shares[x] # NoRow /\ shares[x].team = t
                        THEN [shares[x] EXCEPT !.team = NoRow] ELSE shares[x]]
        /\ UNCHANGED <<people, vaults>> /\ Written
    BY <1>5 DEF delete_team
  <2>2. \A share \in Share : /\ [share EXCEPT !.team = NoRow] \in Share
                             /\ [share EXCEPT !.team = NoRow].team = NoRow
    BY DEF Share
  <2>3. shares' \in [Vaults \X People -> {NoRow} \cup Share]
    BY <1>1, <2>1, <2>2 DEF TablesType
  <2>4. members' \in [Teams \X People -> {NoRow, "member", "leader"}]
    BY <1>1, <2>1 DEF TablesType
  <2>5. ASSUME NEW x \in Vaults \X People, shares'[x] # NoRow
        PROVE  /\ vaults[x[1]] # NoRow /\ people[x[2]] # NoRow
               /\ shares'[x].team \in teams' \cup {NoRow}
    <3>1. shares[x] # NoRow /\ shares[x] \in Share
      BY <1>1, <2>1, <2>5 DEF TablesType
    <3>2. CASE shares[x].team = t
      <4>1. shares'[x] = [shares[x] EXCEPT !.team = NoRow]
        BY <2>1, <3>1, <3>2
      <4> QED
        BY <1>2, <2>2, <3>1, <4>1
    <3>3. CASE shares[x].team # t
      <4>1. shares'[x] = shares[x]
        BY <2>1, <3>3
      <4> QED
        BY <1>2, <2>1, <3>1, <3>3, <4>1
    <3> QED
      BY <3>2, <3>3
  <2>6. \A x \in Teams \X People : members'[x] # NoRow => x[1] \in teams' /\ people[x[2]] # NoRow
    BY <1>3, <2>1
  <2>7. teams' \subseteq Teams
    BY <1>1, <2>1 DEF TablesType
  <2> QED
    BY <2>1, <2>3, <2>4, <2>5, <2>6, <2>7, LinksKeep
<1>6. ASSUME NEW p \in People, NEW role \in {"member", "leader"}, add_member(t, p, role) PROVE AccessInv'
  <2>1. members' = [members EXCEPT ![<<t, p>>] = role]
        /\ UNCHANGED <<people, vaults, shares, teams>> /\ Written
        /\ t \in teams /\ people[p] # NoRow
    BY <1>6 DEF add_member
  <2>2. members' \in [Teams \X People -> {NoRow, "member", "leader"}]
    BY <1>1, <2>1 DEF TablesType
  <2>3. \A x \in Teams \X People : members'[x] = members[x] \/ (x[1] = t /\ x[2] = p)
    BY <1>1, <2>1 DEF TablesType
  <2>4. \A x \in Teams \X People : members'[x] # NoRow => x[1] \in teams' /\ people[x[2]] # NoRow
    BY <1>3, <2>1, <2>3
  <2> QED
    BY <1>1, <1>2, <2>1, <2>2, <2>4, LinksKeep DEF TablesType
<1>7. ASSUME NEW p \in People, remove_member(t, p) PROVE AccessInv'
  <2>1. members' = [members EXCEPT ![<<t, p>>] = NoRow]
        /\ UNCHANGED <<people, vaults, shares, teams>> /\ Written
    BY <1>7 DEF remove_member
  <2>2. members' \in [Teams \X People -> {NoRow, "member", "leader"}]
    BY <1>1, <2>1 DEF TablesType
  <2>3. \A x \in Teams \X People : members'[x] # NoRow => members'[x] = members[x]
    BY <1>1, <2>1 DEF TablesType
  <2>4. \A x \in Teams \X People : members'[x] # NoRow => x[1] \in teams' /\ people[x[2]] # NoRow
    BY <1>3, <2>1, <2>3
  <2> QED
    BY <1>1, <1>2, <2>1, <2>2, <2>4, LinksKeep DEF TablesType
<1>8. ASSUME NEW p \in People, delete_key_shares_for_user_via_team(p, t) PROVE AccessInv'
  <2>1. /\ shares' = [x \in Vaults \X People |->
                        IF x[2] = p /\ shares[x] # NoRow /\ shares[x].team = t
                        THEN NoRow ELSE shares[x]]
        /\ UNCHANGED <<people, vaults, teams, members>> /\ Written
    BY <1>8 DEF delete_key_shares_for_user_via_team
  <2>2. shares' \in [Vaults \X People -> {NoRow} \cup Share]
    BY <1>1, <2>1 DEF TablesType
  <2>3. \A x \in Vaults \X People : shares'[x] # NoRow => shares'[x] = shares[x]
    BY <2>1
  <2>4. \A x \in Vaults \X People : shares'[x] # NoRow =>
          /\ vaults[x[1]] # NoRow /\ people[x[2]] # NoRow
          /\ shares'[x].team \in teams' \cup {NoRow}
    BY <1>2, <2>1, <2>3
  <2> QED
    BY <1>1, <1>3, <2>1, <2>2, <2>4, LinksKeep DEF TablesType
<1> QED
  BY <1>4, <1>5, <1>6, <1>7, <1>8

-----------------------------------------------------------------------------

LEMMA AccessInit_ ==
  ASSUME AccessInit PROVE AccessInv
<1>1. TablesType /\ TablesWhole
  BY DEF AccessInit, TablesType, Roles, VaultRow
<1>2. \A c \in Requests : request[c] = Nobody
  BY DEF AccessInit
<1>3. \A c \in Requests : Sound(request[c], people, vaults, shares) /\ ~UnderWay(request[c])
  BY <1>2 DEF Sound, UnderWay, Nobody
<1>4. request = [c \in Requests |-> request[c]]
  BY DEF AccessInit
<1> QED
  BY <1>1, <1>3, <1>4 DEF AccessInv, CreateAlone, Creates

LEMMA AccessNext_ ==
  ASSUME AccessInv, [AccessNext]_accessVars PROVE AccessInv'
<1>1. CASE UNCHANGED accessVars
  BY ZenonT(60), <1>1 DEF accessVars, tables, AccessInv, TablesType, TablesWhole, Sound, UpToDate,
     Grounded, CreateAlone, Creates
<1>2. ASSUME NEW c \in Requests, Serve(c) PROVE AccessInv'
  BY <1>2, AskKeeps, GetVaultKeeps, GetUserKeeps, InsertVaultKeeps, GetRowKeeps,
     GetEnvelopeKeeps, TrashVaultKeeps, LastsKeep DEF Serve
<1>3. CASE Elsewhere
  BY <1>3, PeopleKeep, RestoreVaultKeeps, SharesKeep, TeamsKeep DEF Elsewhere
<1> QED
  BY <1>1, <1>2, <1>3 DEF AccessNext

LEMMA AccessInvImplies ==
  ASSUME AccessInv PROVE AccessEarned
<1>1. TablesWhole /\ ViewExact
  BY ViewIsExact DEF AccessInv
<1>2. \A c \in Requests : request[c].stage = "done" =>
        LET q == request[c] IN Fits(q.answer, q.op, q.roles, q.rights, q.given)
  BY DEF AccessInv, Sound, AnsweredByRight, Nobody
<1>3. AnswersEarned
  <2> HIDE DEF MayDelete
  <2> QED
    BY <1>2 DEF AnswersEarned, Fits
<1> QED
  BY <1>1, <1>3 DEF AccessEarned

THEOREM AccessByRight == AccessSpec => []AccessEarned
<1>1. AccessInit => AccessInv
  BY AccessInit_
<1>2. AccessInv /\ [AccessNext]_accessVars => AccessInv'
  BY AccessNext_
<1>3. AccessInv => AccessEarned
  BY AccessInvImplies
<1> QED
  BY <1>1, <1>2, <1>3, PTL DEF AccessSpec

(* What vouches for an account. *)

\* Nobody gains an address, a second factor or an answer without what vouches for it.
THEOREM NothingUnearned == FormSpec /\ TwoFactorSpec /\ AccessSpec => []AccountEarned
<1>1. EmailEarned /\ StoredWasProved /\ AccessEarned => AccountEarned
  BY DEF AccountEarned
<1> QED
  BY <1>1, AddressVouchedFor, SecondFactorProved, AccessByRight, PTL

-----------------------------------------------------------------------------
(* UpdateCheck.                                                            *)

\* A page in status s waits for the one request of its generation g, whose handle is t.
Alive(g, s, t, R) ==
  /\ g \in Nat
  /\ \A r \in R : r.gen \in Nat /\ r.gen <= g
  /\ IF s.kind = "Checking"
     THEN t = g /\ \E r \in R : r.gen = g /\ \A q \in R : q.gen = g => q = r
     ELSE t = Unset /\ \A r \in R : r.gen # g

\* The last request is on record on disk, unless the file is torn, and in memory.
Remembers(p, s) == p.last_attempt \in Nat /\ s <= p.last_attempt
Recorded(s, n, stored, on, p) ==
  s # Unset =>
    /\ s \in Nat /\ s <= n
    /\ stored # Unset
    /\ stored # Torn => Remembers(stored, s)
    /\ on => Remembers(p, s)

UpdateInv ==
  /\ preferences \in Preferences /\ file \in Preferences \cup {Unset, Torn}
  /\ now \in 0..MaxTime
  /\ Alive(generation, status, task, requests)
  /\ Recorded(sent, now, file, up, preferences)
  /\ ~up => requests = {} /\ generation = 0 /\ task = Unset /\ status.kind # "Checking"

\* Of the requests that one step sends, those nobody clicked for.
SentWell ==
  \A r \in requests' \ requests :
    ~r.manual =>
      /\ file' \in Preferences /\ file'.automatic = TRUE /\ file'.last_attempt = now
      /\ sent # Unset => now >= sent + Day

LEMMA SavedIs ==
  ASSUME NEW p, NEW before, NEW w \in save_preferences(p, before)
  PROVE  /\ w[2] \in BOOLEAN
         /\ w[2] => w[1] = p
         /\ ~w[2] => w[1] \in {before, Torn}
<1>1. w \in {<<p, TRUE>>, <<before, FALSE>>, <<Torn, FALSE>>}
  BY DEF save_preferences
<1>2. CASE w = <<p, TRUE>>
  <2>1. w[1] = p /\ w[2] = TRUE
    BY <1>2
  <2> QED
    BY <2>1
<1>3. CASE w = <<before, FALSE>>
  <2>1. w[1] = before /\ w[2] = FALSE
    BY <1>3
  <2> QED
    BY <2>1
<1>4. CASE w = <<Torn, FALSE>>
  <2>1. w[1] = Torn /\ w[2] = FALSE
    BY <1>4
  <2> QED
    BY <2>1
<1> QED
  BY <1>1, <1>2, <1>3, <1>4

LEMMA CheckIsSound ==
  ASSUME now \in 0..MaxTime, NEW manual \in BOOLEAN, NEW p \in Preferences,
         NEW s, NEW stored \in Preferences \cup {Unset, Torn}, NEW t, NEW d, NEW gen,
         Alive(gen, s, t, requests), Recorded(sent, now, stored, TRUE, p),
         check_with(manual, p, s, stored, t, d, gen)
  PROVE  /\ preferences' \in Preferences /\ file' \in Preferences \cup {Unset, Torn}
         /\ Alive(gen, status', task', requests')
         /\ Recorded(sent', now, file', TRUE, preferences')
         /\ SentWell
<1>1. CASE s.kind = "Checking" \/ (~manual /\ ~due(p))
  <2>1. /\ preferences' = p /\ status' = s /\ file' = stored /\ task' = t
        /\ requests' = requests /\ sent' = sent
    BY <1>1 DEF check_with, Quiet
  <2> QED
    BY <2>1 DEF SentWell
<1>2. CASE ~(s.kind = "Checking" \/ (~manual /\ ~due(p)))
  <2>1. PICK attempted : attempted = [p EXCEPT !.last_attempt = now]
    OBVIOUS
  <2>2. /\ attempted \in Preferences /\ attempted.last_attempt = now /\ now \in Nat
        /\ attempted.automatic = p.automatic
    BY <2>1, DayIsTime DEF Preferences
  <2>3. attempted # Unset
    BY <2>2, NoFileIsNoFile
  <2>4. PICK written \in save_preferences(attempted, stored) :
          /\ preferences' = attempted
          /\ file' = written[1]
          /\ IF written[2]
             THEN /\ status' = Is("Checking")
                  /\ task' = gen
                  /\ requests' = requests \cup {[gen |-> gen, manual |-> manual]}
                  /\ sent' = now
             ELSE status' = Is("StorageError") /\ task' = t /\ UNCHANGED <<requests, sent>>
    BY <1>2, <2>1 DEF check_with
  <2>5. /\ written[2] \in BOOLEAN
        /\ written[2] => written[1] = attempted
        /\ ~written[2] => written[1] \in {stored, Torn}
    BY <2>4, SavedIs
  <2>6. /\ t = Unset /\ gen \in Nat
        /\ \A r \in requests : r.gen \in Nat /\ r.gen <= gen /\ r.gen # gen
    BY <1>2 DEF Alive
  <2>7. CASE written[2]
    <3>1. PICK one : one = [gen |-> gen, manual |-> manual]
      OBVIOUS
    <3>2. one.gen = gen /\ one.manual = manual
      BY <3>1
    <3>3. /\ status'.kind = "Checking" /\ task' = gen /\ requests' = requests \cup {one}
          /\ sent' = now /\ file' = attempted /\ preferences' = attempted
      BY <2>4, <2>5, <2>7, <3>1 DEF Is
    <3>4. Alive(gen, status', task', requests')
      <4>1. \A r \in requests' : r.gen \in Nat /\ r.gen <= gen
        BY <2>6, <3>2, <3>3
      <4>2. one \in requests' /\ one.gen = gen /\ \A q \in requests' : q.gen = gen => q = one
        BY <2>6, <3>2, <3>3
      <4> QED
        BY <2>6, <3>3, <4>1, <4>2 DEF Alive
    <3>5. Recorded(sent', now, file', TRUE, preferences')
      BY <2>2, <2>3, <3>3 DEF Recorded, Remembers
    <3>6. SentWell
      <4> SUFFICES ASSUME NEW r \in requests' \ requests, ~r.manual
                   PROVE  /\ file' \in Preferences /\ file'.automatic = TRUE /\ file'.last_attempt = now
                          /\ sent # Unset => now >= sent + Day
        BY DEF SentWell
      <4>1. r = one
        BY <3>3
      <4>2. ~manual
        BY <3>2, <4>1
      <4>3. due(p)
        BY <1>2, <4>2
      <4>4. file' \in Preferences /\ file'.automatic = TRUE /\ file'.last_attempt = now
        BY <2>2, <3>3, <4>3 DEF due
      <4>5. ASSUME sent # Unset PROVE now >= sent + Day
        <5>1. p.last_attempt \in Nat /\ sent \in Nat /\ sent <= p.last_attempt
          BY <4>5 DEF Recorded, Remembers
        <5>2. now >= p.last_attempt + Day
          BY <4>3, <5>1, NoValueIsNoValue DEF due
        <5> QED
          BY <2>2, <5>1, <5>2, DayIsTime
      <4> QED
        BY <4>4, <4>5
    <3> QED
      BY <2>2, <3>3, <3>4, <3>5, <3>6
  <2>8. CASE ~written[2]
    <3>1. /\ status'.kind = "StorageError" /\ task' = t /\ requests' = requests /\ sent' = sent
          /\ file' \in {stored, Torn} /\ preferences' = attempted
      BY <2>4, <2>5, <2>8 DEF Is
    <3>2. Alive(gen, status', task', requests')
      BY <2>6, <3>1 DEF Alive
    <3>3. Recorded(sent', now, file', TRUE, preferences')
      <4> SUFFICES ASSUME sent # Unset
                   PROVE  /\ sent \in Nat /\ sent <= now
                          /\ file' # Unset
                          /\ file' # Torn => Remembers(file', sent)
                          /\ Remembers(attempted, sent)
        BY <3>1 DEF Recorded
      <4>1. /\ sent \in Nat /\ sent <= now /\ stored # Unset
            /\ stored # Torn => Remembers(stored, sent)
        BY DEF Recorded
      <4>2. file' # Unset \/ file' = Torn
        BY <3>1, <4>1
      <4> QED
        BY <2>2, <3>1, <4>1, <4>2, NoFileIsNoFile DEF Remembers
    <3>4. SentWell
      BY <3>1 DEF SentWell
    <3> QED
      BY <2>2, <3>1, <3>2, <3>3, <3>4
  <2> QED
    BY <2>5, <2>7, <2>8
<1> QED
  BY <1>1, <1>2

LEMMA ConsentIsSound ==
  ASSUME UpdateInv, NEW enabled \in BOOLEAN, consent(enabled), up, now' = now, up' = up
  PROVE  UpdateInv' /\ SentWell
<1> DEFINE wanted == [preferences EXCEPT !.automatic = enabled]
           settled == IF status.kind \in {"Checking", "StorageError"} THEN Is("Idle") ELSE status
<1>1. PICK w : w = wanted
  OBVIOUS
<1>2. w \in Preferences /\ w.last_attempt = preferences.last_attempt
  BY <1>1 DEF UpdateInv, Preferences
<1>3. PICK s : s = settled
  OBVIOUS
<1>4. s.kind # "Checking"
  BY <1>3 DEF Is
<1> HIDE DEF wanted, settled
<1>5. generation \in Nat /\ generation' = generation + 1
  BY DEF consent, UpdateInv, Alive
<1>6. \A r \in requests : r.gen \in Nat /\ r.gen <= generation
  BY DEF UpdateInv, Alive
<1>7. \A r \in requests : r.gen \in Nat /\ r.gen <= generation + 1 /\ r.gen # generation + 1
  BY <1>5, <1>6
<1>8. Alive(generation + 1, s, Unset, requests)
  BY <1>4, <1>5, <1>7 DEF Alive
<1>9. PICK written \in save_preferences(w, file) :
        IF ~written[2]
        THEN /\ preferences' = preferences /\ status' = Is("StorageError")
             /\ file' = written[1] /\ task' = Unset
             /\ UNCHANGED <<requests, sent>>
        ELSE IF enabled
             THEN check_with(FALSE, w, s, written[1], Unset, FALSE, generation + 1)
             ELSE Quiet(w, s, written[1], Unset, TRUE)
  BY <1>1, <1>3 DEF consent, wanted, settled
<1>10. /\ written[2] \in BOOLEAN
       /\ written[2] => written[1] = w
       /\ ~written[2] => written[1] \in {file, Torn}
  BY <1>9, SavedIs
<1>11. sent # Unset => /\ sent \in Nat /\ sent <= now /\ file # Unset
                       /\ file # Torn => Remembers(file, sent)
                       /\ Remembers(preferences, sent)
  BY DEF UpdateInv, Recorded
<1>12. CASE ~written[2]
  <2>1. /\ preferences' = preferences /\ status'.kind = "StorageError" /\ file' \in {file, Torn}
        /\ task' = Unset /\ requests' = requests /\ sent' = sent
    BY <1>9, <1>10, <1>12 DEF Is
  <2>2. Alive(generation', status', task', requests')
    BY <1>5, <1>7, <2>1 DEF Alive
  <2>3. Recorded(sent', now', file', up', preferences')
    BY <1>11, <2>1, NoFileIsNoFile DEF Recorded
  <2> QED
    BY <2>1, <2>2, <2>3 DEF UpdateInv, SentWell
<1>13. CASE written[2]
  <2>1. w # Unset /\ w \in Preferences \cup {Unset, Torn}
    BY <1>2, NoFileIsNoFile
  <2>2. sent # Unset => Remembers(w, sent)
    BY <1>2, <1>11 DEF Remembers
  <2>3. Recorded(sent, now, w, TRUE, w)
    BY <1>11, <2>1, <2>2 DEF Recorded
  <2>4. /\ preferences' \in Preferences /\ file' \in Preferences \cup {Unset, Torn}
        /\ Alive(generation + 1, status', task', requests')
        /\ Recorded(sent', now, file', TRUE, preferences')
        /\ SentWell
    <3>1. CASE enabled
      <4>1. check_with(FALSE, w, s, w, Unset, FALSE, generation + 1)
        BY <1>9, <1>10, <1>13, <3>1
      <4>2. now \in 0..MaxTime
        BY DEF UpdateInv
      <4> QED
        BY <1>2, <1>8, <2>1, <2>3, <4>1, <4>2, CheckIsSound
    <3>2. CASE ~enabled
      <4>1. /\ preferences' = w /\ status' = s /\ file' = w /\ task' = Unset
            /\ requests' = requests /\ sent' = sent
        BY <1>9, <1>10, <1>13, <3>2 DEF Quiet
      <4> QED
        BY <1>2, <1>8, <2>1, <2>3, <4>1 DEF SentWell
    <3> QED
      BY <3>1, <3>2
  <2> QED
    BY <1>5, <2>4 DEF UpdateInv
<1> QED
  BY <1>10, <1>12, <1>13

LEMMA CheckNowIsSound ==
  ASSUME UpdateInv, CheckNow, up, now' = now, up' = up, generation' = generation
  PROVE  UpdateInv' /\ SentWell
<1>1. check_with(TRUE, preferences, status, file, task, dismissed, generation)
  BY DEF CheckNow
<1>2. /\ now \in 0..MaxTime /\ preferences \in Preferences /\ file \in Preferences \cup {Unset, Torn}
      /\ Alive(generation, status, task, requests) /\ Recorded(sent, now, file, TRUE, preferences)
  BY DEF UpdateInv, Recorded
<1>3. /\ preferences' \in Preferences /\ file' \in Preferences \cup {Unset, Torn}
      /\ Alive(generation, status', task', requests')
      /\ Recorded(sent', now, file', TRUE, preferences')
      /\ SentWell
  BY <1>1, <1>2, CheckIsSound
<1> QED
  BY <1>2, <1>3 DEF UpdateInv

LEMMA StartIsSound ==
  ASSUME UpdateInv, initialize
  PROVE  UpdateInv' /\ SentWell
<1>1. ~up /\ up' /\ now' = now /\ generation' = generation
  BY DEF initialize
<1>2. requests = {} /\ generation = 0 /\ task = Unset /\ status.kind # "Checking"
  BY <1>1 DEF UpdateInv
<1>3. CASE file = Torn
  <2>1. /\ preferences' = Default /\ status' = Is("StorageError") /\ sent' = Unset
        /\ file' = file /\ task' = task /\ requests' = requests
    BY <1>3 DEF initialize
  <2>2. Default \in Preferences
    BY DEF Default, Preferences
  <2> QED
    BY <1>1, <1>2, <2>1, <2>2 DEF UpdateInv, SentWell, Alive, Recorded, Is
<1>4. CASE file # Torn
  <2>1. PICK p : p = read_preferences
    OBVIOUS
  <2>2. p \in Preferences
    BY <1>4, <2>1 DEF read_preferences, UpdateInv, Default, Preferences
  <2>3. PICK s : s = IF p.automatic = TRUE /\ p.latest \in Stable /\ newer(p.latest)
                     THEN Available(p.latest) ELSE Is("Idle")
    OBVIOUS
  <2>4. s.kind # "Checking"
    BY <2>3 DEF Available, Is
  <2>5. check_with(FALSE, p, s, file, Unset, FALSE, 0)
    BY <1>4, <2>1, <2>3 DEF initialize
  <2>6. Alive(0, s, Unset, requests)
    BY <1>2, <2>4 DEF Alive
  <2>7. Recorded(sent, now, file, TRUE, p)
    BY <1>4, <2>1 DEF UpdateInv, Recorded, read_preferences
  <2>8. now \in 0..MaxTime /\ file \in Preferences \cup {Unset, Torn}
    BY DEF UpdateInv
  <2>9. /\ preferences' \in Preferences /\ file' \in Preferences \cup {Unset, Torn}
        /\ Alive(0, status', task', requests')
        /\ Recorded(sent', now, file', TRUE, preferences')
        /\ SentWell
    BY <2>2, <2>5, <2>6, <2>7, <2>8, CheckIsSound
  <2> QED
    BY <1>1, <1>2, <2>8, <2>9 DEF UpdateInv, Recorded
<1> QED
  BY <1>3, <1>4

LEMMA AnswerIsSound ==
  ASSUME UpdateInv, NEW r \in requests, NEW tag \in Stable \cup {Unset}, AnswerRequest(r, tag)
  PROVE  UpdateInv' /\ SentWell
<1>1. /\ requests' = requests \ {r} /\ up' = up /\ generation' = generation /\ now' = now
      /\ sent' = sent /\ up
  BY DEF AnswerRequest, UpdateInv
<1>2. SentWell
  BY <1>1 DEF SentWell
<1>3. /\ preferences \in Preferences /\ file \in Preferences \cup {Unset, Torn}
      /\ now \in 0..MaxTime
  BY DEF UpdateInv
<1>4. /\ generation \in Nat
      /\ \A q \in requests : q.gen \in Nat /\ q.gen <= generation
      /\ IF status.kind = "Checking"
         THEN task = generation /\ \E x \in requests : x.gen = generation
                /\ \A q \in requests : q.gen = generation => q = x
         ELSE task = Unset /\ \A q \in requests : q.gen # generation
  BY DEF UpdateInv, Alive
<1>5. CASE r.gen # generation
  <2>1. UNCHANGED <<preferences, file, status, task>>
    BY <1>5 DEF AnswerRequest
  <2>2. Alive(generation', status', task', requests')
    BY <1>1, <1>4, <1>5, <2>1 DEF Alive
  <2> QED
    BY <1>1, <1>2, <2>1, <2>2 DEF UpdateInv
<1>6. CASE r.gen = generation
  <2>1. \A q \in requests' : q.gen \in Nat /\ q.gen <= generation /\ q.gen # generation
    BY <1>1, <1>4, <1>6
  <2>2. task' = Unset
    BY <1>6 DEF AnswerRequest
  <2>3. /\ status'.kind # "Checking" /\ preferences' \in Preferences
        /\ preferences'.last_attempt = preferences.last_attempt
        /\ file' \in {preferences', file, Torn}
    <3>1. CASE tag = Unset
      BY <1>3, <1>6, <3>1 DEF AnswerRequest, Is
    <3>2. CASE tag # Unset
      <4>1. PICK p : p = [preferences EXCEPT !.latest = tag]
        OBVIOUS
      <4>2. p \in Preferences /\ p.last_attempt = preferences.last_attempt
        BY <1>3, <3>2, <4>1, StableNewer DEF Preferences
      <4>3. PICK written \in save_preferences(p, file) :
              /\ preferences' = p /\ file' = written[1]
              /\ status' = IF ~written[2] THEN Is("StorageError")
                           ELSE IF newer(tag) THEN Available(tag) ELSE Is("Current")
        BY <1>6, <3>2, <4>1 DEF AnswerRequest
      <4>4. status'.kind # "Checking"
        BY <4>3 DEF Is, Available
      <4>5. written[1] \in {p, file, Torn}
        BY <4>3, SavedIs
      <4> QED
        BY <4>2, <4>3, <4>4, <4>5
    <3> QED
      BY <3>1, <3>2
  <2>4. Alive(generation', status', task', requests')
    BY <1>1, <1>4, <2>1, <2>2, <2>3 DEF Alive
  <2>5. Recorded(sent', now', file', up', preferences')
    <3>1. preferences' # Unset
      BY <2>3, NoFileIsNoFile
    <3> QED
      BY <1>1, <2>3, <3>1, NoFileIsNoFile DEF UpdateInv, Recorded, Remembers
  <2> QED
    BY <1>1, <1>2, <1>3, <2>3, <2>4, <2>5 DEF UpdateInv
<1> QED
  BY <1>5, <1>6

LEMMA UpdateStep ==
  ASSUME UpdateInv, [UpdateNext]_updateVars
  PROVE  UpdateInv' /\ (UpdateNext => SentWell)
<1>1. CASE initialize
  BY <1>1, StartIsSound
<1>2. CASE Stop
  <2>1. /\ ~up' /\ file' \in {file, Torn} /\ preferences' = Default /\ status' = Is("Idle")
        /\ generation' = 0 /\ task' = Unset /\ requests' = {} /\ now' = now /\ sent' = sent /\ up
    BY <1>2 DEF Stop
  <2>2. Default \in Preferences
    BY DEF Default, Preferences
  <2>3. Recorded(sent', now', file', up', preferences')
    BY <2>1, NoFileIsNoFile DEF UpdateInv, Recorded
  <2> QED
    BY <2>1, <2>2, <2>3 DEF UpdateInv, SentWell, Alive, Is
<1>3. CASE SetClock
  <2>1. /\ UNCHANGED <<up, preferences, file, status, generation, task, requests>>
        /\ now' \in 0..MaxTime /\ sent' = IF now' < now THEN Unset ELSE sent
    BY <1>3 DEF SetClock
  <2>2. Recorded(sent', now', file', up', preferences')
    BY <2>1, DayIsTime DEF UpdateInv, Recorded
  <2> QED
    BY <2>1, <2>2 DEF UpdateInv, SentWell
<1>4. CASE Toggle \/ CheckButton \/ BannerPrimary \/ BannerSecondary
  <2>1. up /\ now' = now /\ up' = up
    BY <1>4 DEF Toggle, CheckButton, BannerPrimary, BannerSecondary, Changes
  <2>2. \/ \E enabled \in BOOLEAN : consent(enabled)
        \/ CheckNow /\ generation' = generation
        \/ UNCHANGED <<preferences, file, status, generation, task, requests, sent>>
    BY <1>4 DEF Toggle, CheckButton, BannerPrimary, BannerSecondary
  <2>3. CASE UNCHANGED <<preferences, file, status, generation, task, requests, sent>>
    BY <2>1, <2>3 DEF UpdateInv, SentWell
  <2> QED
    BY <2>1, <2>2, <2>3, ConsentIsSound, CheckNowIsSound
<1>5. CASE Answers
  <2>1. PICK r \in requests, reply \in Replies : AnswerRequest(r, fetch(reply))
    BY <1>5 DEF Answers
  <2>2. fetch(reply) \in Stable \cup {Unset}
    BY DEF fetch, parse_release
  <2> QED
    BY <2>1, <2>2, AnswerIsSound
<1>6. CASE UNCHANGED updateVars
  <2>1. UNCHANGED <<up, preferences, file, status, generation, task, requests, now, sent>>
    BY <1>6 DEF updateVars
  <2> QED
    BY <2>1 DEF UpdateInv, SentWell
<1> QED
  BY <1>1, <1>2, <1>3, <1>4, <1>5, <1>6 DEF UpdateNext

LEMMA UpdateStarts == UpdateInit => UpdateInv
BY DayIsTime DEF UpdateInit, UpdateInv, Alive, Recorded, Default, Preferences, Is

LEMMA UpdateAlive == UpdateInv => CheckingIsAlive
<1> SUFFICES ASSUME UpdateInv PROVE CheckingIsAlive
  OBVIOUS
<1>1. /\ generation \in Nat
      /\ IF status.kind = "Checking"
         THEN task = generation /\ \E x \in requests : x.gen = generation
                /\ \A q \in requests : q.gen = generation => q = x
         ELSE task = Unset /\ \A q \in requests : q.gen # generation
  BY DEF UpdateInv, Alive
<1>2. Cardinality({r \in requests : r.gen = generation}) <= 1
  <2>1. CASE status.kind = "Checking"
    <3>1. PICK x \in requests : x.gen = generation /\ \A q \in requests : q.gen = generation => q = x
      BY <1>1, <2>1
    <3>2. {r \in requests : r.gen = generation} = {x}
      BY <3>1
    <3> QED
      <4>1. Cardinality({x}) = 1
        BY FS_Singleton
      <4> QED
        BY <3>2, <4>1
  <2>2. CASE status.kind # "Checking"
    <3>1. {r \in requests : r.gen = generation} = {}
      BY <1>1, <2>2
    <3> QED
      BY <3>1, FS_EmptySet
  <2> QED
    BY <2>1, <2>2
<1> QED
  BY <1>1, <1>2, NoValueIsNoValue DEF CheckingIsAlive

THEOREM CheckIsAlive == UpdateSpec => []CheckingIsAlive
<1>1. UpdateInit => UpdateInv
  BY UpdateStarts
<1>2. UpdateInv /\ [UpdateNext]_updateVars => UpdateInv'
  BY UpdateStep
<1>3. UpdateInv => CheckingIsAlive
  BY UpdateAlive
<1> QED
  BY <1>1, <1>2, <1>3, PTL DEF UpdateSpec

THEOREM RequestsAreEarned == UpdateSpec => AutomaticEarned
<1>1. UpdateInit => UpdateInv
  BY UpdateStarts
<1>2. UpdateInv /\ [UpdateNext]_updateVars => UpdateInv'
  BY UpdateStep
<1>3. UpdateInv /\ [UpdateNext]_updateVars =>
        [\A r \in requests' \ requests :
            ~r.manual =>
                /\ file' \in Preferences /\ file'.automatic = TRUE /\ file'.last_attempt = now
                /\ sent # Unset => now >= sent + Day]_updateVars
  BY UpdateStep DEF SentWell
<1> QED
  BY <1>1, <1>2, <1>3, PTL DEF UpdateSpec, AutomaticEarned

-----------------------------------------------------------------------------
(* Counting.                                                               *)

\* Induction over the naturals, for a set.
LEMMA CountsUp ==
  ASSUME NEW S, 0 \in S, \A n \in Nat : n \in S => n + 1 \in S
  PROVE  Nat \subseteq S
<1> SUFFICES ASSUME Nat \ S # {} PROVE FALSE
  OBVIOUS
<1>1. \E x \in Nat \ S : \A y \in Nat \ S : ~(<<y, x>> \in OpToRel(<, Nat))
  <2>1. Nat \ S \subseteq Nat
    OBVIOUS
  <2> QED
    BY <2>1, WFMin, NatLessThanWellFounded, Zenon
<1>2. PICK x \in Nat \ S : \A y \in Nat \ S : ~(y < x)
  BY <1>1 DEF OpToRel
<1>3. x # 0 /\ x - 1 \in Nat
  OBVIOUS
<1>4. x - 1 \in S
  BY <1>2, <1>3
<1> QED
  BY <1>3, <1>4

Rank(S, i) == Cardinality({j \in S : j <= i})

\* The places of the members of a finite set of numbers, in their order.
LEMMA Ranks ==
  ASSUME NEW S \in SUBSET Nat, IsFiniteSet(S)
  PROVE  /\ Cardinality(S) \in Nat
         /\ \A i \in S : Rank(S, i) \in 1..Cardinality(S)
         /\ \A i, k \in S : Rank(S, i) = Rank(S, k) => i = k
         /\ \A n \in 1..Cardinality(S) : \E i \in S : Rank(S, i) = n
<1> DEFINE Low(i) == {j \in S : j <= i}
           place == [i \in S |-> Rank(S, i)]
<1>1. Cardinality(S) \in Nat
  BY FS_CardinalityType
<1>2. ASSUME NEW i \in S
      PROVE  IsFiniteSet(Low(i)) /\ Rank(S, i) \in 1..Cardinality(S)
  <2>1. Low(i) \in SUBSET S /\ i \in Low(i)
    OBVIOUS
  <2>2. IsFiniteSet(Low(i)) /\ Cardinality(Low(i)) <= Cardinality(S)
    BY <2>1, FS_Subset
  <2>3. Cardinality(Low(i)) \in Nat /\ Cardinality(Low(i)) # 0
    BY <2>1, <2>2, FS_CardinalityType, FS_EmptySet
  <2> QED
    BY <1>1, <2>2, <2>3 DEF Rank
<1>3. ASSUME NEW i \in S, NEW k \in S, i < k
      PROVE  Rank(S, i) # Rank(S, k)
  <2>0. i \in Nat /\ k \in Nat
    OBVIOUS
  <2>1. Low(i) \in SUBSET Low(k) /\ k \in Low(k) /\ k \notin Low(i)
    <3>1. \A j \in Nat : j <= i => j <= k
      BY <1>3, <2>0
    <3>2. k <= k /\ ~(k <= i)
      BY <1>3, <2>0
    <3>3. \A j \in S : j \in Nat
      OBVIOUS
    <3> QED
      BY <3>1, <3>2, <3>3, Zenon
  <2>2. IsFiniteSet(Low(k))
    BY <1>2, Zenon
  <2>3. Cardinality(Low(i)) # Cardinality(Low(k))
    <3> HIDE DEF Low
    <3> QED
      BY <2>1, <2>2, FS_Subset
  <2>4. Rank(S, i) = Cardinality(Low(i)) /\ Rank(S, k) = Cardinality(Low(k))
    BY Zenon DEF Rank
  <2> HIDE DEF Low
  <2> QED
    BY <2>3, <2>4
<1>4. \A i, k \in S : Rank(S, i) = Rank(S, k) => i = k
  <2> TAKE i, k \in S
  <2>1. i < k \/ k < i \/ i = k
    OBVIOUS
  <2> QED
    BY <1>3, <2>1
<1>5. place \in Surjection(S, 1..Cardinality(S))
  <2>1. place \in Injection(S, 1..Cardinality(S))
    <3> HIDE DEF Low
    <3> QED
      BY <1>2, <1>4 DEF Injection, IsInjective
  <2>2. IsFiniteSet(1..Cardinality(S)) /\ Cardinality(1..Cardinality(S)) = Cardinality(S)
    BY <1>1, FS_Interval
  <2> HIDE DEF place
  <2> QED
    BY <2>1, <2>2, FS_Injection
<1>6. \A n \in 1..Cardinality(S) : \E i \in S : Rank(S, i) = n
  BY <1>5 DEF Surjection
<1> QED
  BY <1>1, <1>2, <1>4, <1>6

-----------------------------------------------------------------------------
(* UrlCheck.                                                               *)

\* The addresses at which an origin may be contacted.
Reachable(o) ==
  IF o.host.family # 0 THEN {h \in {o.host} : is_public_ip(h)}
  ELSE {a \in Addresses :
          \E raw \in Lookups :
            /\ Len(raw) <= MAX_DNS_RESULTS
            /\ \A i \in DOMAIN raw : is_public_ip(raw[i])
            /\ \E i \in DOMAIN raw : raw[i] = a}

ProbeOK(p, ag) ==
  /\ p = [turn |-> p.turn, origin |-> p.origin, stage |-> p.stage, left |-> p.left,
          tried |-> p.tried, verdict |-> p.verdict, aborted |-> p.aborted]
  /\ p.origin \in ag
  /\ p.stage = "resolve" => p.origin.scheme = "https" /\ p.origin.host.family = 0
  /\ p.stage = "connect" => p.origin.scheme = "https" /\ p.left \in Seq(Reachable(p.origin))

\* A check of the present turn is the only one, of the text on screen, and shown.
Present(p, g, x, s) ==
  /\ p.turn \in Nat /\ p.turn <= g
  /\ p.turn = g => p.origin = Origin(x) /\ ~p.aborted /\ s = Busy

UrlInv ==
  /\ turn \in Nat
  /\ dialog # Nothing =>
       /\ dialog.turn \in Nat /\ dialog.turn <= turn
       /\ dialog.turn = turn => dialog.origin = Origin(text) /\ sensitive
  /\ \A p \in probes : ProbeOK(p, agreed) /\ Present(p, turn, text, shown)
  /\ \A p, q \in probes : p.turn = turn /\ q.turn = turn => p = q
  /\ shown = Busy => mapped /\ ~sensitive /\ \E p \in probes : p.turn = turn
  /\ shown.kind = "result" => mapped /\ shown.origin = Origin(text) /\ shown.origin \in agreed
  /\ OnlyPublic

-----------------------------------------------------------------------------
(* What the resolver's answer is filtered to. *)

LEMMA ValidatedIs ==
  ASSUME NEW raw \in Seq(Addresses), validate_resolved(raw).error = Nothing
  PROVE  /\ \A i \in DOMAIN raw : is_public_ip(raw[i])
         /\ validate_resolved(raw).addresses \in Seq({raw[i] : i \in DOMAIN raw})
<1> DEFINE first(i) == \A j \in 1..(i - 1) : raw[j] # raw[i]
           rank(i) == Cardinality({j \in 1..i : first(j)})
           F == {i \in DOMAIN raw : first(i)}
           all == {raw[i] : i \in DOMAIN raw}
<1>1. Nothing # "dns" /\ Nothing # "blocked"
  BY NothingIsNoVerdict DEF Verdicts
<1>2. raw # <<>> /\ \A i \in DOMAIN raw : is_public_ip(raw[i])
  BY <1>1 DEF validate_resolved
<1>3. validate_resolved(raw).addresses =
        [k \in 1..Cardinality(F) |-> raw[CHOOSE i \in DOMAIN raw : first(i) /\ rank(i) = k]]
  <2>1. ~(\E i \in DOMAIN raw : ~is_public_ip(raw[i]))
    BY <1>2
  <2>2. validate_resolved(raw) =
          [error |-> Nothing,
           addresses |-> [k \in 1..Cardinality(F) |->
                            raw[CHOOSE i \in DOMAIN raw : first(i) /\ rank(i) = k]]]
    BY <1>2, <2>1, Zenon DEF validate_resolved
  <2> HIDE DEF F, first, rank
  <2> QED
    BY <2>2
<1>4. DOMAIN raw = 1..Len(raw) /\ Len(raw) \in Nat
  BY LenProperties
<1>5. F \in SUBSET Nat /\ IsFiniteSet(F)
  <2>1. IsFiniteSet(1..Len(raw))
    BY <1>4, FS_Interval
  <2>2. F \in SUBSET (1..Len(raw))
    BY <1>4
  <2> HIDE DEF F
  <2> QED
    <3>1. IsFiniteSet(F)
      BY <2>1, <2>2, FS_Subset
    <3>2. 1..Len(raw) \subseteq Nat
      BY <1>4
    <3> QED
      BY <2>2, <3>1, <3>2
<1>6. ASSUME NEW k \in 1..Cardinality(F)
      PROVE  \E i \in DOMAIN raw : first(i) /\ rank(i) = k
  <2>1. PICK i \in F : Rank(F, i) = k
    <3> HIDE DEF F
    <3> QED
      BY <1>5, Ranks
  <2>2. {j \in F : j <= i} = {j \in 1..i : first(j)}
    <3>1. i \in 1..Len(raw) /\ F = {j \in 1..Len(raw) : first(j)}
      BY <1>4
    <3> HIDE DEF F, first
    <3> QED
      BY <1>4, <3>1
  <2>3. rank(i) = k
    <3> HIDE DEF F, first
    <3> QED
      BY <2>1, <2>2, Zenon DEF Rank
  <2>4. i \in DOMAIN raw /\ first(i)
    BY <2>1
  <2> HIDE DEF F, first, rank
  <2> QED
    BY <2>3, <2>4
<1>7. \A k \in 1..Cardinality(F) :
        raw[CHOOSE i \in DOMAIN raw : first(i) /\ rank(i) = k] \in all
  <2> SUFFICES ASSUME NEW k \in 1..Cardinality(F)
               PROVE  raw[CHOOSE i \in DOMAIN raw : first(i) /\ rank(i) = k] \in all
    OBVIOUS
  <2>1. (CHOOSE i \in DOMAIN raw : first(i) /\ rank(i) = k) \in DOMAIN raw
    <3>1. \E i \in DOMAIN raw : first(i) /\ rank(i) = k
      BY <1>6
    <3> HIDE DEF F, first, rank
    <3> QED
      BY <3>1
  <2>2. PICK c : c = CHOOSE i \in DOMAIN raw : first(i) /\ rank(i) = k
    OBVIOUS
  <2>3. raw[c] \in all
    BY <2>1, <2>2
  <2> HIDE DEF F, first, rank, all
  <2> QED
    BY <2>2, <2>3
<1>8. PICK n \in Nat : n = Cardinality(F)
  <2> HIDE DEF F
  <2> QED
    BY <1>5, FS_CardinalityType
<1> HIDE DEF F, first, rank, all
<1>9. validate_resolved(raw).addresses \in [1..n -> all]
  BY <1>3, <1>7, <1>8
<1>10. validate_resolved(raw).addresses \in Seq(all)
  BY <1>8, <1>9
<1> QED
  BY <1>2, <1>10 DEF all

LEMMA ResolvedIs ==
  ASSUME NEW raw \in Lookups, resolve(raw).error = Nothing,
         NEW o, o.host.family = 0
  PROVE  resolve(raw).addresses \in Seq(Reachable(o))
<1>1. raw \in Seq(Addresses) /\ Len(raw) \in Nat /\ DOMAIN raw = 1..Len(raw)
  BY LookupsAnswer, LenProperties
<1>2. Nothing # "dns"
  BY NothingIsNoVerdict DEF Verdicts
<1>3. Len(raw) <= MAX_DNS_RESULTS /\ resolve(raw) = validate_resolved(raw)
  BY <1>1, <1>2, LimitsAreNumbers DEF resolve
<1>4. PICK s : s = resolve(raw).addresses
  OBVIOUS
<1>5. /\ \A i \in DOMAIN raw : is_public_ip(raw[i])
      /\ s \in Seq({raw[i] : i \in DOMAIN raw})
  BY <1>1, <1>3, <1>4, ValidatedIs
<1>6. {raw[i] : i \in DOMAIN raw} \subseteq Reachable(o)
  <2> SUFFICES ASSUME NEW i \in DOMAIN raw PROVE raw[i] \in Reachable(o)
    OBVIOUS
  <2>1. raw[i] \in Addresses
    BY <1>1, ElementOfSeq
  <2> QED
    BY <1>3, <1>5, <2>1, Zenon DEF Reachable
<1>7. PICK S : S = {raw[i] : i \in DOMAIN raw}
  OBVIOUS
<1>8. s \in Seq(Reachable(o))
  BY <1>5, <1>6, <1>7
<1> QED
  BY <1>4, <1>8

-----------------------------------------------------------------------------
(* The steps of a check. *)

Moved(p, q) == q.turn = p.turn /\ q.origin = p.origin /\ q.aborted = p.aborted

LEMMA DoneIs ==
  ASSUME NEW p, ProbeOK(p, agreed), NEW verdict
  PROVE  Moved(p, Done(p, verdict)) /\ ProbeOK(Done(p, verdict), agreed)
<1>1. PICK q : q = Done(p, verdict)
  OBVIOUS
<1>2. p = [turn |-> p.turn, origin |-> p.origin, stage |-> p.stage, left |-> p.left,
           tried |-> p.tried, verdict |-> p.verdict, aborted |-> p.aborted]
  BY DEF ProbeOK
<1>3. q = [turn |-> p.turn, origin |-> p.origin, stage |-> "done", left |-> p.left,
           tried |-> p.tried, verdict |-> verdict, aborted |-> p.aborted]
  BY <1>1, <1>2 DEF Done
<1>4. /\ q.turn = p.turn /\ q.origin = p.origin /\ q.stage = "done" /\ q.left = p.left
      /\ q.tried = p.tried /\ q.verdict = verdict /\ q.aborted = p.aborted
  BY <1>3
<1>5. p.origin \in agreed
  BY DEF ProbeOK
<1> QED
  BY <1>1, <1>3, <1>4, <1>5 DEF Moved, ProbeOK

LEMMA ReachIs ==
  ASSUME NEW p, ProbeOK(p, agreed), p.origin.scheme = "https",
         NEW left \in Seq(Reachable(p.origin)), NEW tried, NEW verdict,
         NEW q, q = [p EXCEPT !.stage = "connect", !.left = left, !.tried = tried, !.verdict = verdict]
  PROVE  Moved(p, q) /\ ProbeOK(q, agreed)
<1>2. p = [turn |-> p.turn, origin |-> p.origin, stage |-> p.stage, left |-> p.left,
           tried |-> p.tried, verdict |-> p.verdict, aborted |-> p.aborted]
  BY DEF ProbeOK
<1>3. q = [turn |-> p.turn, origin |-> p.origin, stage |-> "connect", left |-> left,
           tried |-> tried, verdict |-> verdict, aborted |-> p.aborted]
  BY <1>2
<1>4. /\ q.turn = p.turn /\ q.origin = p.origin /\ q.stage = "connect" /\ q.left = left
      /\ q.tried = tried /\ q.verdict = verdict /\ q.aborted = p.aborted
  BY <1>3
<1>5. p.origin \in agreed
  BY DEF ProbeOK
<1> QED
  BY <1>3, <1>4, <1>5 DEF Moved, ProbeOK

\* A step of a check that starts no connection, or one at an address it may reach.
LEMMA MovesKeep ==
  ASSUME UrlInv, NEW p \in probes, NEW q, Moves(p, q), Moved(p, q), ProbeOK(q, agreed),
         \/ contacts' = contacts
         \/ /\ p.stage = "connect" /\ p.left # <<>>
            /\ contacts' = contacts \cup {<<p.origin, Head(p.left)>>}
  PROVE  UrlInv'
<1>1. /\ probes' = (probes \ {p}) \cup {q}
      /\ UNCHANGED <<text, mapped, sensitive, shown, dialog, turn, agreed>>
  BY DEF Moves
<1>2. /\ turn \in Nat /\ \A r \in probes : ProbeOK(r, agreed) /\ Present(r, turn, text, shown)
      /\ \A r, s \in probes : r.turn = turn /\ s.turn = turn => r = s
  BY DEF UrlInv
<1>3. \A r \in probes' : ProbeOK(r, agreed) /\ Present(r, turn, text, shown)
  BY <1>1, <1>2 DEF Moved, Present
<1>4. \A r, s \in probes' : r.turn = turn /\ s.turn = turn => r = s
  BY <1>1, <1>2 DEF Moved
<1>5. (\E r \in probes : r.turn = turn) => \E r \in probes' : r.turn = turn
  BY <1>1 DEF Moved
<1>6. OnlyPublic'
  <2>1. OnlyPublic /\ ProbeOK(p, agreed)
    BY DEF UrlInv
  <2>2. CASE contacts' = contacts
    BY <1>1, <2>1, <2>2 DEF OnlyPublic
  <2>3. CASE /\ p.stage = "connect" /\ p.left # <<>>
             /\ contacts' = contacts \cup {<<p.origin, Head(p.left)>>}
    <3>1. PICK a : a = Head(p.left)
      OBVIOUS
    <3>2. a \in Reachable(p.origin) /\ p.origin \in agreed /\ p.origin.scheme = "https"
      <4>1. PICK S, s : S = Reachable(p.origin) /\ s = p.left
        OBVIOUS
      <4>2. s \in Seq(S) /\ s # <<>>
        BY <2>1, <2>3, <4>1 DEF ProbeOK
      <4>3. Head(s) \in S
        BY <4>2, HeadTailProperties
      <4> QED
        BY <2>1, <2>3, <3>1, <4>1, <4>3 DEF ProbeOK
    <3>3. /\ is_public_ip(a)
          /\ p.origin.host.family # 0 => a = p.origin.host
          /\ p.origin.host.family = 0 =>
               \E raw \in Lookups :
                  /\ Len(raw) <= MAX_DNS_RESULTS
                  /\ \A i \in DOMAIN raw : is_public_ip(raw[i])
                  /\ \E i \in DOMAIN raw : raw[i] = a
      <4>1. CASE p.origin.host.family # 0
        BY <3>2, <4>1, Zenon DEF Reachable
      <4>2. CASE p.origin.host.family = 0
        <5>1. PICK raw \in Lookups :
                  /\ Len(raw) <= MAX_DNS_RESULTS
                  /\ \A i \in DOMAIN raw : is_public_ip(raw[i])
                  /\ \E i \in DOMAIN raw : raw[i] = a
          BY <3>2, <4>2, Zenon DEF Reachable
        <5> QED
          BY <4>2, <5>1, Zenon
      <4> QED
        BY <4>1, <4>2
    <3>4. PICK c : c = <<p.origin, a>>
      OBVIOUS
    <3>5. c[1] = p.origin /\ c[2] = a
      BY <3>4
    <3>6. \A d \in contacts' : d \in contacts \/ d = c
      BY <2>3, <3>1, <3>4
    <3> SUFFICES ASSUME NEW d \in contacts'
                 PROVE  /\ d[1] \in agreed /\ d[1].scheme = "https"
                        /\ is_public_ip(d[2])
                        /\ d[1].host.family # 0 => d[2] = d[1].host
                        /\ d[1].host.family = 0 =>
                            \E raw \in Lookups :
                                /\ Len(raw) <= MAX_DNS_RESULTS
                                /\ \A i \in DOMAIN raw : is_public_ip(raw[i])
                                /\ \E i \in DOMAIN raw : raw[i] = d[2]
      BY <1>1, Zenon DEF OnlyPublic
    <3>7. CASE d \in contacts
      BY <2>1, <3>7, Zenon DEF OnlyPublic
    <3>8. CASE d = c
      BY <3>2, <3>3, <3>5, <3>8, Zenon
    <3> QED
      BY <3>6, <3>7, <3>8
  <2> QED
    BY <2>2, <2>3
<1> HIDE DEF OnlyPublic
<1> QED
  BY <1>1, <1>3, <1>4, <1>5, <1>6 DEF UrlInv

LEMMA ProbeIs ==
  ASSUME UrlInv, NEW p \in probes
  PROVE  ProbeOK(p, agreed)
BY DEF UrlInv, ProbeOK

LEMMA BeginKeeps ==
  ASSUME UrlInv, NEW p \in probes, Begin(p)
  PROVE  UrlInv'
<1>1. PICK refused : refused = parse_target(p.origin)
  OBVIOUS
<1>2. /\ contacts' = contacts
      /\ Moves(p, CASE refused # Nothing -> Done(p, refused)
                    [] refused = Nothing /\ p.origin.host.family # 0 ->
                           IF is_public_ip(p.origin.host)
                           THEN [p EXCEPT !.stage = "connect", !.left = <<p.origin.host>>,
                                          !.verdict = "connection"]
                           ELSE Done(p, "blocked")
                    [] OTHER -> [p EXCEPT !.stage = "resolve"])
  BY <1>1 DEF Begin
<1>3. refused = Nothing => p.origin.scheme = "https"
  <2>1. Nothing # "invalid" /\ Nothing # "https-required"
    BY NothingIsNoVerdict DEF Verdicts
  <2> QED
    BY <1>1, <2>1 DEF parse_target
<1>4. \/ \E verdict : Moves(p, Done(p, verdict))
      \/ /\ refused = Nothing /\ p.origin.host.family # 0 /\ is_public_ip(p.origin.host)
         /\ Moves(p, [p EXCEPT !.stage = "connect", !.left = <<p.origin.host>>,
                               !.verdict = "connection"])
      \/ /\ refused = Nothing /\ p.origin.host.family = 0
         /\ Moves(p, [p EXCEPT !.stage = "resolve"])
  BY <1>2
<1>5. CASE \E verdict : Moves(p, Done(p, verdict))
  BY <1>2, <1>5, ProbeIs, DoneIs, MovesKeep
<1>6. CASE /\ refused = Nothing /\ p.origin.host.family # 0 /\ is_public_ip(p.origin.host)
           /\ Moves(p, [p EXCEPT !.stage = "connect", !.left = <<p.origin.host>>,
                                 !.verdict = "connection"])
  <2>1. p.origin.host \in Reachable(p.origin)
    BY <1>6 DEF Reachable
  <2>2. PICK left : left = <<p.origin.host>>
    OBVIOUS
  <2>3. left \in Seq(Reachable(p.origin))
    <3>1. PICK S, a : S = Reachable(p.origin) /\ a = p.origin.host
      OBVIOUS
    <3>2. a \in S /\ left = <<a>>
      BY <2>1, <2>2, <3>1
    <3>3. left \in Seq(S)
      BY <3>2
    <3> QED
      BY <3>1, <3>3
  <2>4. PICK q : q = [p EXCEPT !.stage = "connect", !.left = left, !.verdict = "connection"]
    OBVIOUS
  <2>5. ProbeOK(p, agreed)
    BY ProbeIs
  <2>6. q = [p EXCEPT !.stage = "connect", !.left = left, !.tried = p.tried, !.verdict = "connection"]
    BY <2>4, <2>5 DEF ProbeOK
  <2>7. Moved(p, q) /\ ProbeOK(q, agreed)
    BY <1>3, <1>6, <2>3, <2>5, <2>6, ReachIs
  <2> QED
    BY <1>2, <1>6, <2>2, <2>4, <2>7, MovesKeep
<1>7. CASE /\ refused = Nothing /\ p.origin.host.family = 0
           /\ Moves(p, [p EXCEPT !.stage = "resolve"])
  <2>1. PICK q : q = [p EXCEPT !.stage = "resolve"]
    OBVIOUS
  <2>2. ProbeOK(p, agreed)
    BY ProbeIs
  <2>3. p = [turn |-> p.turn, origin |-> p.origin, stage |-> p.stage, left |-> p.left,
             tried |-> p.tried, verdict |-> p.verdict, aborted |-> p.aborted]
    BY <2>2 DEF ProbeOK
  <2>4. q = [turn |-> p.turn, origin |-> p.origin, stage |-> "resolve", left |-> p.left,
             tried |-> p.tried, verdict |-> p.verdict, aborted |-> p.aborted]
    BY <2>1, <2>3
  <2>5. /\ q.turn = p.turn /\ q.origin = p.origin /\ q.stage = "resolve" /\ q.left = p.left
        /\ q.tried = p.tried /\ q.verdict = p.verdict /\ q.aborted = p.aborted
    BY <2>4
  <2>6. Moved(p, q) /\ ProbeOK(q, agreed)
    BY <1>3, <1>7, <2>2, <2>4, <2>5 DEF Moved, ProbeOK
  <2> QED
    BY <1>2, <1>7, <2>1, <2>6, MovesKeep
<1> QED
  BY <1>4, <1>5, <1>6, <1>7

LEMMA ResolveKeeps ==
  ASSUME UrlInv, NEW p \in probes, Resolve(p)
  PROVE  UrlInv'
<1>1. contacts' = contacts /\ ProbeOK(p, agreed) /\ p.stage = "resolve"
  BY ProbeIs DEF Resolve
<1>2. p.origin.scheme = "https" /\ p.origin.host.family = 0
  BY <1>1 DEF ProbeOK
<1>3. \/ \E verdict : Moves(p, Done(p, verdict))
      \/ \E raw \in Lookups :
           /\ resolve(raw).error = Nothing
           /\ Moves(p, [p EXCEPT !.stage = "connect", !.left = resolve(raw).addresses,
                                 !.verdict = "connection"])
  BY DEF Resolve
<1>4. CASE \E verdict : Moves(p, Done(p, verdict))
  BY <1>1, <1>4, DoneIs, MovesKeep
<1>5. ASSUME NEW raw \in Lookups, resolve(raw).error = Nothing,
             Moves(p, [p EXCEPT !.stage = "connect", !.left = resolve(raw).addresses,
                                !.verdict = "connection"])
      PROVE  UrlInv'
  <2>1. PICK left : left = resolve(raw).addresses
    OBVIOUS
  <2>2. left \in Seq(Reachable(p.origin))
    BY <1>2, <1>5, <2>1, ResolvedIs
  <2>3. PICK q : q = [p EXCEPT !.stage = "connect", !.left = left, !.verdict = "connection"]
    OBVIOUS
  <2>4. q = [p EXCEPT !.stage = "connect", !.left = left, !.tried = p.tried, !.verdict = "connection"]
    BY <1>1, <2>3 DEF ProbeOK
  <2>5. Moved(p, q) /\ ProbeOK(q, agreed)
    BY <1>1, <1>2, <2>2, <2>4, ReachIs
  <2> QED
    BY <1>1, <1>5, <2>1, <2>3, <2>5, MovesKeep
<1> QED
  BY <1>3, <1>4, <1>5

LEMMA ConnectKeeps ==
  ASSUME UrlInv, NEW p \in probes, Connect(p)
  PROVE  UrlInv'
<1>1. ProbeOK(p, agreed) /\ p.stage = "connect"
  BY ProbeIs DEF Connect
<1>2. p.origin.scheme = "https" /\ p.left \in Seq(Reachable(p.origin))
  BY <1>1 DEF ProbeOK
<1>3. CASE p.left = <<>> \/ p.tried = MAX_CONNECT_ATTEMPTS
  <2>1. contacts' = contacts /\ Moves(p, Done(p, p.verdict))
    BY <1>3 DEF Connect
  <2> QED
    BY <1>1, <2>1, DoneIs, MovesKeep
<1>4. CASE ~(p.left = <<>> \/ p.tried = MAX_CONNECT_ATTEMPTS)
  <2>1. /\ p.left # <<>> /\ contacts' = contacts \cup {<<p.origin, Head(p.left)>>}
        /\ \/ Moves(p, Done(p, "ok"))
           \/ \E failure \in {"connection", "tls", "timeout"} :
                Moves(p, [p EXCEPT !.left = Tail(@), !.tried = @ + 1, !.verdict = failure])
    BY <1>4 DEF Connect
  <2>2. CASE Moves(p, Done(p, "ok"))
    BY <1>1, <2>1, <2>2, DoneIs, MovesKeep
  <2>3. ASSUME NEW failure,
               Moves(p, [p EXCEPT !.left = Tail(@), !.tried = @ + 1, !.verdict = failure])
        PROVE  UrlInv'
    <3>1. PICK left, tried : left = Tail(p.left) /\ tried = p.tried + 1
      OBVIOUS
    <3>2. left \in Seq(Reachable(p.origin))
      <4>1. PICK S, s : S = Reachable(p.origin) /\ s = p.left
        OBVIOUS
      <4>2. Tail(s) \in Seq(S)
        BY <1>2, <2>1, <4>1, HeadTailProperties
      <4> QED
        BY <3>1, <4>1, <4>2
    <3>3. PICK q : q = [p EXCEPT !.left = left, !.tried = tried, !.verdict = failure]
      OBVIOUS
    <3>4. q = [p EXCEPT !.stage = "connect", !.left = left, !.tried = tried, !.verdict = failure]
      BY <1>1, <3>3 DEF ProbeOK
    <3>5. Moved(p, q) /\ ProbeOK(q, agreed)
      BY <1>1, <1>2, <3>2, <3>4, ReachIs
    <3>6. Moves(p, q)
      BY <2>3, <3>1, <3>3
    <3> QED
      BY <1>1, <2>1, <3>5, <3>6, MovesKeep
  <2> QED
    BY <2>1, <2>2, <2>3
<1> QED
  BY <1>3, <1>4

\* The ends of a check.
LEMMA ProbeEndsKeep ==
  ASSUME UrlInv, NEW p \in probes, TimeOut(p) \/ Abandon(p) \/ AnswerProbe(p)
  PROVE  UrlInv'
<1>1. /\ turn \in Nat /\ \A r \in probes : ProbeOK(r, agreed) /\ Present(r, turn, text, shown)
      /\ \A r, s \in probes : r.turn = turn /\ s.turn = turn => r = s
  BY DEF UrlInv
<1>2. CASE TimeOut(p)
  <2>1. contacts' = contacts /\ Moves(p, Done(p, "timeout"))
    BY <1>2 DEF TimeOut
  <2> QED
    BY <1>1, <2>1, DoneIs, MovesKeep
<1>3. CASE Abandon(p)
  <2>1. /\ probes' = probes \ {p} /\ p.aborted
        /\ UNCHANGED <<text, mapped, sensitive, shown, dialog, turn, agreed, contacts>>
    BY <1>3 DEF Abandon
  <2>2. p.turn # turn
    BY <1>1, <2>1 DEF Present
  <2>3. OnlyPublic'
    BY <2>1 DEF OnlyPublic, UrlInv
  <2> HIDE DEF OnlyPublic
  <2> QED
    BY <2>1, <2>2, <2>3 DEF UrlInv
<1>4. CASE AnswerProbe(p)
  <2>1. /\ probes' = probes \ {p}
        /\ UNCHANGED <<text, mapped, dialog, turn, agreed, contacts>>
    BY <1>4 DEF AnswerProbe
  <2>2. OnlyPublic'
    BY <2>1 DEF OnlyPublic, UrlInv
  <2>3. CASE p.turn # turn \/ ~mapped
    <3>1. shown' = shown /\ sensitive' = sensitive
      BY <1>4, <2>3 DEF AnswerProbe
    <3>2. shown = Busy => p.turn # turn
      BY <2>3 DEF UrlInv
    <3> HIDE DEF OnlyPublic
    <3> QED
      BY <2>1, <2>2, <3>1, <3>2 DEF UrlInv
  <2>4. CASE p.turn = turn /\ mapped
    <3>1. sensitive' = TRUE /\ shown' = Result(p.origin, p.verdict)
      BY <1>4, <2>4 DEF AnswerProbe
    <3>2. shown'.kind = "result" /\ shown'.origin = p.origin /\ shown' # Busy
      BY <3>1 DEF Result, Busy
    <3>3. p.origin = Origin(text) /\ p.origin \in agreed
      BY <1>1, <2>4 DEF Present, ProbeOK
    <3>4. \A r \in probes' : r.turn # turn /\ ProbeOK(r, agreed) /\ r.turn \in Nat /\ r.turn <= turn
      BY <1>1, <2>1, <2>4 DEF Present
    <3>5. \A r \in probes' : Present(r, turn, text, shown')
      BY <3>4 DEF Present
    <3> HIDE DEF OnlyPublic
    <3> QED
      BY <2>1, <2>2, <2>4, <3>1, <3>2, <3>3, <3>4, <3>5 DEF UrlInv
  <2> QED
    BY <2>3, <2>4
<1> QED
  BY <1>2, <1>3, <1>4

-----------------------------------------------------------------------------
(* The field. *)

LEMMA CancelKeeps ==
  ASSUME UrlInv, cancel, agreed' = agreed, contacts' = contacts, dialog' = dialog
  PROVE  UrlInv'
<1>1. /\ turn' = turn + 1 /\ shown' = Off /\ turn \in Nat
      /\ probes' = {[p EXCEPT !.aborted = @ \/ p.turn = handle] : p \in probes}
  BY DEF cancel, UrlInv
<1>2. OnlyPublic'
  BY DEF OnlyPublic, UrlInv
<1>3. \A r \in probes' : ProbeOK(r, agreed) /\ r.turn \in Nat /\ r.turn <= turn
  <2> SUFFICES ASSUME NEW r \in probes'
               PROVE  ProbeOK(r, agreed) /\ r.turn \in Nat /\ r.turn <= turn
    OBVIOUS
  <2>1. PICK p \in probes : r = [p EXCEPT !.aborted = @ \/ p.turn = handle]
    BY <1>1
  <2>2. PICK b : b = (p.aborted \/ p.turn = handle)
    OBVIOUS
  <2>3. r = [p EXCEPT !.aborted = b]
    BY <2>1, <2>2
  <2>4. ProbeOK(p, agreed) /\ p.turn \in Nat /\ p.turn <= turn
    BY DEF UrlInv, Present
  <2>5. p = [turn |-> p.turn, origin |-> p.origin, stage |-> p.stage, left |-> p.left,
             tried |-> p.tried, verdict |-> p.verdict, aborted |-> p.aborted]
    BY <2>4 DEF ProbeOK
  <2>6. r = [turn |-> p.turn, origin |-> p.origin, stage |-> p.stage, left |-> p.left,
             tried |-> p.tried, verdict |-> p.verdict, aborted |-> b]
    BY <2>3, <2>5
  <2>7. /\ r.turn = p.turn /\ r.origin = p.origin /\ r.stage = p.stage /\ r.left = p.left
        /\ r.tried = p.tried /\ r.verdict = p.verdict /\ r.aborted = b
    BY <2>6
  <2> QED
    BY <2>4, <2>6, <2>7 DEF ProbeOK
<1>4. \A r \in probes' : r.turn # turn + 1 /\ Present(r, turn + 1, text', Off)
  <2> SUFFICES ASSUME NEW r \in probes' PROVE r.turn # turn + 1 /\ Present(r, turn + 1, text', Off)
    OBVIOUS
  <2>1. r.turn \in Nat /\ r.turn <= turn
    BY <1>3
  <2>2. r.turn # turn + 1 /\ r.turn <= turn + 1
    BY <1>1, <2>1
  <2> QED
    BY <2>1, <2>2 DEF Present
<1>5. dialog # Nothing => dialog.turn \in Nat /\ dialog.turn <= turn + 1 /\ dialog.turn # turn + 1
  <2> SUFFICES ASSUME dialog # Nothing
               PROVE  dialog.turn \in Nat /\ dialog.turn <= turn + 1 /\ dialog.turn # turn + 1
    OBVIOUS
  <2>1. dialog.turn \in Nat /\ dialog.turn <= turn
    BY DEF UrlInv
  <2> QED
    BY <1>1, <2>1
<1>6. Off # Busy /\ Off.kind # "result"
  BY DEF Off, Busy
<1> HIDE DEF OnlyPublic
<1> QED
  BY <1>1, <1>2, <1>3, <1>4, <1>5, <1>6 DEF UrlInv

LEMMA PageOfUrlKeeps ==
  ASSUME UrlInv, Return \/ Click \/ Dismiss
  PROVE  UrlInv'
<1>1. UNCHANGED <<text, sensitive, shown, turn, probes, agreed, contacts>>
  BY DEF Return, Click, Dismiss
<1>2. OnlyPublic'
  BY <1>1 DEF OnlyPublic, UrlInv
<1> HIDE DEF OnlyPublic
<1>3. CASE Return
  BY <1>1, <1>2, <1>3 DEF Return, UrlInv
<1>4. CASE Click
  <2>1. sensitive /\ mapped' = mapped /\ dialog' = [turn |-> turn, origin |-> Origin(text)]
    BY <1>4 DEF Click
  <2>2. dialog'.turn = turn /\ dialog'.origin = Origin(text)
    BY <2>1
  <2> QED
    BY <1>1, <1>2, <2>1, <2>2 DEF UrlInv
<1>5. CASE Dismiss
  BY <1>1, <1>2, <1>5 DEF Dismiss, UrlInv
<1> QED
  BY <1>3, <1>4, <1>5

LEMMA AgreeKeeps ==
  ASSUME UrlInv, Agree
  PROVE  UrlInv'
<1>1. /\ dialog # Nothing /\ dialog' = Nothing /\ agreed' = agreed \cup {dialog.origin}
      /\ UNCHANGED <<text, mapped, turn, contacts>>
  BY DEF Agree
<1>2. /\ turn \in Nat
      /\ \A p \in probes : ProbeOK(p, agreed') /\ Present(p, turn, text, shown)
  BY <1>1 DEF UrlInv, ProbeOK
<1>3. OnlyPublic'
  BY <1>1 DEF OnlyPublic, UrlInv
<1> HIDE DEF OnlyPublic
<1>4. CASE dialog.turn # turn \/ ~mapped
  <2>1. UNCHANGED <<sensitive, shown, probes>>
    BY <1>4 DEF Agree
  <2> QED
    BY <1>1, <1>2, <1>3, <2>1 DEF UrlInv
<1>5. CASE dialog.turn = turn /\ mapped
  <2>1. PICK p : p = [turn |-> turn, origin |-> dialog.origin, stage |-> "start",
                      left |-> <<>>, tried |-> 0, verdict |-> Nothing, aborted |-> FALSE]
    OBVIOUS
  <2>2. sensitive' = FALSE /\ shown' = Busy /\ probes' = probes \cup {p}
    BY <1>5, <2>1 DEF Agree
  <2>3. /\ p.turn = turn /\ p.origin = dialog.origin /\ p.stage = "start" /\ p.left = <<>>
        /\ p.tried = 0 /\ p.verdict = Nothing /\ p.aborted = FALSE
    BY <2>1
  <2>4. dialog.origin = Origin(text) /\ sensitive
    BY <1>1, <1>5 DEF UrlInv
  <2>5. ProbeOK(p, agreed') /\ Present(p, turn, text, Busy)
    BY <1>1, <1>2, <2>1, <2>3, <2>4 DEF ProbeOK, Present
  <2>6. shown # Busy
    BY <2>4 DEF UrlInv
  <2>7. \A q \in probes : q.turn # turn /\ Present(q, turn, text, Busy)
    BY <1>2, <2>6 DEF Present
  <2>8. \A q \in probes' : ProbeOK(q, agreed') /\ Present(q, turn, text, Busy)
    BY <1>2, <2>2, <2>5, <2>7
  <2>9. \A q, r \in probes' : q.turn = turn /\ r.turn = turn => q = r
    BY <2>2, <2>3, <2>7
  <2>10. Busy.kind # "result"
    BY DEF Busy
  <2> QED
    BY <1>1, <1>2, <1>3, <1>5, <2>2, <2>3, <2>8, <2>9, <2>10 DEF UrlInv
<1> QED
  BY <1>4, <1>5

LEMMA UrlStep ==
  ASSUME UrlInv, [UrlNext]_urlVars
  PROVE  UrlInv'
<1>1. CASE (\E t \in Texts : Change(t)) \/ Leave
  <2>1. cancel /\ agreed' = agreed /\ contacts' = contacts /\ dialog' = dialog
    BY <1>1 DEF Change, Leave
  <2> QED
    BY <2>1, CancelKeeps
<1>2. CASE Return \/ Click \/ Dismiss
  BY <1>2, PageOfUrlKeeps
<1>3. CASE Agree
  BY <1>3, AgreeKeeps
<1>4. CASE Probes
  BY <1>4, BeginKeeps, ResolveKeeps, ConnectKeeps, ProbeEndsKeep DEF Probes, Probe
<1>5. CASE UNCHANGED urlVars
  <2>1. UNCHANGED <<text, mapped, sensitive, shown, dialog, turn, probes, agreed, contacts>>
    BY <1>5 DEF urlVars
  <2>2. OnlyPublic'
    BY <2>1 DEF OnlyPublic, UrlInv
  <2> HIDE DEF OnlyPublic
  <2> QED
    BY <2>1, <2>2 DEF UrlInv
<1> QED
  BY <1>1, <1>2, <1>3, <1>4, <1>5 DEF UrlNext

LEMMA UrlStarts == UrlInit => UrlInv
BY DEF UrlInit, UrlInv, Off, Busy, OnlyPublic

LEMMA UrlTrue == UrlInv => ResultOfText /\ OnlyPublic
<1> SUFFICES ASSUME UrlInv PROVE ResultOfText
  BY DEF UrlInv
<1>1. ASSUME shown = Busy
      PROVE  mapped /\ ~sensitive /\ \E p \in probes : p.turn = turn /\ p.origin = Origin(text) /\ ~p.aborted
  <2>1. PICK p \in probes : p.turn = turn
    BY <1>1 DEF UrlInv
  <2> QED
    BY <1>1, <2>1 DEF UrlInv, Present
<1> QED
  BY <1>1 DEF UrlInv, ResultOfText

THEOREM UrlChecked == UrlSpec => [](ResultOfText /\ OnlyPublic)
<1>1. UrlInit => UrlInv
  BY UrlStarts
<1>2. UrlInv /\ [UrlNext]_urlVars => UrlInv'
  BY UrlStep
<1>3. UrlInv => ResultOfText /\ OnlyPublic
  BY UrlTrue
<1> QED
  BY <1>1, <1>2, <1>3, PTL DEF UrlSpec

(* The two checks. *)

\* What is shown is alive and of what is on screen, what was contacted public.
THEOREM ChecksAreTrue == UpdateSpec /\ UrlSpec => []ChecksTrue
<1>1. CheckingIsAlive /\ ResultOfText /\ OnlyPublic => ChecksTrue
  BY DEF ChecksTrue
<1> QED
  BY <1>1, CheckIsAlive, UrlChecked, PTL

-----------------------------------------------------------------------------
(* CsvImport.                                                              *)

Once(s) == \A i, k \in 1..Len(s) : s[i] = s[k] => i = k
Apart(s, t) == \A i \in 1..Len(s), k \in 1..Len(t) : s[i] # t[k]

\* A sequence that repeats nothing has as many members as places.
LEMMA OnceCounts ==
  ASSUME NEW T, NEW s \in Seq(T), Once(s)
  PROVE  Cardinality({s[i] : i \in DOMAIN s}) = Len(s)
<1> DEFINE S == {s[i] : i \in DOMAIN s}
<1>1. Len(s) \in Nat /\ DOMAIN s = 1..Len(s) /\ s = [i \in 1..Len(s) |-> s[i]]
  OBVIOUS
<1>2. s \in Bijection(1..Len(s), S)
  BY <1>1 DEF Bijection, Injection, Surjection, IsInjective, Once
<1>3. ExistsBijection(1..Len(s), S)
  BY <1>2 DEF ExistsBijection
<1> HIDE DEF S
<1>4. Cardinality(S) = Len(s)
  BY <1>1, <1>3, FS_CountingElements
<1> QED
  BY <1>4 DEF S

-----------------------------------------------------------------------------
(* Parsing. *)

Outcomes ==
  {o \in [total : Nat, rows : Seq(Nat), failures : Seq(Nat), rejects : Seq(Nat)] :
      /\ Once(o.rows) /\ Once(o.failures) /\ Apart(o.rows, o.failures)
      /\ Len(o.rows) + Len(o.failures) = o.total}

KeptAt(f, kinds) == {i \in Read(f) : f.rows[i] \in kinds}

LEMMA ReadIs ==
  ASSUME NEW f \in Files
  PROVE  /\ Read(f) \in SUBSET Nat /\ IsFiniteSet(Read(f))
         /\ Read(f) \subseteq 1..Len(f.rows) /\ Cardinality(Read(f)) \in Nat
<1>1. f.rows \in Seq({"good", "unparsed", "columns", "field"}) /\ Len(f.rows) \in Nat
  BY FilesHaveRows
<1>2. PICK n \in Nat : n = IF Len(f.rows) < MAX_CSV_ROWS THEN Len(f.rows) ELSE MAX_CSV_ROWS
  BY <1>1, MaxRowsIsPositive
<1>3. Read(f) = 1..n /\ n <= Len(f.rows)
  BY <1>1, <1>2, MaxRowsIsPositive DEF Read
<1>4. IsFiniteSet(1..n)
  BY FS_Interval
<1> QED
  BY <1>1, <1>3, <1>4, FS_CardinalityType

LEMMA KeptIs ==
  ASSUME NEW f \in Files, NEW kinds
  PROVE  /\ KeptAt(f, kinds) \in SUBSET Nat /\ IsFiniteSet(KeptAt(f, kinds))
         /\ Kept(f, kinds) \in Seq(Nat) /\ Once(Kept(f, kinds))
         /\ Len(Kept(f, kinds)) = Cardinality(KeptAt(f, kinds))
         /\ \A n \in 1..Len(Kept(f, kinds)) : Kept(f, kinds)[n] \in KeptAt(f, kinds)
<1> DEFINE at == KeptAt(f, kinds)
           s == Kept(f, kinds)
<1>1. at \in SUBSET Read(f)
  BY DEF KeptAt
<1>2. at \in SUBSET Nat /\ IsFiniteSet(at)
  <2> HIDE DEF at
  <2> QED
    BY <1>1, ReadIs, FS_Subset
<1>3. s = [n \in 1..Cardinality(at) |-> CHOOSE i \in at : Rank(at, i) = n]
  BY Zenon DEF Kept, KeptAt, Rank
<1> HIDE DEF at, s
<1>4. /\ Cardinality(at) \in Nat
      /\ \A n \in 1..Cardinality(at) : \E i \in at : Rank(at, i) = n
  BY <1>2, Ranks
<1>5. \A n \in 1..Cardinality(at) : s[n] \in at /\ Rank(at, s[n]) = n
  BY <1>3, <1>4
<1>6. s \in Seq(Nat) /\ Len(s) = Cardinality(at)
  <2>1. PICK c \in Nat : c = Cardinality(at)
    BY <1>4
  <2>2. \A n \in 1..c : s[n] \in Nat
    BY <1>2, <1>5, <2>1
  <2>3. s \in [1..c -> Nat]
    <3>1. s = [n \in 1..c |-> CHOOSE i \in at : Rank(at, i) = n]
      BY <1>3, <2>1
    <3>2. \A n \in 1..c : (CHOOSE i \in at : Rank(at, i) = n) \in Nat
      BY <2>2, <3>1
    <3> QED
      BY <3>1, <3>2
  <2>4. s \in Seq(Nat) /\ Len(s) = c
    BY <2>3
  <2> QED
    BY <2>1, <2>4
<1>7. Once(s)
  BY <1>5, <1>6 DEF Once
<1> QED
  BY <1>2, <1>5, <1>6, <1>7 DEF at, s

LEMMA ParsedIs ==
  ASSUME NEW f \in Files
  PROVE  parse_csv_rows(f) \in Outcomes
<1> DEFINE good == KeptAt(f, Good)
           bad == KeptAt(f, Misfits \cup Rejected)
<1>1. \A i \in Read(f) : f.rows[i] \in {"good", "unparsed", "columns", "field"}
  BY ReadIs, FilesHaveRows
<1>2. good \cup bad = Read(f) /\ good \cap bad = {}
  BY <1>1 DEF KeptAt, Good, Misfits, Rejected
<1>3. IsFiniteSet(good) /\ IsFiniteSet(bad)
  BY KeptIs
<1>4. Cardinality(good) + Cardinality(bad) = Cardinality(Read(f))
  <2> HIDE DEF good, bad
  <2>1. Cardinality(good \cup bad) = Cardinality(good) + Cardinality(bad) - Cardinality(good \cap bad)
    BY <1>3, FS_Union
  <2>2. Cardinality(good) \in Nat /\ Cardinality(bad) \in Nat
    BY <1>3, FS_CardinalityType
  <2>3. Cardinality(good \cap bad) = 0
    BY <1>2, FS_EmptySet
  <2> QED
    BY <1>2, <2>1, <2>2, <2>3
<1>5. PICK rows \in Seq(Nat), failures \in Seq(Nat), rejects \in Seq(Nat) :
        /\ rows = Kept(f, Good) /\ failures = Kept(f, Misfits \cup Rejected)
        /\ rejects = Kept(f, Rejected)
  BY KeptIs
<1>6. /\ Once(rows) /\ Once(failures) /\ Apart(rows, failures)
      /\ Len(rows) + Len(failures) = Cardinality(Read(f))
  <2>1. /\ Len(rows) = Cardinality(good) /\ Len(failures) = Cardinality(bad)
        /\ Once(rows) /\ Once(failures)
        /\ \A n \in 1..Len(rows) : rows[n] \in good
        /\ \A n \in 1..Len(failures) : failures[n] \in bad
    BY <1>5, KeptIs
  <2> HIDE DEF good, bad
  <2> QED
    BY <1>2, <1>4, <2>1 DEF Apart
<1>7. parse_csv_rows(f) = [total |-> Cardinality(Read(f)), rows |-> rows,
                           failures |-> failures, rejects |-> rejects]
  BY <1>5 DEF parse_csv_rows
<1> QED
  BY <1>6, <1>7, ReadIs DEF Outcomes

-----------------------------------------------------------------------------
(* The jobs. *)

Counts ==
  {e \in [processed : Nat, total : Nat, imported : Nat, failed : Nat] :
      e.processed <= e.total /\ e.processed = e.imported + e.failed}
Reports == [kind : {"report"}, total : Nat, imported : Nat, failed : Nat]
ImportStages == {"parse", "report", "list", "rows", "answer", "over"}
Imports ==
  [stage : ImportStages, outcome : Outcomes \cup {Pending}, stored : Seq(Nat), failed : Seq(Nat),
   events : Seq(Counts), report : Reports \cup {Failed, Pending}, dialog : Counts]
Shorts == [stage : {"idle", "choosing", "export", "answer"}]
Previews == [stage : {"preview"}, total : Nat]

\* What was done so far was done once, and what is still to do was not done.
Begun(o, stored, failed) ==
  /\ o \in Outcomes
  /\ Once(stored) /\ Once(failed) /\ Apart(stored, failed)
  /\ Len(stored) + Len(failed) >= Len(o.failures)
  /\ Len(stored) + Len(failed) <= o.total
  /\ \A n \in 1..Len(o.rows) : n > Len(stored) + Len(failed) - Len(o.failures) =>
       /\ \A k \in 1..Len(stored) : stored[k] # o.rows[n]
       /\ \A k \in 1..Len(failed) : failed[k] # o.rows[n]
Summed(report, stored, failed) ==
  /\ report = Failed \/ report \in Reports
  /\ report # Failed =>
       /\ Once(stored) /\ Once(failed) /\ Apart(stored, failed)
       /\ report.imported = Len(stored) /\ report.failed = Len(failed)
       /\ report.total = Len(stored) + Len(failed)
JobOK(x) ==
  \/ x \in Shorts \/ x \in Previews
  \/ /\ x \in Imports
     /\ x.stage = "parse" => x.stored = <<>> /\ x.failed = <<>>
     /\ x.stage \in {"report", "list", "rows"} => Begun(x.outcome, x.stored, x.failed)
     /\ x.stage \in {"answer", "over"} => Summed(x.report, x.stored, x.failed)

Underway == {j \in Jobs : Counted(j)}

ImportInv ==
  /\ csv \in Files /\ window \in {"open", "locked", "closed", "left"}
  /\ job = [j \in Jobs |-> job[j]]
  /\ \A j \in Jobs : JobOK(job[j])
  /\ IsFiniteSet(Underway) /\ critical = Cardinality(Underway)

Counts_(x) == x.stage \in Threads \/ x.stage = "answer"

LEMMA BecomesKeeps ==
  ASSUME ImportInv, NEW j \in Jobs, NEW x, Becomes(j, x), JobOK(x)
  PROVE  /\ job' = [i \in Jobs |-> job'[i]] /\ \A i \in Jobs : JobOK(job'[i])
         /\ Underway' = IF Counts_(x) THEN Underway \cup {j} ELSE Underway \ {j}
<1>1. job' = [i \in Jobs |-> job'[i]] /\ job'[j] = x /\ \A i \in Jobs \ {j} : job'[i] = job[i]
  BY DEF ImportInv, Becomes
<1>2. \A i \in Jobs : JobOK(job'[i])
  BY <1>1 DEF ImportInv
<1>3. \A i \in Jobs : i \in Underway' <=> Counts_(job'[i])
  BY DEF Underway, Counted, Runs, Counts_
<1>4. \A i \in Jobs : i \in Underway <=> Counts_(job[i])
  BY DEF Underway, Counted, Runs, Counts_
<1>5. Underway' \subseteq Jobs /\ Underway \subseteq Jobs
  BY DEF Underway
<1>6. Underway' = IF Counts_(x) THEN Underway \cup {j} ELSE Underway \ {j}
  <2> HIDE DEF Counts_
  <2> QED
    BY <1>1, <1>3, <1>4, <1>5
<1> QED
  BY <1>1, <1>2, <1>6

LEMMA OnlyKeeps ==
  ASSUME ImportInv, NEW j \in Jobs, NEW x, Only(j, x), JobOK(x),
         Counts_(x) <=> Counts_(job[j])
  PROVE  ImportInv'
<1>1. Becomes(j, x) /\ csv' = csv /\ window' = window /\ critical' = critical
  BY DEF Only
<1>2. Underway' = Underway
  <2>1. Underway' = IF Counts_(x) THEN Underway \cup {j} ELSE Underway \ {j}
    BY <1>1, BecomesKeeps
  <2>2. j \in Underway <=> Counts_(job[j])
    BY DEF Underway, Counted, Runs, Counts_
  <2> QED
    BY <2>1, <2>2
<1> QED
  BY <1>1, <1>2, BecomesKeeps DEF ImportInv

\* The page, before the thread starts.
LEMMA PageKeeps ==
  ASSUME ImportInv, NEW j \in Jobs,
         OpenChooser(j) \/ Choose(j) \/ CancelChooser(j) \/ Confirm(j) \/ Export(j)
  PROVE  ImportInv'
<1>1. /\ JobOK(Rest) /\ JobOK([stage |-> "choosing"]) /\ JobOK([stage |-> "export"])
      /\ ~Counts_(Rest) /\ ~Counts_([stage |-> "choosing"]) /\ Counts_([stage |-> "export"])
  BY DEF JobOK, Shorts, Rest, Counts_, Threads
<1>2. j \in Underway <=> Counts_(job[j])
  BY DEF Underway, Counted, Runs, Counts_
<1>3. CASE OpenChooser(j)
  <2>1. /\ Becomes(j, [stage |-> "choosing"]) /\ ~Counts_(job[j])
        /\ UNCHANGED <<csv, window, critical>>
    BY <1>1, <1>3 DEF OpenChooser
  <2>2. Underway' = Underway
    BY <1>1, <1>2, <2>1, BecomesKeeps
  <2> QED
    BY <1>1, <2>1, <2>2, BecomesKeeps DEF ImportInv
<1>4. CASE Choose(j)
  <2>1. PICK x : x = IF window = "open" /\ Readable(csv)
                     THEN [stage |-> "preview", total |-> parse_csv_rows(csv).total] ELSE Rest
    OBVIOUS
  <2>2. parse_csv_rows(csv).total \in Nat
    BY ParsedIs DEF ImportInv, Outcomes
  <2>3. JobOK(x) /\ ~Counts_(x)
    BY <1>1, <2>1, <2>2 DEF JobOK, Previews, Counts_, Threads
  <2>4. Only(j, x) /\ ~Counts_(job[j])
    BY <1>4, <2>1 DEF Choose, Counts_, Threads
  <2> QED
    BY <2>3, <2>4, OnlyKeeps
<1>5. CASE CancelChooser(j)
  <2>1. Only(j, Rest) /\ ~Counts_(job[j])
    BY <1>5 DEF CancelChooser, Counts_, Threads
  <2> QED
    BY <1>1, <2>1, OnlyKeeps
<1>6. CASE Confirm(j)
  <2>1. PICK total : total = job[j].total
    OBVIOUS
  <2>2. job[j].stage = "preview" /\ total \in Nat
    BY <1>6, <2>1 DEF Confirm, ImportInv, JobOK, Shorts, Previews, Imports, ImportStages
  <2>3. PICK x : x = [stage |-> "parse", outcome |-> Pending, stored |-> <<>>, failed |-> <<>>,
                      events |-> <<>>, report |-> Pending, dialog |-> Preparing(total)]
    OBVIOUS
  <2>4. Preparing(total) \in Counts
    BY <2>2 DEF Preparing, Counts
  <2>5. x \in Imports /\ x.stage = "parse" /\ x.stored = <<>> /\ x.failed = <<>>
    BY <2>3, <2>4, EmptySeq DEF Imports, ImportStages
  <2>6. JobOK(x) /\ Counts_(x)
    BY <2>5 DEF JobOK, Counts_, Threads
  <2>7. Becomes(j, x) /\ critical' = critical + 1 /\ UNCHANGED <<csv, window>>
    BY <1>6, <2>1, <2>3 DEF Confirm, begin_critical
  <2>8. ~Counts_(job[j])
    BY <2>2 DEF Counts_, Threads
  <2>9. Underway' = Underway \cup {j} /\ j \notin Underway
    BY <1>2, <2>6, <2>7, <2>8, BecomesKeeps
  <2>10. IsFiniteSet(Underway') /\ Cardinality(Underway') = Cardinality(Underway) + 1
    BY <2>9, FS_AddElement DEF ImportInv
  <2> QED
    BY <2>6, <2>7, <2>10, BecomesKeeps DEF ImportInv
<1>7. CASE Export(j)
  <2>1. /\ Becomes(j, [stage |-> "export"]) /\ critical' = critical + 1 /\ UNCHANGED <<csv, window>>
        /\ ~Counts_(job[j])
    BY <1>7 DEF Export, begin_critical, Counts_, Threads
  <2>2. Underway' = Underway \cup {j} /\ j \notin Underway
    BY <1>1, <1>2, <2>1, BecomesKeeps
  <2>3. IsFiniteSet(Underway') /\ Cardinality(Underway') = Cardinality(Underway) + 1
    BY <2>2, FS_AddElement DEF ImportInv
  <2> QED
    BY <1>1, <2>1, <2>3, BecomesKeeps DEF ImportInv
<1> QED
  BY <1>3, <1>4, <1>5, <1>6, <1>7

\* A job of an import, by its stage.
LEMMA ImportIs ==
  ASSUME ImportInv, NEW j \in Jobs,
         job[j].stage \in {"parse", "report", "list", "rows", "over"} \/ HasTimer(j)
  PROVE  /\ job[j] \in Imports
         /\ job[j].stage = "parse" => job[j].stored = <<>> /\ job[j].failed = <<>>
         /\ job[j].stage \in {"report", "list", "rows"} =>
              Begun(job[j].outcome, job[j].stored, job[j].failed)
         /\ job[j].stage \in {"answer", "over"} => Summed(job[j].report, job[j].stored, job[j].failed)
BY DEF ImportInv, JobOK, Shorts, Previews, HasTimer

LEMMA AnsweredIs ==
  ASSUME NEW x \in Imports, NEW report \in Reports \cup {Failed}, Summed(report, x.stored, x.failed)
  PROVE  JobOK(Answered(x, report)) /\ Counts_(Answered(x, report))
<1>1. PICK y : y = Answered(x, report)
  OBVIOUS
<1>2. /\ y \in Imports /\ y.stage = "answer" /\ y.report = report
      /\ y.stored = x.stored /\ y.failed = x.failed
  BY <1>1 DEF Answered, Imports, ImportStages
<1> QED
  BY <1>1, <1>2 DEF JobOK, Counts_, Threads

LEMMA FailedSums ==
  ASSUME NEW stored, NEW failed PROVE Summed(Failed, stored, failed)
BY DEF Summed

LEMMA OutcomeIs ==
  ASSUME NEW o \in Outcomes
  PROVE  /\ o.total \in Nat /\ o.rows \in Seq(Nat) /\ o.failures \in Seq(Nat)
         /\ Len(o.rows) \in Nat /\ Len(o.failures) \in Nat
         /\ Once(o.rows) /\ Once(o.failures) /\ Apart(o.rows, o.failures)
         /\ Len(o.rows) + Len(o.failures) = o.total
<1>1. o.rows \in Seq(Nat) /\ o.failures \in Seq(Nat)
  BY DEF Outcomes
<1> QED
  BY <1>1, LenProperties DEF Outcomes

LEMMA ParseKeeps ==
  ASSUME ImportInv, NEW j \in Jobs, Parse(j)
  PROVE  ImportInv'
<1>1. /\ job[j] \in Imports /\ job[j].stage = "parse" /\ job[j].stored = <<>>
      /\ Counts_(job[j])
  BY ImportIs DEF Parse, Counts_, Threads
<1>2. PICK x \in Imports : x = job[j] /\ x.stored = <<>> /\ x.stage = "parse"
  BY <1>1
<1>3. PICK o \in Outcomes : o = parse_csv_rows(csv)
  BY ParsedIs DEF ImportInv
<1>4. PICK e : e = Event(Len(o.failures), o.total, 0, Len(o.failures))
  OBVIOUS
<1>5. e \in Counts
  BY <1>4 DEF Event, Counts, Outcomes
<1>6. PICK started : started = [x EXCEPT !.outcome = o, !.failed = o.failures, !.events = Append(@, e)]
  OBVIOUS
<1>7. /\ started \in Imports /\ started.outcome = o /\ started.failed = o.failures
      /\ started.stored = <<>> /\ started.stage = "parse"
  <2>1. o.failures \in Seq(Nat) /\ Append(x.events, e) \in Seq(Counts)
    BY <1>5 DEF Outcomes, Imports
  <2> QED
    BY <1>2, <1>6, <2>1 DEF Imports
<1>8. Only(j, IF ~Readable(csv) THEN Answered(x, Failed)
              ELSE IF o.total = 0 THEN Answered(started, Report(o, <<>>, <<>>))
              ELSE [started EXCEPT !.stage = "report"])
  BY <1>2, <1>3, <1>4, <1>6 DEF Parse
<1>9. CASE ~Readable(csv)
  <2>1. JobOK(Answered(x, Failed)) /\ Counts_(Answered(x, Failed))
    BY FailedSums, AnsweredIs
  <2> QED
    BY <1>1, <1>8, <1>9, <2>1, OnlyKeeps
<1>10. CASE Readable(csv) /\ o.total = 0
  <2>1. PICK report : report = Report(o, <<>>, <<>>)
    OBVIOUS
  <2>2. /\ report \in Reports /\ report.imported = 0 /\ report.failed = 0 /\ report.total = 0
    BY <1>10, <2>1 DEF Report, Reports
  <2>3. Len(started.stored) = 0 /\ Len(started.failed) = 0
    BY <1>7, <1>10 DEF Outcomes
  <2>4. Summed(report, started.stored, started.failed)
    BY <2>2, <2>3 DEF Summed, Once, Apart
  <2>5. JobOK(Answered(started, report)) /\ Counts_(Answered(started, report))
    BY <1>7, <2>2, <2>4, AnsweredIs
  <2> QED
    BY <1>1, <1>8, <1>10, <2>1, <2>5, OnlyKeeps
<1>11. CASE Readable(csv) /\ o.total # 0
  <2>1. PICK y : y = [started EXCEPT !.stage = "report"]
    OBVIOUS
  <2>2. /\ y \in Imports /\ y.outcome = o /\ y.failed = o.failures /\ y.stored = <<>>
        /\ y.stage = "report"
    BY <1>7, <2>1 DEF Imports, ImportStages
  <2>3. Begun(o, <<>>, o.failures)
    <3>1. Len(<<>>) = 0 /\ Once(<<>>) /\ Apart(<<>>, o.failures)
      BY DEF Once, Apart
    <3>2. PICK f \in Nat, l \in Nat, t \in Nat :
            f = Len(o.failures) /\ l = Len(o.rows) /\ t = o.total /\ l + f = t
      BY OutcomeIs
    <3>3. 0 + f >= f /\ 0 + f <= t
      <4>1. l + f = t
        BY <3>2
      <4> QED
        BY <4>1
    <3>4. \A n \in 1..Len(o.rows) : \A k \in 1..Len(o.failures) : o.failures[k] # o.rows[n]
      BY OutcomeIs DEF Apart
    <3>5. Len(<<>>) + Len(o.failures) >= Len(o.failures) /\ Len(<<>>) + Len(o.failures) <= o.total
      BY <3>1, <3>2, <3>3
    <3>6. Once(o.failures)
      BY OutcomeIs
    <3>7. \A k \in 1..Len(<<>>) : FALSE
      BY <3>1
    <3> QED
      BY <3>1, <3>4, <3>5, <3>6, <3>7, Zenon DEF Begun
  <2>4. JobOK(y) /\ Counts_(y)
    BY <2>2, <2>3 DEF JobOK, Counts_, Threads
  <2> QED
    BY <1>1, <1>8, <1>11, <2>1, <2>4, OnlyKeeps
<1> QED
  BY <1>9, <1>10, <1>11

LEMMA BeforeRowsKeep ==
  ASSUME ImportInv, NEW j \in Jobs, WriteRejectReport(j) \/ OpenVault(j)
  PROVE  ImportInv'
<1>1. /\ job[j] \in Imports /\ job[j].stage \in {"report", "list"} /\ Counts_(job[j])
      /\ Begun(job[j].outcome, job[j].stored, job[j].failed)
  BY ImportIs DEF WriteRejectReport, OpenVault, Counts_, Threads
<1>2. PICK x \in Imports : x = job[j]
  BY <1>1
<1>3. ASSUME NEW stage \in {"list", "rows"}, Only(j, [x EXCEPT !.stage = stage]) PROVE ImportInv'
  <2>1. PICK y : y = [x EXCEPT !.stage = stage]
    OBVIOUS
  <2>2. /\ y \in Imports /\ y.outcome = x.outcome /\ y.failed = x.failed /\ y.stored = x.stored
        /\ y.stage = stage
    BY <2>1 DEF Imports, ImportStages
  <2>3. JobOK(y) /\ Counts_(y)
    BY <1>1, <1>2, <2>2 DEF JobOK, Counts_, Threads
  <2> QED
    BY <1>1, <1>3, <2>1, <2>3, OnlyKeeps
<1>4. ASSUME Only(j, Answered(x, Failed)) PROVE ImportInv'
  <2>1. JobOK(Answered(x, Failed)) /\ Counts_(Answered(x, Failed))
    BY FailedSums, AnsweredIs
  <2> QED
    BY <1>1, <1>4, <2>1, OnlyKeeps
<1> QED
  BY <1>2, <1>3, <1>4 DEF WriteRejectReport, OpenVault

\* One more row, stored or failed.
Unlike(s, r) == \A k \in 1..Len(s) : s[k] # r

LEMMA AppendIs ==
  ASSUME NEW T, NEW s \in Seq(T), NEW r \in T
  PROVE  /\ Append(s, r) \in Seq(T) /\ Len(s) \in Nat /\ Len(Append(s, r)) = Len(s) + 1
         /\ \A k \in 1..Len(Append(s, r)) :
              \/ k \in 1..Len(s) /\ Append(s, r)[k] = s[k]
              \/ k = Len(s) + 1 /\ Append(s, r)[k] = r
<1>1. Append(s, r) \in Seq(T) /\ Len(Append(s, r)) = Len(s) + 1 /\ Len(s) \in Nat
  BY AppendProperties, LenProperties
<1>2. Append(s, r)[Len(s) + 1] = r /\ \A k \in 1..Len(s) : Append(s, r)[k] = s[k]
  BY AppendProperties, LenProperties
<1>3. \A k \in 1..Len(Append(s, r)) : k \in 1..Len(s) \/ k = Len(s) + 1
  BY <1>1
<1> QED
  BY <1>1, <1>2, <1>3

LEMMA AppendOnce ==
  ASSUME NEW s \in Seq(Nat), NEW t \in Seq(Nat), NEW r \in Nat,
         Once(s), Apart(s, t), Apart(t, s), Unlike(s, r), Unlike(t, r)
  PROVE  Once(Append(s, r)) /\ Apart(Append(s, r), t) /\ Apart(t, Append(s, r))
<1>1. PICK u \in Seq(Nat) : u = Append(s, r)
  BY AppendIs
<1>2. /\ Len(s) \in Nat /\ Len(u) = Len(s) + 1
      /\ \A k \in 1..Len(u) : \/ k \in 1..Len(s) /\ u[k] = s[k]
                              \/ k = Len(s) + 1 /\ u[k] = r
  <2>1. /\ Len(s) \in Nat /\ Len(Append(s, r)) = Len(s) + 1
        /\ \A k \in 1..Len(Append(s, r)) :
             \/ k \in 1..Len(s) /\ Append(s, r)[k] = s[k]
             \/ k = Len(s) + 1 /\ Append(s, r)[k] = r
    BY AppendIs, Zenon
  <2>2. \A k \in 1..Len(u) : \/ k \in 1..Len(s) /\ u[k] = s[k]
                             \/ k = Len(s) + 1 /\ u[k] = r
    BY <1>1, <2>1, Zenon
  <2> QED
    BY <1>1, <2>1, <2>2, Zenon
<1>3. Once(u)
  <2> SUFFICES ASSUME NEW i \in 1..Len(u), NEW k \in 1..Len(u), u[i] = u[k] PROVE i = k
    BY DEF Once
  <2>1. \/ i \in 1..Len(s) /\ u[i] = s[i]
        \/ i = Len(s) + 1 /\ u[i] = r
    BY <1>2
  <2>2. \/ k \in 1..Len(s) /\ u[k] = s[k]
        \/ k = Len(s) + 1 /\ u[k] = r
    BY <1>2
  <2> QED
    BY <2>1, <2>2 DEF Once, Unlike
<1>4. Apart(u, t) /\ Apart(t, u)
  BY <1>2 DEF Apart, Unlike
<1> QED
  BY <1>1, <1>3, <1>4

LEMMA AppendUnlike ==
  ASSUME NEW s \in Seq(Nat), NEW r \in Nat, NEW q, Unlike(s, q), q # r
  PROVE  Unlike(Append(s, r), q)
BY AppendIs DEF Unlike

LEMMA BegunGrows ==
  ASSUME NEW o, NEW stored \in Seq(Nat), NEW failed \in Seq(Nat), Begun(o, stored, failed),
         Len(stored) + Len(failed) - Len(o.failures) + 1 <= Len(o.rows)
  PROVE  LET n == Len(stored) + Len(failed) - Len(o.failures) + 1 IN
         /\ Begun(o, Append(stored, o.rows[n]), failed)
         /\ Begun(o, stored, Append(failed, o.rows[n]))
         /\ o.rows[n] \in Nat
<1>1. o \in Outcomes
  BY DEF Begun
<1>2. PICK p \in Nat, q \in Nat, f \in Nat, l \in Nat, t \in Nat :
        /\ p = Len(stored) /\ q = Len(failed) /\ f = Len(o.failures) /\ l = Len(o.rows)
        /\ t = o.total /\ l + f = t
  BY <1>1, OutcomeIs, LenProperties
<1>3. p + q >= f /\ p + q <= t /\ p + q - f + 1 <= l
  <2>1. Len(stored) + Len(failed) >= Len(o.failures) /\ Len(stored) + Len(failed) <= o.total
    BY Zenon DEF Begun
  <2> QED
    BY <1>2, <2>1
<1>4. PICK n \in Nat : n = p + q - f + 1 /\ n \in 1..l /\ n = Len(stored) + Len(failed) - Len(o.failures) + 1
  <2>1. p + q - f + 1 \in Nat /\ p + q - f + 1 \in 1..l
    BY <1>3
  <2>2. p + q - f + 1 = Len(stored) + Len(failed) - Len(o.failures) + 1
    BY <1>2
  <2> QED
    BY <2>1, <2>2
<1>5. PICK rows \in Seq(Nat) : rows = o.rows /\ Len(rows) = l /\ Once(rows)
  BY <1>1, <1>2, OutcomeIs
<1>6. PICK r \in Nat : r = rows[n]
  BY <1>4, <1>5, ElementOfSeq
<1>7. \A m \in 1..l : m > p + q - f => Unlike(stored, rows[m]) /\ Unlike(failed, rows[m])
  <2>1. \A m \in 1..Len(o.rows) : m > Len(stored) + Len(failed) - Len(o.failures) =>
          /\ \A k \in 1..Len(stored) : stored[k] # o.rows[m]
          /\ \A k \in 1..Len(failed) : failed[k] # o.rows[m]
    BY Zenon DEF Begun
  <2>2. \A m \in 1..l : m > p + q - f =>
          /\ \A k \in 1..Len(stored) : stored[k] # rows[m]
          /\ \A k \in 1..Len(failed) : failed[k] # rows[m]
    BY <1>2, <1>5, <2>1, Zenon
  <2> QED
    BY <2>2, Zenon DEF Unlike
<1>8. Unlike(stored, r) /\ Unlike(failed, r)
  <2>1. n > p + q - f
    BY <1>4
  <2> QED
    BY <1>4, <1>6, <1>7, <2>1, Zenon
<1>9. \A m \in 1..l : m > n => rows[m] # r
  <2>1. \A m \in 1..l : rows[m] = rows[n] => m = n
    BY <1>4, <1>5, Zenon DEF Once
  <2> QED
    BY <1>6, <2>1
<1>10. /\ Once(stored) /\ Once(failed) /\ Apart(stored, failed) /\ Apart(failed, stored)
  <2>1. Once(stored) /\ Once(failed) /\ Apart(stored, failed)
    BY Zenon DEF Begun
  <2> QED
    BY <2>1 DEF Apart
<1>11. ASSUME NEW s \in Seq(Nat), NEW u \in Seq(Nat), Once(s), Once(u), Apart(s, u),
              Len(s) + Len(u) = p + q + 1,
              \A m \in 1..l : m > n => Unlike(s, rows[m]) /\ Unlike(u, rows[m])
       PROVE  Begun(o, s, u)
  <2>1. f <= p + q + 1 /\ p + q + 1 <= t /\ n = p + q + 1 - f
    <3>1. l + f = t
      BY <1>2
    <3>2. n = p + q - f + 1
      BY <1>4
    <3> QED
      BY <1>3, <3>1, <3>2
  <2>2. Len(s) + Len(u) >= Len(o.failures) /\ Len(s) + Len(u) <= o.total
    BY <1>2, <1>11, <2>1
  <2>3. n = Len(s) + Len(u) - Len(o.failures)
    BY <1>2, <1>11, <2>1
  <2>4. \A m \in 1..Len(o.rows) : m > Len(s) + Len(u) - Len(o.failures) =>
          /\ \A k \in 1..Len(s) : s[k] # o.rows[m]
          /\ \A k \in 1..Len(u) : u[k] # o.rows[m]
    BY <1>2, <1>5, <1>11, <2>3, Zenon DEF Unlike
  <2> QED
    BY <1>1, <1>11, <2>2, <2>4, Zenon DEF Begun
<1>12. \A m \in 1..l : m > n =>
         /\ Unlike(stored, rows[m]) /\ Unlike(failed, rows[m]) /\ rows[m] # r /\ rows[m] \in Nat
  <2> SUFFICES ASSUME NEW m \in 1..l, m > n
               PROVE  Unlike(stored, rows[m]) /\ Unlike(failed, rows[m]) /\ rows[m] # r /\ rows[m] \in Nat
    OBVIOUS
  <2>1. m > p + q - f
    BY <1>4
  <2>2. rows[m] \in Nat
    BY <1>5, ElementOfSeq
  <2> QED
    BY <1>7, <1>9, <2>1, <2>2
<1>13. Begun(o, Append(stored, r), failed)
  <2>1. PICK s \in Seq(Nat) : s = Append(stored, r)
    BY AppendIs
  <2>2. Once(s) /\ Apart(s, failed)
    BY <1>8, <1>10, <2>1, AppendOnce
  <2>3. Len(s) + Len(failed) = p + q + 1
    BY <1>2, <2>1, AppendIs
  <2>4. \A m \in 1..l : m > n => Unlike(s, rows[m])
    BY <1>12, <2>1, AppendUnlike
  <2> QED
    BY <1>10, <1>11, <1>12, <2>1, <2>2, <2>3, <2>4
<1>14. Begun(o, stored, Append(failed, r))
  <2>1. PICK s \in Seq(Nat) : s = Append(failed, r)
    BY AppendIs
  <2>2. Once(s) /\ Apart(stored, s)
    BY <1>8, <1>10, <2>1, AppendOnce
  <2>3. Len(stored) + Len(s) = p + q + 1
    BY <1>2, <2>1, AppendIs
  <2>4. \A m \in 1..l : m > n => Unlike(s, rows[m])
    BY <1>12, <2>1, AppendUnlike
  <2> QED
    BY <1>10, <1>11, <1>12, <2>1, <2>2, <2>3, <2>4
<1> QED
  BY <1>4, <1>5, <1>6, <1>13, <1>14

LEMMA ImportRowKeeps ==
  ASSUME ImportInv, NEW j \in Jobs, ImportRow(j)
  PROVE  ImportInv'
<1>1. /\ job[j] \in Imports /\ job[j].stage = "rows" /\ Counts_(job[j])
      /\ Begun(job[j].outcome, job[j].stored, job[j].failed)
  BY ImportIs DEF ImportRow, Counts_, Threads
<1>2. PICK x \in Imports : x = job[j]
  BY <1>1
<1>3. /\ x.stored \in Seq(Nat) /\ x.failed \in Seq(Nat) /\ x.events \in Seq(Counts)
      /\ Begun(x.outcome, x.stored, x.failed)
  BY <1>1, <1>2 DEF Imports
<1>4. x.outcome \in Outcomes
  BY <1>3 DEF Begun
<1>5. PICK p \in Nat, q \in Nat, f \in Nat, total \in Nat :
        /\ p = Len(x.stored) /\ q = Len(x.failed) /\ f = Len(x.outcome.failures)
        /\ total = x.outcome.total /\ f <= p + q /\ p + q - f + 1 <= Len(x.outcome.rows)
        /\ Len(x.outcome.rows) + f = total
  <2>1. Len(x.stored) + Len(x.failed) - Len(x.outcome.failures) + 1 <= Len(x.outcome.rows)
    BY <1>2 DEF ImportRow, Position
  <2>2. Len(x.stored) + Len(x.failed) >= Len(x.outcome.failures)
    BY <1>3, Zenon DEF Begun
  <2>3. PICK p \in Nat, q \in Nat, f \in Nat, l \in Nat, t \in Nat :
          /\ p = Len(x.stored) /\ q = Len(x.failed) /\ f = Len(x.outcome.failures)
          /\ l = Len(x.outcome.rows) /\ t = x.outcome.total /\ l + f = t
    BY <1>3, <1>4, OutcomeIs, LenProperties
  <2>4. p + q >= f /\ p + q - f + 1 <= l
    BY <2>1, <2>2, <2>3
  <2> QED
    BY <2>3, <2>4
<1>6. PICK n \in Nat, row \in Nat :
        /\ n = Position(x) /\ row = x.outcome.rows[n]
        /\ Begun(x.outcome, Append(x.stored, row), x.failed)
        /\ Begun(x.outcome, x.stored, Append(x.failed, row))
        /\ n + f = p + q + 1 /\ n + f <= total
  <2>1. PICK l \in Nat : l = Len(x.outcome.rows) /\ l + f = total /\ p + q - f + 1 <= l
    BY <1>4, <1>5, OutcomeIs
  <2>2. PICK n \in Nat : n = p + q - f + 1
    <3>1. f <= p + q
      BY <1>5
    <3> QED
      BY <3>1
  <2>3. n + f = p + q + 1 /\ n + f <= total
    BY <2>1, <2>2
  <2>4. n = Len(x.stored) + Len(x.failed) - Len(x.outcome.failures) + 1 /\ n = Position(x)
    BY <1>5, <2>2 DEF Position
  <2>5. Len(x.stored) + Len(x.failed) - Len(x.outcome.failures) + 1 <= Len(x.outcome.rows)
    BY <2>1, <2>2, <2>4
  <2>6. /\ Begun(x.outcome, Append(x.stored, x.outcome.rows[n]), x.failed)
        /\ Begun(x.outcome, x.stored, Append(x.failed, x.outcome.rows[n]))
        /\ x.outcome.rows[n] \in Nat
    BY <1>3, <2>4, <2>5, BegunGrows
  <2> QED
    BY <2>3, <2>4, <2>6
<1>7. ASSUME NEW stored \in Seq(Nat), NEW failed \in Seq(Nat), Begun(x.outcome, stored, failed),
             NEW y, y.stage = "rows", y \in Imports, y.outcome = x.outcome, y.stored = stored,
             y.failed = failed, Only(j, y)
      PROVE  ImportInv'
  <2>1. JobOK(y) /\ Counts_(y)
    BY <1>7 DEF JobOK, Counts_, Threads
  <2> QED
    BY <1>1, <1>7, <2>1, OnlyKeeps
<1>8. ASSUME NEW a \in Nat, NEW b \in Nat, a + b = p + q + 1
      PROVE  Append(x.events, Event(n + f, total, a, b)) \in Seq(Counts)
  <2>1. Event(n + f, total, a, b) \in Counts
    BY <1>6, <1>8 DEF Event, Counts
  <2> QED
    BY <1>3, <2>1, AppendIs
<1>9. PICK stored, failed : stored = Append(x.stored, row) /\ failed = Append(x.failed, row)
  OBVIOUS
<1>10. /\ stored \in Seq(Nat) /\ failed \in Seq(Nat)
       /\ Len(stored) = p + 1 /\ Len(failed) = q + 1
  BY <1>3, <1>5, <1>9, AppendIs
<1>11. PICK a, b :
         /\ a = Append(x.events, Event(n + f, total, Len(stored), q))
         /\ b = Append(x.events, Event(n + f, total, p, Len(failed)))
  OBVIOUS
<1>12. a \in Seq(Counts) /\ b \in Seq(Counts)
  <2>1. a = Append(x.events, Event(n + f, total, p + 1, q)) /\ b = Append(x.events, Event(n + f, total, p, q + 1))
    BY <1>10, <1>11
  <2> QED
    BY <1>8, <2>1
<1>13. \/ Only(j, [x EXCEPT !.stored = stored, !.events = a])
       \/ Only(j, [x EXCEPT !.failed = failed, !.events = b])
  BY <1>2, <1>5, <1>6, <1>9, <1>11 DEF ImportRow
<1>14. CASE Only(j, [x EXCEPT !.stored = stored, !.events = a])
  <2>1. PICK y : y = [x EXCEPT !.stored = stored, !.events = a]
    OBVIOUS
  <2>2. /\ y \in Imports /\ y.stage = "rows" /\ y.outcome = x.outcome /\ y.stored = stored
        /\ y.failed = x.failed
    BY <1>1, <1>2, <1>10, <1>12, <2>1 DEF Imports
  <2> QED
    BY <1>3, <1>6, <1>7, <1>9, <1>10, <1>14, <2>1, <2>2
<1>15. CASE Only(j, [x EXCEPT !.failed = failed, !.events = b])
  <2>1. PICK y : y = [x EXCEPT !.failed = failed, !.events = b]
    OBVIOUS
  <2>2. /\ y \in Imports /\ y.stage = "rows" /\ y.outcome = x.outcome /\ y.stored = x.stored
        /\ y.failed = failed
    BY <1>1, <1>2, <1>10, <1>12, <2>1 DEF Imports
  <2> QED
    BY <1>3, <1>6, <1>7, <1>9, <1>10, <1>15, <2>1, <2>2
<1> QED
  BY <1>13, <1>14, <1>15

LEMMA FinishesKeep ==
  ASSUME ImportInv, NEW j \in Jobs, FinishRows(j) \/ FinishExport(j)
  PROVE  ImportInv'
<1>1. CASE FinishRows(j)
  <2>1. /\ job[j] \in Imports /\ job[j].stage = "rows" /\ Counts_(job[j])
        /\ Begun(job[j].outcome, job[j].stored, job[j].failed)
    BY <1>1, ImportIs DEF FinishRows, Counts_, Threads
  <2>2. PICK x \in Imports : x = job[j]
    BY <2>1
  <2>3. PICK report : report = Report(x.outcome, x.stored, x.failed)
    OBVIOUS
  <2>4. Position(x) > Len(x.outcome.rows) /\ Only(j, Answered(x, report))
    BY <1>1, <2>2, <2>3 DEF FinishRows
  <2>5. /\ Len(x.stored) \in Nat /\ Len(x.failed) \in Nat /\ x.outcome \in Outcomes
        /\ Len(x.outcome.failures) \in Nat /\ Len(x.outcome.rows) \in Nat /\ x.outcome.total \in Nat
    <3>1. x.stored \in Seq(Nat) /\ x.failed \in Seq(Nat) /\ x.outcome \in Outcomes
      BY <2>1, <2>2 DEF Imports, Begun
    <3> QED
      BY <3>1, OutcomeIs, LenProperties
  <2>6. Len(x.stored) + Len(x.failed) = x.outcome.total
    <3>1. Len(x.stored) + Len(x.failed) <= x.outcome.total
      BY <2>1, <2>2, Zenon DEF Begun
    <3>2. PICK p \in Nat, q \in Nat, f \in Nat, l \in Nat, t \in Nat :
            /\ p = Len(x.stored) /\ q = Len(x.failed) /\ f = Len(x.outcome.failures)
            /\ l = Len(x.outcome.rows) /\ t = x.outcome.total /\ l + f = t
      BY <2>5, OutcomeIs
    <3>3. p + q - f + 1 > l /\ p + q <= t
      BY <2>4, <3>1, <3>2 DEF Position
    <3>4. p + q = t
      <4>1. l + f = t
        BY <3>2
      <4> QED
        BY <3>3, <4>1
    <3> QED
      BY <3>2, <3>4
  <2>7. /\ report \in Reports /\ report.imported = Len(x.stored) /\ report.failed = Len(x.failed)
        /\ report.total = x.outcome.total
    BY <2>3, <2>5 DEF Report, Reports
  <2>8. Summed(report, x.stored, x.failed)
    BY <2>1, <2>2, <2>6, <2>7 DEF Summed, Begun
  <2>9. JobOK(Answered(x, report)) /\ Counts_(Answered(x, report))
    BY <2>7, <2>8, AnsweredIs
  <2> QED
    BY <2>1, <2>4, <2>9, OnlyKeeps
<1>2. CASE FinishExport(j)
  <2>1. Only(j, [stage |-> "answer"]) /\ Counts_(job[j])
    BY <1>2 DEF FinishExport, Counts_, Threads
  <2>2. JobOK([stage |-> "answer"]) /\ Counts_([stage |-> "answer"])
    BY DEF JobOK, Shorts, Counts_, Threads
  <2> QED
    BY <2>1, <2>2, OnlyKeeps
<1> QED
  BY <1>1, <1>2

\* The timer of the progress dialog.
LEMMA TickKeeps ==
  ASSUME ImportInv, NEW j \in Jobs, Tick(j)
  PROVE  ImportInv'
<1>1. HasTimer(j)
  BY DEF Tick
<1>2. PICK x \in Imports :
        /\ x = job[j]
        /\ x.stage = "parse" => x.stored = <<>> /\ x.failed = <<>>
        /\ x.stage \in {"report", "list", "rows"} => Begun(x.outcome, x.stored, x.failed)
        /\ x.stage \in {"answer", "over"} => Summed(x.report, x.stored, x.failed)
  BY <1>1, ImportIs
<1>3. PICK shows : shows = IF x.events = <<>> THEN x.dialog ELSE x.events[Len(x.events)]
  OBVIOUS
<1>4. shows \in Counts
  <2>1. x.dialog \in Counts /\ x.events \in Seq(Counts)
    BY DEF Imports
  <2>2. x.events # <<>> => Len(x.events) \in 1..Len(x.events)
    BY <2>1, EmptySeq, LenProperties
  <2>3. x.events # <<>> => x.events[Len(x.events)] \in Counts
    BY <2>1, <2>2, ElementOfSeq
  <2> QED
    BY <1>3, <2>1, <2>3
<1>5. Only(j, IF x.stage = "over" THEN Rest ELSE [x EXCEPT !.events = <<>>, !.dialog = shows])
  BY <1>2, <1>3 DEF Tick
<1>6. CASE x.stage = "over"
  <2>1. JobOK(Rest) /\ ~Counts_(Rest) /\ ~Counts_(job[j])
    BY <1>2, <1>6 DEF JobOK, Shorts, Rest, Counts_, Threads
  <2> QED
    BY <1>5, <1>6, <2>1, OnlyKeeps
<1>7. CASE x.stage # "over"
  <2>1. PICK y : y = [x EXCEPT !.events = <<>>, !.dialog = shows]
    OBVIOUS
  <2>2. <<>> \in Seq(Counts)
    BY EmptySeq
  <2>3. /\ y \in Imports /\ y.stage = x.stage /\ y.outcome = x.outcome /\ y.stored = x.stored
        /\ y.failed = x.failed /\ y.report = x.report
    BY <1>4, <2>1, <2>2 DEF Imports
  <2>4. JobOK(y)
    BY <1>2, <2>3 DEF JobOK
  <2>5. Counts_(y) <=> Counts_(job[j])
    BY <1>2, <2>3 DEF Counts_
  <2> QED
    BY <1>5, <1>7, <2>1, <2>4, <2>5, OnlyKeeps
<1> QED
  BY <1>6, <1>7

\* The count goes down by the operation whose result arrives.
LEMMA AnswerKeeps ==
  ASSUME ImportInv, NEW j \in Jobs, Answer(j)
  PROVE  ImportInv'
<1>1. job[j].stage = "answer"
  BY DEF Answer
<1>2. PICK x : x = IF "dialog" \in DOMAIN job[j] THEN [job[j] EXCEPT !.stage = "over"] ELSE Rest
  OBVIOUS
<1>3. Becomes(j, x) /\ UNCHANGED <<csv, window>> /\ critical' = IF critical = 0 THEN 0 ELSE critical - 1
  BY <1>2 DEF Answer, end_critical
<1>4. JobOK(x) /\ ~Counts_(x)
  <2>1. CASE HasTimer(j)
    <3>1. PICK w \in Imports : w = job[j] /\ Summed(w.report, w.stored, w.failed)
      BY <1>1, <2>1, ImportIs
    <3>2. x = [w EXCEPT !.stage = "over"]
      BY <1>2, <2>1, <3>1 DEF HasTimer
    <3>3. /\ x \in Imports /\ x.stage = "over" /\ x.report = w.report /\ x.stored = w.stored
          /\ x.failed = w.failed
      BY <3>2 DEF Imports, ImportStages
    <3> QED
      BY <3>1, <3>3 DEF JobOK, Counts_, Threads
  <2>2. CASE ~HasTimer(j)
    <3>1. x = Rest
      BY <1>2, <2>2 DEF HasTimer
    <3> QED
      BY <3>1 DEF JobOK, Shorts, Rest, Counts_, Threads
  <2> QED
    BY <2>1, <2>2
<1>5. Underway' = Underway \ {j} /\ j \in Underway
  <2>1. Underway' = Underway \ {j}
    BY <1>3, <1>4, BecomesKeeps
  <2> QED
    BY <1>1, <2>1 DEF Underway, Counted
<1>6. /\ IsFiniteSet(Underway') /\ Cardinality(Underway') = Cardinality(Underway) - 1
      /\ Cardinality(Underway) \in Nat
  BY <1>5, FS_RemoveElement, FS_CardinalityType DEF ImportInv
<1>7. critical # 0
  BY <1>5, FS_EmptySet DEF ImportInv
<1>8. critical' = Cardinality(Underway')
  BY <1>3, <1>6, <1>7 DEF ImportInv
<1> QED
  BY <1>3, <1>4, <1>6, <1>8, BecomesKeeps DEF ImportInv

LEMMA ImportStep ==
  ASSUME ImportInv, [ImportNext]_importVars
  PROVE  ImportInv'
<1>1. CASE CloseRequest \/ SignOut \/ Lock \/ Unlock
  <2>1. window' \in {"open", "locked", "closed", "left"} /\ UNCHANGED <<csv, critical, job>>
    BY <1>1 DEF CloseRequest, SignOut, Lock, Unlock, Goes
  <2> QED
    BY <2>1 DEF ImportInv, Underway, Counted, Runs
<1>2. CASE Rewrite
  BY <1>2 DEF Rewrite, ImportInv, Underway, Counted, Runs
<1>3. CASE UNCHANGED importVars
  BY <1>3 DEF importVars, ImportInv, Underway, Counted, Runs
<1>4. CASE \E j \in Jobs :
             \/ OpenChooser(j) \/ Choose(j) \/ CancelChooser(j) \/ Confirm(j) \/ Export(j)
             \/ Thread(j) \/ Tick(j) \/ Answer(j)
  BY <1>4, PageKeeps, ParseKeeps, BeforeRowsKeep, ImportRowKeeps, FinishesKeep, TickKeeps, AnswerKeeps
     DEF Thread
<1> QED
  BY <1>1, <1>2, <1>3, <1>4 DEF ImportNext

LEMMA ImportStarts == ImportInit => ImportInv
<1> SUFFICES ASSUME ImportInit PROVE ImportInv
  OBVIOUS
<1>1. /\ csv \in Files /\ window = "open" /\ critical = 0
      /\ job = [j \in Jobs |-> job[j]] /\ \A j \in Jobs : job[j] = Rest
  BY DEF ImportInit
<1>2. JobOK(Rest) /\ Rest.stage = "idle"
  BY DEF JobOK, Shorts, Rest
<1>3. Underway = {}
  BY <1>1, <1>2 DEF Underway, Counted, Runs, Threads
<1> QED
  BY <1>1, <1>2, <1>3, FS_EmptySet DEF ImportInv

LEMMA ImportAddsUp == ImportInv => AddsUp
<1> SUFFICES ASSUME ImportInv, NEW j \in Jobs
             PROVE  /\ (Reported(j) /\ job[j].report # Failed) =>
                         LET x == job[j]
                             stored == {x.stored[i] : i \in DOMAIN x.stored}
                             failed == {x.failed[i] : i \in DOMAIN x.failed}
                         IN /\ x.report.imported + x.report.failed = x.report.total
                            /\ x.report.imported = Cardinality(stored)
                            /\ x.report.failed = Cardinality(failed)
                            /\ stored \cap failed = {}
                    /\ HasTimer(j) =>
                         LET d == job[j].dialog IN
                         d.processed <= d.total /\ d.processed = d.imported + d.failed
  BY DEF AddsUp
<1>1. HasTimer(j) => job[j].dialog \in Counts
  BY ImportIs DEF Imports
<1>2. ASSUME Reported(j), job[j].report # Failed
      PROVE  /\ job[j].stored \in Seq(Nat) /\ job[j].failed \in Seq(Nat)
             /\ Summed(job[j].report, job[j].stored, job[j].failed)
  BY <1>2 DEF Reported, ImportInv, JobOK, Shorts, Previews, Imports
<1>3. ASSUME Reported(j), job[j].report # Failed
      PROVE  LET x == job[j]
                 stored == {x.stored[i] : i \in DOMAIN x.stored}
                 failed == {x.failed[i] : i \in DOMAIN x.failed}
             IN /\ x.report.imported + x.report.failed = x.report.total
                /\ x.report.imported = Cardinality(stored)
                /\ x.report.failed = Cardinality(failed)
                /\ stored \cap failed = {}
  <2>1. PICK s \in Seq(Nat), t \in Seq(Nat) : s = job[j].stored /\ t = job[j].failed
    BY <1>2, <1>3
  <2>2. Once(s) /\ Once(t) /\ Apart(s, t)
    BY <1>2, <1>3, <2>1 DEF Summed
  <2>3. /\ Cardinality({s[i] : i \in DOMAIN s}) = Len(s)
        /\ Cardinality({t[i] : i \in DOMAIN t}) = Len(t)
    BY <2>2, OnceCounts
  <2>4. {s[i] : i \in DOMAIN s} \cap {t[i] : i \in DOMAIN t} = {}
    BY <2>2, LenProperties DEF Apart
  <2>5. /\ job[j].report.imported = Len(s) /\ job[j].report.failed = Len(t)
        /\ job[j].report.total = Len(s) + Len(t)
    BY <1>2, <1>3, <2>1 DEF Summed
  <2> QED
    BY <2>1, <2>3, <2>4, <2>5
<1> QED
  BY <1>1, <1>3 DEF Counts

\* An import never counts a row twice, nor loses one.
THEOREM ImportCountsTrue == ImportSpec => []AddsUp
<1>1. ImportInit => ImportInv
  BY ImportStarts
<1>2. ImportInv /\ [ImportNext]_importVars => ImportInv'
  BY ImportStep
<1>3. ImportInv => AddsUp
  BY ImportAddsUp
<1> QED
  BY <1>1, <1>2, <1>3, PTL DEF ImportSpec

THEOREM ClosingWaits == ImportSpec => CloseWaits
<1>1. ImportInit => ImportInv
  BY ImportStarts
<1>2. ImportInv /\ [ImportNext]_importVars => ImportInv'
  BY ImportStep
<1>3. ImportInv /\ [ImportNext]_importVars =>
        [(window = "open" /\ window' = "closed") => \A j \in Jobs : ~Counted(j)]_importVars
  <2> SUFFICES ASSUME ImportInv, ImportNext, window = "open", window' = "closed", NEW j \in Jobs
               PROVE  ~Counted(j)
    OBVIOUS
  <2>1. CloseRequest
    BY DEF ImportNext, SignOut, Lock, Unlock, Goes, Rewrite, OpenChooser, Choose, CancelChooser,
           Confirm, Export, Thread, Parse, WriteRejectReport, OpenVault, ImportRow, FinishRows,
           FinishExport, Tick, Answer, Only
  <2>2. Underway = {}
    BY <2>1, FS_EmptySet DEF CloseRequest, ImportInv
  <2> QED
    BY <2>2 DEF Underway
<1> QED
  BY <1>1, <1>2, <1>3, PTL DEF ImportSpec, CloseWaits

=============================================================================
