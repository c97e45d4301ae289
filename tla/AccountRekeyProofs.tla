------------------------- MODULE AccountRekeyProofs -------------------------
(***************************************************************************)
(* Proofs about AccountRekey, for any number of threads, vaults, passwords *)
(* and keys, and any bounds.                                               *)
(***************************************************************************)
EXTENDS AccountRekey, FiniteSetTheorems, TLAPS

(* An idle record is well typed.                                             *)
LEMMA IdleType ==
  ASSUME NEW r \in RekeyState
  PROVE  /\ Idle(r) \in RekeyState
         /\ [Idle(r) EXCEPT !.attached = FALSE] \in RekeyState
BY DEF Idle, RekeyState, Stages, Routines, KeyOrNone, Changes

LEMMA IdleStage ==
  ASSUME NEW r \in RekeyState
  PROVE  /\ Idle(r).stage = "idle"
         /\ Idle(r).old = None
         /\ Idle(r).new = None
BY DEF Idle, RekeyState

(* What a re-key stores is an envelope as soon as its key is chosen.         *)
LEMMA NewEnvelopeType ==
  ASSUME NEW r \in RekeyState, r.new # None
  PROVE  NewEnvelope(r) \in Envelope
BY DEF NewEnvelope, RekeyState, Envelope, Formats, KeyOrNone

LEMMA ChangedType ==
  ASSUME NEW c \in Changes, NEW blob \in KeyOrNone, NEW new \in KeyOrNone
  PROVE  Changed(c, blob, new) \in KeyOrNone
BY DEF Changed, Changes, KeyOrNone

LEMMA RewrapType ==
  ASSUME NEW blob, NEW old
  PROVE  RewrapBlob(blob, old) \in Changes
BY DEF RewrapBlob, Changes

(* Who holds a key after its routine is chosen has one to wrap under. It is  *)
(* part of the type argument: the envelope a re-key stores must hold a key.  *)
NewIsKey ==
  \A t \in Rekeyers :
    /\ rekey[t].stage # "idle" => rekey[t].old \in Keys
    /\ rekey[t].stage \notin {"idle", "derived", "rederive"} => rekey[t].new \in Keys

TypeInv == TypeOK /\ NewIsKey

LEMMA InitType == Init => TypeInv
<1> SUFFICES ASSUME Init PROVE TypeInv
  OBVIOUS
<1> USE DEF Init, KeyOrNone
<1>1. PICK p \in Passwords, k \in Keys :
        /\ stored = [format |-> InitialFormat, password |-> p, key |-> k]
        /\ rekey = [t \in Rekeyers |->
                     [stage |-> "idle", mode |-> "login", routine |-> "none",
                      password |-> p, old |-> None, new |-> None,
                      todo |-> {}, opened |-> {}, attached |-> FALSE,
                      totp |-> "keep", phrase |-> "keep", sealed |-> "keep"]]
        /\ wrap \in [Vaults -> {k, None}]
        /\ totp \in {k, None}
        /\ phrase \in IF InitialFormat = "legacy" THEN {k, None} ELSE {None}
        /\ sealed \in {k, None}
  OBVIOUS
<1>2. stored \in Envelope /\ cached \in Envelope
  BY <1>1, FormatAssumption DEF Envelope
<1>3. rekey \in [Rekeyers -> RekeyState] /\ NewIsKey
  BY <1>1 DEF RekeyState, Stages, Modes, Routines, Changes, NewIsKey
<1>4. row \in [Vaults -> {"absent", "live", "trashed"}] /\ wrap \in [Vaults -> KeyOrNone]
  BY <1>1
<1>5. totp \in KeyOrNone /\ phrase \in KeyOrNone /\ sealed \in KeyOrNone
  BY <1>1
<1>6. writer \in [Writers -> WriterState]
  BY DEF WriterState, WriteKinds, IdleWriter
<1>7. trashes \in Nat
  <2>1. IsFiniteSet({v \in Vaults : row[v] = "trashed"})
    BY VaultsFinite, FS_Subset
  <2> QED
    BY <2>1, FS_CardinalityType
<1> QED
  BY <1>2, <1>3, <1>4, <1>5, <1>6, <1>7 DEF TypeInv, TypeOK

(* One thread moves to a well-typed record.                                  *)
LEMMA OneRekeyType ==
  ASSUME TypeInv, NEW t \in Rekeyers, NEW r \in RekeyState,
         rekey' = [rekey EXCEPT ![t] = r],
         r.stage # "idle" => r.old \in Keys,
         r.stage \notin {"idle", "derived", "rederive"} => r.new \in Keys
  PROVE  rekey' \in [Rekeyers -> RekeyState] /\ NewIsKey'
BY DEF TypeInv, TypeOK, NewIsKey

LEMMA NextType == TypeInv /\ [Next]_vars => TypeInv'
<1> SUFFICES ASSUME TypeInv, [Next]_vars PROVE TypeInv'
  OBVIOUS
<1> USE DEF TypeInv, TypeOK, NewIsKey
<1> USE NoneIsNoKey DEF KeyOrNone, blobs, vaults
<1>r. ASSUME NEW t \in Rekeyers
      PROVE  rekey[t] \in RekeyState
  OBVIOUS
<1>d. Detached \in [Rekeyers -> RekeyState]
      /\ \A u \in Rekeyers : /\ Detached[u].stage = rekey[u].stage
                             /\ Detached[u].old = rekey[u].old
                             /\ Detached[u].new = rekey[u].new
  BY ZenonT(120) DEF Detached, RekeyState
<1>1. ASSUME NEW t \in Rekeyers, NEW p \in Passwords, BeginLogin(t, p)
      PROVE  TypeInv'
  <2> DEFINE r == [Idle(rekey[t]) EXCEPT !.stage = "derived", !.mode = "login",
                                         !.password = p, !.old = cached.key]
  <2>1. cached.key \in Keys
    BY DEF Envelope
  <2>2. r \in RekeyState /\ r.stage = "derived" /\ r.old \in Keys
    <3>1. Idle(rekey[t]) \in RekeyState
      BY IdleType
    <3> QED
      BY <2>1, <3>1 DEF RekeyState, Stages, Modes
  <2>3. rekey' = [rekey EXCEPT ![t] = r]
    BY <1>1 DEF BeginLogin
  <2>4. rekey' \in [Rekeyers -> RekeyState] /\ NewIsKey'
    <3> HIDE DEF r
    <3> QED BY <2>2, <2>3, OneRekeyType
  <2> QED
    BY <1>1, <2>4 DEF BeginLogin
<1>2. ASSUME NEW t \in Rekeyers, NEW current \in Passwords, NEW new \in Passwords,
             BeginChange(t, current, new)
      PROVE  TypeInv'
  <2> DEFINE r == [Idle(rekey[t]) EXCEPT !.stage = "derived", !.mode = "change",
                                         !.password = new, !.old = cached.key,
                                         !.attached = TRUE]
  <2>1. cached.key \in Keys
    BY DEF Envelope
  <2>2. r \in RekeyState /\ r.stage = "derived" /\ r.old \in Keys
    <3>1. Idle(rekey[t]) \in RekeyState
      BY IdleType
    <3> QED
      BY <2>1, <3>1 DEF RekeyState, Stages, Modes
  <2>3. rekey' = [rekey EXCEPT ![t] = r]
    BY <1>2 DEF BeginChange
  <2>4. rekey' \in [Rekeyers -> RekeyState] /\ NewIsKey'
    <3> HIDE DEF r
    <3> QED BY <2>2, <2>3, OneRekeyType
  <2> QED
    BY <1>2, <2>4 DEF BeginChange
<1>3. ASSUME NEW t \in Rekeyers, ChooseChange(t)
      PROVE  TypeInv'
  BY SMTT(30), <1>3 DEF ChooseChange, FreshKeys, RekeyState, Stages, Routines
<1>4. ASSUME NEW t \in Rekeyers, OpenSession(t)
      PROVE  TypeInv'
  BY ZenonT(120), <1>4, <1>d, IdleType DEF OpenSession, OpenWindow, Idle, RekeyState
<1>5. ASSUME NEW t \in Rekeyers, NeedsMigration(t)
      PROVE  TypeInv'
  BY <1>5 DEF NeedsMigration, RekeyState, Stages
<1>6. ASSUME NEW t \in Rekeyers, Rederive(t)
      PROVE  TypeInv'
  <2>1. PICK k \in Keys :
          rekey' = [rekey EXCEPT ![t].stage = "list", ![t].routine = "migrate",
                                 ![t].old = cached.key, ![t].new = k]
    BY <1>6 DEF Rederive, FreshKeys
  <2> DEFINE r == [rekey[t] EXCEPT !.stage = "list", !.routine = "migrate",
                                   !.old = cached.key, !.new = k]
  <2>2. cached.key \in Keys
    BY DEF Envelope
  <2>3. r \in RekeyState /\ r.old \in Keys /\ r.new \in Keys
    <3>1. rekey[t] \in RekeyState
      OBVIOUS
    <3>2. r \in RekeyState
      BY ZenonT(60), <2>2, <3>1 DEF RekeyState, Stages, Routines
    <3>3. r.old = cached.key /\ r.new = k
      BY ZenonT(60), <3>1 DEF RekeyState
    <3> QED
      BY <2>2, <3>2, <3>3
  <2>4. rekey' = [rekey EXCEPT ![t] = r]
    BY <2>1
  <2>5. rekey' \in [Rekeyers -> RekeyState] /\ NewIsKey'
    <3> HIDE DEF r
    <3> QED BY <2>3, <2>4, OneRekeyType
  <2> QED
    BY <1>6, <2>5 DEF Rederive
<1>7. ASSUME NEW t \in Rekeyers, ListVaults(t)
      PROVE  TypeInv'
  <2> DEFINE r == [rekey[t] EXCEPT !.stage = "unwrap", !.todo = Accessible]
  <2>1. r \in RekeyState /\ r.old \in Keys /\ r.new \in Keys
    BY ZenonT(60), <1>7 DEF ListVaults, RekeyState, Stages, Accessible
  <2>2. rekey' = [rekey EXCEPT ![t] = r]
    BY <1>7 DEF ListVaults
  <2>3. rekey' \in [Rekeyers -> RekeyState] /\ NewIsKey'
    <3> HIDE DEF r
    <3> QED BY <2>1, <2>2, OneRekeyType
  <2> QED
    BY <1>7, <2>3 DEF ListVaults
<1>8. ASSUME NEW t \in Rekeyers, NEW v \in Vaults, UnwrapVault(t, v)
      PROVE  TypeInv'
  <2> DEFINE r == [rekey[t] EXCEPT
                     !.todo = @ \ {v},
                     !.opened = IF wrap[v] = None THEN @ ELSE @ \union {v}]
  <2>1. r \in RekeyState /\ r.old \in Keys /\ r.new \in Keys
    BY ZenonT(120), <1>8 DEF UnwrapVault, RekeyState, Stages
  <2>2. rekey' = [rekey EXCEPT ![t] = r]
    BY <1>8 DEF UnwrapVault
  <2>3. rekey' \in [Rekeyers -> RekeyState] /\ NewIsKey'
    <3> HIDE DEF r
    <3> QED BY <2>1, <2>2, OneRekeyType
  <2> QED
    BY <1>8, <2>3 DEF UnwrapVault
<1>9. ASSUME NEW t \in Rekeyers, ReadTotp(t)
      PROVE  TypeInv'
  <2>1. RewrapBlob(totp, rekey[t].old) \in Changes
    BY RewrapType
  <2> DEFINE r == [rekey[t] EXCEPT !.stage = "phrase",
                                   !.totp  = RewrapBlob(totp, rekey[t].old)]
  <2>2. r \in RekeyState /\ r.old \in Keys /\ r.new \in Keys
    BY ZenonT(120), <1>9, <2>1 DEF ReadTotp, RekeyState, Stages
  <2>3. rekey' = [rekey EXCEPT ![t] = r]
    BY <1>9 DEF ReadTotp
  <2>4. rekey' \in [Rekeyers -> RekeyState] /\ NewIsKey'
    <3> HIDE DEF r
    <3> QED BY <2>2, <2>3, OneRekeyType
  <2> QED
    BY <1>9, <2>4 DEF ReadTotp
<1>9p. ASSUME NEW t \in Rekeyers, ReadPhrase(t)
       PROVE  TypeInv'
  <2>1. /\ PhraseChange(rekey[t]) \in Changes
        /\ SealedChange(rekey[t]) \in Changes
    BY RewrapType DEF PhraseChange, SealedChange, Changes
  <2> DEFINE r == [rekey[t] EXCEPT !.stage  = "commit",
                                   !.phrase = PhraseChange(rekey[t]),
                                   !.sealed = SealedChange(rekey[t])]
  <2>2. r \in RekeyState /\ r.old \in Keys /\ r.new \in Keys
    BY ZenonT(120), <1>9p, <2>1 DEF ReadPhrase, RekeyState, Stages
  <2>3. rekey' = [rekey EXCEPT ![t] = r]
    BY <1>9p DEF ReadPhrase
  <2>4. rekey' \in [Rekeyers -> RekeyState] /\ NewIsKey'
    <3> HIDE DEF r
    <3> QED BY <2>2, <2>3, OneRekeyType
  <2> QED
    BY <1>9p, <2>4 DEF ReadPhrase
<1>10. ASSUME NEW t \in Rekeyers, CommitRewrap(t)
       PROVE  TypeInv'
  <2>1. rekey[t] \in RekeyState /\ rekey[t].new \in Keys
    BY <1>10 DEF CommitRewrap
  <2>2. stored' \in Envelope
    BY <1>10, <2>1, NewEnvelopeType DEF CommitRewrap
  <2>3. wrap' \in [Vaults -> KeyOrNone]
    BY <1>10, <2>1 DEF CommitRewrap
  <2>4. totp' \in KeyOrNone /\ phrase' \in KeyOrNone /\ sealed' \in KeyOrNone
    BY <1>10, <2>1, ChangedType DEF CommitRewrap, RekeyState
  <2>5. rekey' \in [Rekeyers -> RekeyState] /\ NewIsKey'
    BY <1>10, <2>1 DEF CommitRewrap, RekeyState, Stages
  <2> QED
    BY <1>10, <2>2, <2>3, <2>4, <2>5 DEF CommitRewrap
<1>11. ASSUME NEW t \in Rekeyers, ReplacePassword(t)
       PROVE  TypeInv'
  <2>1. stored' \in Envelope
    BY <1>11, NewEnvelopeType DEF ReplacePassword
  <2>2. rekey' \in [Rekeyers -> RekeyState] /\ NewIsKey'
    BY <1>11 DEF ReplacePassword, RekeyState, Stages
  <2> QED
    BY <1>11, <2>1, <2>2 DEF ReplacePassword
<1>12. ASSUME NEW t \in Rekeyers, Verify(t)
       PROVE  TypeInv'
  BY <1>12 DEF Verify, RekeyState, Stages
<1>13. ASSUME NEW t \in Rekeyers, CacheEnvelope(t)
       PROVE  TypeInv'
  <2>1. cached' \in Envelope
    BY <1>13, NewEnvelopeType DEF CacheEnvelope
  <2>2. rekey' \in [Rekeyers -> RekeyState] /\ NewIsKey'
    BY <1>13 DEF CacheEnvelope, RekeyState, Stages
  <2> QED
    BY <1>13, <2>1, <2>2 DEF CacheEnvelope
<1>14. ASSUME NEW t \in Rekeyers, DeliverKey(t)
       PROVE  TypeInv'
  <2>1. rekey[t].new \in Keys
    BY <1>14 DEF DeliverKey
  <2>2. Idle(rekey[t]) \in RekeyState /\ Idle(Detached[t]) \in RekeyState
    BY <1>d, IdleType
  <2>3. \/ rekey' = [Detached EXCEPT ![t] = Idle(Detached[t])]
        \/ rekey' = [rekey EXCEPT ![t] = Idle(rekey[t])]
    BY <1>14 DEF DeliverKey, OpenWindow
  <2>4. rekey' \in [Rekeyers -> RekeyState] /\ NewIsKey'
    BY SMTT(60), <1>d, <2>2, <2>3, IdleStage
  <2> QED
    BY <1>14, <2>1, <2>4 DEF DeliverKey, OpenWindow
<1>15. ASSUME NEW t \in Rekeyers, FailRekey(t)
       PROVE  TypeInv'
  <2>1. rekey[t].old \in Keys
    BY <1>15 DEF FailRekey
  <2>2. Idle(rekey[t]) \in RekeyState /\ Idle(Detached[t]) \in RekeyState
    BY <1>d, IdleType
  <2>3. \/ rekey' = [Detached EXCEPT ![t] = Idle(Detached[t])]
        \/ rekey' = [rekey EXCEPT ![t] = Idle(rekey[t])]
    BY <1>15 DEF FailRekey, OpenWindow
  <2>4. rekey' \in [Rekeyers -> RekeyState] /\ NewIsKey'
    BY SMTT(60), <1>d, <2>2, <2>3, IdleStage
  <2>5. session' \in KeyOrNone /\ failures' \in Nat
    BY <1>15, <2>1 DEF FailRekey, OpenWindow
  <2> QED
    BY <1>15, <2>4, <2>5 DEF FailRekey
<1>16. CASE Logout
  BY <1>16, <1>d DEF Logout
<1>17. ASSUME NEW w \in Writers, NEW kind \in WriteKinds, BeginWrite(w, kind)
       PROVE  TypeInv'
  BY <1>17 DEF BeginWrite, WriterState
<1>18. ASSUME NEW w \in Writers, NEW v \in Vaults, InsertVault(w, v)
       PROVE  TypeInv'
  BY <1>18 DEF InsertVault, WriterState, WriteKinds, IdleWriter
<1>19. ASSUME NEW w \in Writers, EnableTotp(w) \/ DisableTotp(w) \/ SealRecoveryKey(w)
       PROVE  TypeInv'
  BY <1>19 DEF EnableTotp, DisableTotp, SealRecoveryKey, WriterState, WriteKinds, IdleWriter
<1>20. ASSUME NEW v \in Vaults, TrashVault(v) \/ UntrashVault(v) \/ RevokeShare(v)
       PROVE  TypeInv'
  BY <1>20 DEF TrashVault, UntrashVault, RevokeShare
<1>21. CASE Restart
  BY ZenonT(120), <1>21, IdleType DEF Restart, Idle, RekeyState, WriterState, WriteKinds, IdleWriter
<1>22. CASE UNCHANGED vars
  BY <1>22 DEF vars
<1> QED
  BY <1>1, <1>2, <1>3, <1>4, <1>5, <1>6, <1>7, <1>8, <1>9, <1>9p, <1>10, <1>11, <1>12,
     <1>13, <1>14, <1>15, <1>16, <1>17, <1>18, <1>19, <1>20, <1>21, <1>22
  DEF Next, RekeyStep, WriterStep

(* The state of the database, the cache, the window and every thread keeps   *)
(* its type.                                                                 *)
THEOREM TypeCorrect == Spec => []TypeOK
<1>1. TypeInv => TypeOK
  BY DEF TypeInv
<1> QED
  BY InitType, NextType, <1>1, PTL DEF Spec

-----------------------------------------------------------------------------
(* The account format. The account key is chosen once: every place that     *)
(* holds a key holds that one, the threads in flight included. This is what *)
(* makes the invariants inductive: a writer or a password change that read   *)
(* the key before another change committed still has the right key.          *)
HoldsKey(r, k) ==
  /\ r.stage \notin {"rederive", "phrase", "commit"}
  /\ r.stage # "idle" => r.old = k
  /\ r.stage \notin {"idle", "derived"} => r.new = k /\ r.routine = "replace_password"

OneKey ==
  /\ stored.format = "account" /\ cached.format = "account"
  /\ cached.key = stored.key
  /\ EveryVaultOpens
  /\ SessionKeyCurrent
  /\ BlobsReadable
  /\ \A w \in Writers : writer[w].kind # "idle" => writer[w].key = stored.key
  /\ \A t \in Rekeyers : HoldsKey(rekey[t], stored.key)

(* A vault that was never inserted has no envelope.                          *)
AbsentHasNoKey == \A v \in Vaults : row[v] = "absent" => wrap[v] = None

AccountInv == TypeInv /\ OneKey /\ AbsentHasNoKey

LEMMA InitAccount == InitialFormat = "account" /\ Init => AccountInv
<1> SUFFICES ASSUME InitialFormat = "account", Init PROVE AccountInv
  OBVIOUS
<1>1. TypeInv
  BY InitType
<1>2. OneKey
  BY DEF Init, OneKey, EveryVaultOpens, SessionKeyCurrent, BlobsReadable, HoldsKey,
         IdleWriter
<1>3. AbsentHasNoKey
  BY DEF Init, AbsentHasNoKey
<1> QED
  BY <1>1, <1>2, <1>3 DEF AccountInv

(* An idle thread, or one whose window went away, holds no other key.        *)
LEMMA IdleHoldsKey ==
  ASSUME NEW r \in RekeyState, NEW k
  PROVE  /\ HoldsKey(Idle(r), k)
         /\ HoldsKey(r, k) => HoldsKey([r EXCEPT !.attached = FALSE], k)
BY DEF HoldsKey, Idle, RekeyState

(* A step of one thread that leaves the account key and all else alone.      *)
LEMMA RekeyStepHoldsKey ==
  ASSUME TypeInv, NEW k, NEW t \in Rekeyers, NEW r,
         \A u \in Rekeyers : HoldsKey(rekey[u], k),
         HoldsKey(r, k),
         rekey' = [rekey EXCEPT ![t] = r]
  PROVE  \A u \in Rekeyers : HoldsKey(rekey'[u], k)
BY DEF TypeInv, TypeOK

LEMMA OpenWindowHoldsKey ==
  ASSUME TypeInv, NEW k, NEW t \in Rekeyers, NEW key,
         \A u \in Rekeyers : HoldsKey(rekey[u], k),
         OpenWindow(t, key)
  PROVE  \A u \in Rekeyers : HoldsKey(rekey'[u], k)
<1>1. Detached \in [Rekeyers -> RekeyState]
  BY ZenonT(60) DEF Detached, RekeyState, TypeInv, TypeOK
<1>2. \A u \in Rekeyers : HoldsKey(Detached[u], k)
  BY IdleHoldsKey DEF Detached, TypeInv, TypeOK
<1>3. \A u \in Rekeyers : rekey'[u] \in {Detached[u], Idle(Detached[u])}
  BY <1>1 DEF OpenWindow
<1> QED
  BY ZenonT(60), <1>1, <1>2, <1>3, IdleHoldsKey

LEMMA NextAccount == AccountInv /\ [Next]_vars => AccountInv'
<1> SUFFICES ASSUME AccountInv, [Next]_vars PROVE OneKey' /\ AbsentHasNoKey'
  BY NextType DEF AccountInv
<1> TypeInv /\ OneKey /\ AbsentHasNoKey
  BY DEF AccountInv
<1> DEFINE k == stored.key
<1>k. k \in Keys /\ k # None
  BY NoneIsNoKey DEF TypeInv, TypeOK, Envelope
<1>t. ASSUME NEW t \in Rekeyers
      PROVE  rekey[t] \in RekeyState /\ HoldsKey(rekey[t], k)
  BY DEF TypeInv, TypeOK, OneKey
(* What a step must keep, in terms of the key in force before it.            *)
<1>one. ASSUME stored'.format = "account", cached'.format = "account",
               stored'.key = k, cached'.key = k,
               \A v \in Vaults : wrap'[v] \in {None, k},
               session' \in {None, k}, totp' \in {None, k}, sealed' \in {None, k},
               \A w \in Writers : writer'[w].kind # "idle" => writer'[w].key = k,
               \A t \in Rekeyers : HoldsKey(rekey'[t], k)
        PROVE  OneKey'
  BY <1>one DEF OneKey, EveryVaultOpens, SessionKeyCurrent, BlobsReadable
<1>old. /\ stored.format = "account" /\ cached.format = "account"
        /\ stored.key = k /\ cached.key = k
        /\ \A v \in Vaults : wrap[v] \in {None, k}
        /\ session \in {None, k} /\ totp \in {None, k} /\ sealed \in {None, k}
        /\ \A w \in Writers : writer[w].kind # "idle" => writer[w].key = k
        /\ \A t \in Rekeyers : HoldsKey(rekey[t], k)
  BY DEF OneKey, EveryVaultOpens, SessionKeyCurrent, BlobsReadable
<1> HIDE DEF k
<1> USE DEF blobs, vaults
(* Steps of one thread that change nothing but its own record.               *)
<1>quiet. ASSUME NEW t \in Rekeyers, NEW r, HoldsKey(r, k),
                 rekey' = [rekey EXCEPT ![t] = r],
                 UNCHANGED <<stored, cached, blobs, vaults, session, writer>>
          PROVE  OneKey' /\ AbsentHasNoKey'
  <2>1. \A u \in Rekeyers : HoldsKey(rekey'[u], k)
    BY <1>quiet, <1>old, RekeyStepHoldsKey
  <2> QED
    BY <1>quiet, <2>1, <1>old, <1>one DEF AbsentHasNoKey
<1>1. ASSUME NEW t \in Rekeyers, NEW p \in Passwords, BeginLogin(t, p)
      PROVE  OneKey' /\ AbsentHasNoKey'
  <2> DEFINE r == [Idle(rekey[t]) EXCEPT !.stage = "derived", !.mode = "login",
                                         !.password = p, !.old = cached.key]
  <2>1. HoldsKey(r, k)
    BY <1>t, <1>old, IdleType DEF HoldsKey, RekeyState
  <2> QED
    BY <1>1, <2>1, <1>quiet DEF BeginLogin
<1>2. ASSUME NEW t \in Rekeyers, NEW current \in Passwords, NEW new \in Passwords,
             BeginChange(t, current, new)
      PROVE  OneKey' /\ AbsentHasNoKey'
  <2> DEFINE r == [Idle(rekey[t]) EXCEPT !.stage = "derived", !.mode = "change",
                                         !.password = new, !.old = cached.key,
                                         !.attached = TRUE]
  <2>1. HoldsKey(r, k)
    BY <1>t, <1>old, IdleType DEF HoldsKey, RekeyState
  <2> QED
    BY <1>2, <2>1, <1>quiet DEF BeginChange
<1>3. ASSUME NEW t \in Rekeyers, ChooseChange(t)
      PROVE  OneKey' /\ AbsentHasNoKey'
  <2> DEFINE r == [rekey[t] EXCEPT !.stage = "list", !.routine = "replace_password",
                                   !.new = rekey[t].old]
  <2>1. rekey' = [rekey EXCEPT ![t] = r]
    BY <1>3, <1>old DEF ChooseChange, TypeInv, TypeOK
  <2>2. HoldsKey(r, k)
    BY <1>3, <1>t DEF ChooseChange, HoldsKey, RekeyState
  <2> QED
    BY <1>3, <2>1, <2>2, <1>quiet DEF ChooseChange
<1>4. ASSUME NEW t \in Rekeyers, OpenSession(t)
      PROVE  OneKey' /\ AbsentHasNoKey'
  <2>1. session' = k
    BY <1>4, <1>t DEF OpenSession, OpenWindow, HoldsKey
  <2>2. \A u \in Rekeyers : HoldsKey(rekey'[u], k)
    BY <1>4, <1>old, OpenWindowHoldsKey DEF OpenSession
  <2> QED
    BY <1>4, <2>1, <2>2, <1>old, <1>one DEF OpenSession, AbsentHasNoKey
<1>5. ASSUME NEW t \in Rekeyers, NeedsMigration(t) \/ Rederive(t) \/ CommitRewrap(t)
      PROVE  FALSE
  BY <1>5, <1>old, <1>t DEF NeedsMigration, Rederive, CommitRewrap, HoldsKey
<1>6. ASSUME NEW t \in Rekeyers, ListVaults(t)
      PROVE  OneKey' /\ AbsentHasNoKey'
  <2> DEFINE r == [rekey[t] EXCEPT !.stage = "unwrap", !.todo = Accessible]
  <2>1. rekey' = [rekey EXCEPT ![t] = r]
    BY <1>6 DEF ListVaults, TypeInv, TypeOK
  <2>2. HoldsKey(r, k)
    BY <1>6, <1>t DEF ListVaults, HoldsKey, RekeyState
  <2> QED
    BY <1>6, <2>1, <2>2, <1>quiet DEF ListVaults
<1>7. ASSUME NEW t \in Rekeyers, NEW v \in Vaults, UnwrapVault(t, v)
      PROVE  OneKey' /\ AbsentHasNoKey'
  <2> DEFINE r == [rekey[t] EXCEPT
                     !.todo = @ \ {v},
                     !.opened = IF wrap[v] = None THEN @ ELSE @ \union {v}]
  <2>1. rekey' = [rekey EXCEPT ![t] = r]
    BY <1>7 DEF UnwrapVault, TypeInv, TypeOK
  <2>2. HoldsKey(r, k)
    BY <1>7, <1>t DEF UnwrapVault, HoldsKey, RekeyState
  <2> QED
    BY <1>7, <2>1, <2>2, <1>quiet DEF UnwrapVault
<1>8. ASSUME NEW t \in Rekeyers, ReadTotp(t) \/ ReadPhrase(t)
      PROVE  FALSE
  BY <1>8, <1>t DEF ReadTotp, ReadPhrase, HoldsKey
<1>9. ASSUME NEW t \in Rekeyers, ReplacePassword(t)
      PROVE  OneKey' /\ AbsentHasNoKey'
  <2> DEFINE r == [rekey[t] EXCEPT !.stage = "verify"]
  <2>1. rekey' = [rekey EXCEPT ![t] = r] /\ HoldsKey(r, k)
    BY <1>9, <1>t DEF ReplacePassword, HoldsKey, RekeyState
  <2>2. stored'.format = "account" /\ stored'.key = k
    BY <1>9, <1>t DEF ReplacePassword, NewEnvelope, HoldsKey
  <2>3. \A u \in Rekeyers : HoldsKey(rekey'[u], k)
    BY <2>1, <1>old, RekeyStepHoldsKey
  <2> QED
    BY <1>9, <2>2, <2>3, <1>old, <1>one DEF ReplacePassword, AbsentHasNoKey
<1>10. ASSUME NEW t \in Rekeyers, Verify(t)
       PROVE  OneKey' /\ AbsentHasNoKey'
  <2> DEFINE r == [rekey[t] EXCEPT !.stage = "cache"]
  <2>1. rekey' = [rekey EXCEPT ![t] = r] /\ HoldsKey(r, k)
    BY <1>10, <1>t DEF Verify, HoldsKey, RekeyState
  <2> QED
    BY <1>10, <2>1, <1>quiet DEF Verify
<1>11. ASSUME NEW t \in Rekeyers, CacheEnvelope(t)
       PROVE  OneKey' /\ AbsentHasNoKey'
  <2> DEFINE r == [rekey[t] EXCEPT !.stage = "deliver"]
  <2>1. rekey' = [rekey EXCEPT ![t] = r] /\ HoldsKey(r, k)
    BY <1>11, <1>t DEF CacheEnvelope, HoldsKey, RekeyState
  <2>2. cached'.format = "account" /\ cached'.key = k
    BY <1>11, <1>t DEF CacheEnvelope, NewEnvelope, HoldsKey
  <2>3. \A u \in Rekeyers : HoldsKey(rekey'[u], k)
    BY <2>1, <1>old, RekeyStepHoldsKey
  <2> QED
    BY <1>11, <2>2, <2>3, <1>old, <1>one DEF CacheEnvelope, AbsentHasNoKey
<1>12. ASSUME NEW t \in Rekeyers, DeliverKey(t)
       PROVE  OneKey' /\ AbsentHasNoKey'
  <2>1. rekey[t].new = k
    BY <1>12, <1>t DEF DeliverKey, HoldsKey
  <2>2. session' \in {None, k}
    BY <1>12, <2>1, <1>old DEF DeliverKey, OpenWindow
  <2>3. \A u \in Rekeyers : HoldsKey(rekey'[u], k)
    BY ZenonT(60), <1>12, <1>old, <1>t, OpenWindowHoldsKey, RekeyStepHoldsKey, IdleHoldsKey
    DEF DeliverKey
  <2> QED
    BY <1>12, <2>2, <2>3, <1>old, <1>one DEF DeliverKey, AbsentHasNoKey
<1>13. ASSUME NEW t \in Rekeyers, FailRekey(t)
       PROVE  OneKey' /\ AbsentHasNoKey'
  <2>1. rekey[t].old = k
    BY <1>13, <1>t DEF FailRekey, HoldsKey
  <2>2. session' \in {None, k}
    BY <1>13, <2>1, <1>old DEF FailRekey, OpenWindow
  <2>3. \A u \in Rekeyers : HoldsKey(rekey'[u], k)
    BY ZenonT(60), <1>13, <1>old, <1>t, OpenWindowHoldsKey, RekeyStepHoldsKey, IdleHoldsKey
    DEF FailRekey
  <2> QED
    BY <1>13, <2>2, <2>3, <1>old, <1>one DEF FailRekey, AbsentHasNoKey
<1>14. CASE Logout
  <2>1. \A u \in Rekeyers : HoldsKey(rekey'[u], k)
    BY <1>14, <1>t, IdleHoldsKey DEF Logout, Detached
  <2> QED
    BY <1>14, <2>1, <1>old, <1>one DEF Logout, AbsentHasNoKey
<1>15. ASSUME NEW w \in Writers, NEW kind \in WriteKinds, BeginWrite(w, kind)
       PROVE  OneKey' /\ AbsentHasNoKey'
  <2>1. \A u \in Writers : writer'[u].kind # "idle" => writer'[u].key = k
    BY <1>15, <1>old DEF BeginWrite, TypeInv, TypeOK
  <2> QED
    BY <1>15, <2>1, <1>old, <1>one DEF BeginWrite, AbsentHasNoKey
<1>16. ASSUME NEW w \in Writers, NEW v \in Vaults, InsertVault(w, v)
       PROVE  OneKey' /\ AbsentHasNoKey'
  <2>1. writer[w].key = k
    BY <1>16, <1>old DEF InsertVault
  <2>2. \A u \in Writers : writer'[u].kind # "idle" => writer'[u].key = k
    BY <1>16, <1>old DEF InsertVault, IdleWriter, TypeInv, TypeOK
  <2>3. \A u \in Vaults : wrap'[u] \in {None, k}
    BY <1>16, <2>1, <1>old DEF InsertVault, TypeInv, TypeOK
  <2>4. AbsentHasNoKey'
    BY <1>16 DEF InsertVault, AbsentHasNoKey, TypeInv, TypeOK
  <2> QED
    BY <1>16, <2>2, <2>3, <2>4, <1>old, <1>one DEF InsertVault
<1>17. ASSUME NEW w \in Writers, EnableTotp(w) \/ DisableTotp(w) \/ SealRecoveryKey(w)
       PROVE  OneKey' /\ AbsentHasNoKey'
  <2>1. totp' \in {None, k} /\ sealed' \in {None, k}
    BY <1>17, <1>old DEF EnableTotp, DisableTotp, SealRecoveryKey
  <2>2. \A u \in Writers : writer'[u].kind # "idle" => writer'[u].key = k
    BY <1>17, <1>old DEF EnableTotp, DisableTotp, SealRecoveryKey, IdleWriter, TypeInv, TypeOK
  <2> QED
    BY <1>17, <2>1, <2>2, <1>old, <1>one
    DEF EnableTotp, DisableTotp, SealRecoveryKey, AbsentHasNoKey
<1>18. ASSUME NEW v \in Vaults, TrashVault(v) \/ UntrashVault(v) \/ RevokeShare(v)
       PROVE  OneKey' /\ AbsentHasNoKey'
  <2>1. \A u \in Vaults : wrap'[u] \in {None, k}
    BY <1>18, <1>old DEF TrashVault, UntrashVault, RevokeShare, TypeInv, TypeOK
  <2>2. AbsentHasNoKey'
    BY <1>18 DEF TrashVault, UntrashVault, RevokeShare, AbsentHasNoKey, TypeInv, TypeOK
  <2> QED
    BY <1>18, <2>1, <2>2, <1>old, <1>one DEF TrashVault, UntrashVault, RevokeShare
<1>19. CASE Restart
  <2>1. \A u \in Rekeyers : HoldsKey(rekey'[u], k)
    BY <1>19, <1>t, IdleHoldsKey DEF Restart
  <2>2. \A u \in Writers : writer'[u].kind # "idle" => writer'[u].key = k
    BY <1>19 DEF Restart, IdleWriter
  <2> QED
    BY <1>19, <2>1, <2>2, <1>old, <1>one DEF Restart, AbsentHasNoKey
<1>20. CASE UNCHANGED vars
  BY <1>20, <1>old, <1>one DEF vars, AbsentHasNoKey
<1> QED
  BY <1>1, <1>2, <1>3, <1>4, <1>5, <1>6, <1>7, <1>8, <1>9, <1>10, <1>11, <1>12,
     <1>13, <1>14, <1>15, <1>16, <1>17, <1>18, <1>19, <1>20
  DEF Next, RekeyStep, WriterStep

(* In the account format no interleaving of sign-ins, password changes,      *)
(* writers, deletions, failures and restarts leaves a vault, trashed or not, *)
(* that the stored password does not open.                                   *)
THEOREM AccountVaultsOpen ==
  InitialFormat = "account" => (Spec => []EveryVaultOpens)
<1>1. AccountInv => EveryVaultOpens
  BY DEF AccountInv, OneKey
<1> QED
  BY InitAccount, NextAccount, <1>1, PTL DEF Spec

(* Nor a window with another key, nor a TOTP secret or recovery key under    *)
(* another key.                                                              *)
THEOREM AccountKeyShared ==
  InitialFormat = "account" => (Spec => []OneAccountKey)
<1>1. AccountInv => OneAccountKey
  BY DEF AccountInv, OneKey, OneAccountKey
<1> QED
  BY InitAccount, NextAccount, <1>1, PTL DEF Spec

(* The promise to the owner. Every step of the account format is a password  *)
(* change, the creation of a vault, the loss of a share, a change of second  *)
(* factor, or invisible.                                                     *)
LEMMA InitAccess == AccountInv => Access!Init
BY DEF AccountInv, TypeInv, TypeOK, Envelope, Access!Init

LEMMA StepAccess ==
  AccountInv /\ AccountInv' /\ [Next]_vars => [Access!Next]_(Access!vars)
<1> SUFFICES ASSUME AccountInv, AccountInv', [Next]_vars
             PROVE  Access!Next \/ UNCHANGED Access!vars
  OBVIOUS
<1> USE DEF blobs, vaults
<1> DEFINE opens == {v \in Vaults : wrap[v] = stored.key}
<1>k. /\ stored.key \in Keys /\ stored.key # None
      /\ stored.password \in Passwords /\ stored'.password \in Passwords
      /\ wrap \in [Vaults -> KeyOrNone]
  BY NoneIsNoKey DEF AccountInv, TypeInv, TypeOK, Envelope
<1>quiet. ASSUME UNCHANGED <<stored, wrap, totp>>
          PROVE  UNCHANGED Access!vars
  BY <1>quiet DEF Access!vars
<1>1. ASSUME NEW t \in Rekeyers, NeedsMigration(t) \/ Rederive(t) \/ CommitRewrap(t)
                                 \/ ReadTotp(t) \/ ReadPhrase(t)
      PROVE  FALSE
  BY <1>1 DEF AccountInv, OneKey, HoldsKey, NeedsMigration, Rederive, CommitRewrap,
              ReadTotp, ReadPhrase
<1>2. ASSUME NEW t \in Rekeyers, ReplacePassword(t)
      PROVE  Access!ChangePassword
  <2>1. stored'.key = stored.key
    BY <1>2 DEF AccountInv, OneKey, HoldsKey, ReplacePassword, NewEnvelope
  <2>2. UNCHANGED <<wrap, totp>>
    BY <1>2 DEF ReplacePassword
  <2> QED
    BY <1>k, <2>1, <2>2 DEF Access!ChangePassword
<1>3. ASSUME NEW w \in Writers, NEW v \in Vaults, InsertVault(w, v)
      PROVE  Access!CreateVault(v)
  <2>1. writer[w].key = stored.key
    BY <1>3 DEF InsertVault, AccountInv, OneKey
  <2>2. wrap[v] = None /\ v \notin opens
    BY <1>3, <1>k DEF InsertVault, AccountInv, AbsentHasNoKey
  <2>3. wrap' = [wrap EXCEPT ![v] = stored.key] /\ UNCHANGED <<stored, totp>>
    BY <1>3, <2>1 DEF InsertVault
  <2>4. opens' = opens \union {v}
    BY <1>k, <2>3
  <2> QED
    BY <2>2, <2>3, <2>4 DEF Access!CreateVault
<1>4. ASSUME NEW w \in Writers, EnableTotp(w) \/ DisableTotp(w)
      PROVE  Access!SetSecondFactor
  BY <1>4 DEF EnableTotp, DisableTotp, Access!SetSecondFactor
<1>5. ASSUME NEW v \in Vaults, RevokeShare(v)
      PROVE  Access!LoseShare(v)
  <2>1. v \in SharedVaults /\ wrap' = [wrap EXCEPT ![v] = None] /\ UNCHANGED <<stored, totp>>
    BY <1>5 DEF RevokeShare
  <2>2. opens' = opens \ {v}
    BY <1>k, <2>1
  <2> QED
    BY <2>1, <2>2 DEF Access!LoseShare
<1>6. CASE \/ \E t \in Rekeyers :
                \/ \E p \in Passwords : BeginLogin(t, p)
                \/ \E current, new \in Passwords : BeginChange(t, current, new)
                \/ ChooseChange(t) \/ OpenSession(t) \/ ListVaults(t)
                \/ \E v \in Vaults : UnwrapVault(t, v)
                \/ Verify(t) \/ CacheEnvelope(t) \/ DeliverKey(t) \/ FailRekey(t)
           \/ \E w \in Writers :
                \/ \E kind \in WriteKinds : BeginWrite(w, kind)
                \/ SealRecoveryKey(w)
           \/ \E v \in Vaults : TrashVault(v) \/ UntrashVault(v)
           \/ Logout \/ Restart \/ UNCHANGED vars
  <2>1. UNCHANGED <<stored, wrap, totp>>
    BY <1>6 DEF BeginLogin, BeginChange, ChooseChange, OpenSession, ListVaults,
                UnwrapVault, Verify, CacheEnvelope, DeliverKey, FailRekey, BeginWrite,
                SealRecoveryKey, TrashVault, UntrashVault, Logout, Restart, vars
  <2> QED
    BY <2>1, <1>quiet
<1> QED
  BY <1>1, <1>2, <1>3, <1>4, <1>5, <1>6, SharedAreVaults
  DEF Next, RekeyStep, WriterStep, Access!Next

(* In the account format the detailed specification implements the promise.  *)
THEOREM AccountKeepsAccess ==
  InitialFormat = "account" => (Spec => AccessKept)
<1> QED
  BY InitAccount, NextAccount, InitAccess, StepAccess, PTL
  DEF Spec, AccessKept, Access!Spec

-----------------------------------------------------------------------------
(* Any format, any concurrency. A rewrap that is under way, up to its        *)
(* publication in the cache, is the only holder of its new key: it was fresh *)
(* when chosen, and nobody can learn it from the database before.            *)
Rewriting(t) ==
  /\ rekey[t].stage \in {"list", "unwrap", "phrase", "commit", "verify", "cache"}
  /\ rekey[t].routine \in {"migrate", "rekey_legacy"}

KeyIsolated ==
  \A t \in Rekeyers : Rewriting(t) =>
    /\ rekey[t].new \notin {cached.key, session}
    /\ \A w \in Writers : writer[w].key # rekey[t].new
    /\ \A u \in Rekeyers : rekey[u].old # rekey[t].new
    /\ \A u \in Rekeyers \ {t} : rekey[u].new # rekey[t].new

(* Only inserted vaults are listed, so a vault created meanwhile is no       *)
(* vault a rewrap opened.                                                    *)
OpenedInserted ==
  \A t \in Rekeyers : \A v \in rekey[t].todo \union rekey[t].opened : row[v] # "absent"

WholeInv == TypeInv /\ KeyIsolated /\ OpenedInserted /\ CommittedRekeyIsWhole

LEMMA InitWhole == Init => WholeInv
<1> SUFFICES ASSUME Init PROVE WholeInv
  OBVIOUS
<1>1. \A t \in Rekeyers : /\ rekey[t].stage = "idle"
                          /\ rekey[t].todo = {} /\ rekey[t].opened = {}
  BY DEF Init
<1> QED
  BY <1>1, InitType DEF WholeInv, KeyIsolated, Rewriting, OpenedInserted,
                        CommittedRekeyIsWhole, Rewrote

(* A thread whose step only forgets (it becomes idle, or its window goes) or *)
(* advances with the same keys keeps the keys apart.                         *)
LEMMA FewerKeysIsolated ==
  ASSUME KeyIsolated,
         \A u \in Rekeyers : /\ rekey'[u].old \in {rekey[u].old, None}
                             /\ rekey'[u].new \in {rekey[u].new, None}
                             /\ Rewriting(u)' => Rewriting(u) /\ rekey'[u].new \in Keys,
         \A w \in Writers : writer'[w].key \in {writer[w].key, session, None},
         \A t \in Rekeyers : Rewriting(t)' => rekey'[t].new \notin {cached'.key, session'}
  PROVE  KeyIsolated'
BY NoneIsNoKey DEF KeyIsolated

(* A fresh key is in nobody's hands.                                         *)
LEMMA FreshKey ==
  ASSUME NEW k \in FreshKeys
  PROVE  /\ k \in Keys /\ k \notin {cached.key, session}
         /\ \A w \in Writers : writer[w].key # k
         /\ \A u \in Rekeyers : rekey[u].old # k /\ rekey[u].new # k
BY DEF FreshKeys, KeysInUse

RewritingRecord(r) ==
  /\ r.stage \in {"list", "unwrap", "phrase", "commit", "verify", "cache"}
  /\ r.routine \in {"migrate", "rekey_legacy"}

(* One thread t moves to record r: it takes over only keys others may know,  *)
(* or starts rewriting under a fresh one.                                    *)
LEMMA OneStepIsolated ==
  ASSUME TypeInv, KeyIsolated, NEW t \in Rekeyers, NEW r \in RekeyState,
         rekey' = [rekey EXCEPT ![t] = r],
         UNCHANGED <<session, writer>>,
         cached'.key \in {cached.key, rekey[t].new},
         r.old \in {rekey[t].old, cached.key},
         r.new \in {rekey[t].old, rekey[t].new, None} \union FreshKeys,
         RewritingRecord(r) =>
           /\ cached' = cached
           /\ \/ Rewriting(t) /\ r.new = rekey[t].new /\ r.old = rekey[t].old
              \/ r.new \in FreshKeys
  PROVE  KeyIsolated'
<1> USE DEF TypeInv, TypeOK
<1>1. rekey'[t] = r /\ \A u \in Rekeyers \ {t} : rekey'[u] = rekey[u]
  OBVIOUS
<1>2. ASSUME NEW u \in Rekeyers, u # t, Rewriting(u)'
      PROVE  /\ rekey'[u].new \notin {cached'.key, session'}
             /\ \A w \in Writers : writer'[w].key # rekey'[u].new
             /\ \A x \in Rekeyers : rekey'[x].old # rekey'[u].new
             /\ \A x \in Rekeyers \ {u} : rekey'[x].new # rekey'[u].new
  <2>1. Rewriting(u) /\ rekey'[u].new = rekey[u].new
    BY <1>1, <1>2 DEF Rewriting
  <2>2. rekey[u].new \in Keys
    BY <2>1 DEF NewIsKey, Rewriting
  <2>3. r.old # rekey[u].new /\ r.new # rekey[u].new
    BY <1>2, <2>1, <2>2, NoneIsNoKey, FreshKey DEF KeyIsolated
  <2> QED
    BY <1>1, <1>2, <2>1, <2>3 DEF KeyIsolated
<1>3. ASSUME Rewriting(t)'
      PROVE  /\ rekey'[t].new \notin {cached'.key, session'}
             /\ \A w \in Writers : writer'[w].key # rekey'[t].new
             /\ \A x \in Rekeyers : rekey'[x].old # rekey'[t].new
             /\ \A x \in Rekeyers \ {t} : rekey'[x].new # rekey'[t].new
  <2>1. RewritingRecord(r)
    BY <1>1, <1>3 DEF Rewriting, RewritingRecord
  <2>2. CASE Rewriting(t) /\ r.new = rekey[t].new /\ r.old = rekey[t].old
    BY <1>1, <2>1, <2>2 DEF KeyIsolated
  <2>3. CASE r.new \in FreshKeys
    BY <1>1, <2>1, <2>3, FreshKey
  <2> QED
    BY <2>1, <2>2, <2>3
<1> QED
  BY <1>2, <1>3 DEF KeyIsolated

(* The vaults of a rewrap stay whole in a step that leaves stored alone.     *)
LEMMA WholeKept ==
  ASSUME TypeInv, OpenedInserted, CommittedRekeyIsWhole,
         stored' = stored,
         \A v \in Vaults : wrap'[v] \in {wrap[v], None} \/ row[v] = "absent",
         \A t \in Rekeyers : Rewrote(t)' => Rewrote(t) /\ rekey'[t].opened = rekey[t].opened
  PROVE  CommittedRekeyIsWhole'
BY DEF CommittedRekeyIsWhole, OpenedInserted, TypeInv, TypeOK, RekeyState

LEMMA NextWhole == WholeInv /\ [Next]_vars => WholeInv'
<1> SUFFICES ASSUME WholeInv, [Next]_vars
             PROVE  KeyIsolated' /\ OpenedInserted' /\ CommittedRekeyIsWhole'
  BY NextType DEF WholeInv
<1> TypeInv /\ KeyIsolated /\ OpenedInserted /\ CommittedRekeyIsWhole
  BY DEF WholeInv
<1> USE DEF blobs, vaults
<1>ty. rekey \in [Rekeyers -> RekeyState] /\ writer \in [Writers -> WriterState]
       /\ wrap \in [Vaults -> KeyOrNone]
  BY DEF TypeInv, TypeOK
<1>n. ASSUME NEW t \in Rekeyers, Rewriting(t)
      PROVE  rekey[t].new \in Keys /\ rekey[t].new # None
  BY <1>n, NoneIsNoKey DEF TypeInv, NewIsKey, Rewriting
<1>w. \A t \in Rekeyers : Rewrote(t) => Rewriting(t)
  BY DEF Rewrote, Rewriting
<1>d. /\ Detached \in [Rekeyers -> RekeyState]
      /\ \A u \in Rekeyers : Detached[u] = [rekey[u] EXCEPT !.attached = FALSE]
  BY <1>ty DEF Detached, RekeyState
<1>c. cached.key \in Keys
  BY DEF TypeInv, TypeOK, Envelope
(* Records that differ in nothing the invariants read.                       *)
<1>s. \A u \in Rekeyers : /\ Detached[u].stage = rekey[u].stage
                          /\ Detached[u].routine = rekey[u].routine
                          /\ Detached[u].old = rekey[u].old
                          /\ Detached[u].new = rekey[u].new
                          /\ Detached[u].password = rekey[u].password
                          /\ Detached[u].todo = rekey[u].todo
                          /\ Detached[u].opened = rekey[u].opened
  BY <1>d, <1>ty DEF RekeyState
<1>i. \A r \in RekeyState : /\ Idle(r).stage = "idle"
                            /\ Idle(r).old = None /\ Idle(r).new = None
                            /\ Idle(r).todo = {} /\ Idle(r).opened = {}
  BY DEF Idle, RekeyState
(* One thread t ends, delivering key to the window or not; all windows that  *)
(* wait for another change may be detached.                                  *)
<1>end. ASSUME NEW t \in Rekeyers,
               \/ rekey' = [Detached EXCEPT ![t] = Idle(Detached[t])]
               \/ rekey' = [rekey EXCEPT ![t] = Idle(rekey[t])],
               session' \in {session, None, rekey[t].old, rekey[t].new},
               UNCHANGED <<stored, cached, blobs, vaults, writer>>
        PROVE  KeyIsolated' /\ OpenedInserted' /\ CommittedRekeyIsWhole'
  <2>1. /\ rekey'[t].stage = "idle" /\ rekey'[t].old = None /\ rekey'[t].new = None
        /\ rekey'[t].todo = {} /\ rekey'[t].opened = {}
    BY <1>end, <1>d, <1>i, <1>ty
  <2>2. \A u \in Rekeyers \ {t} : rekey'[u] \in {Detached[u], rekey[u]}
    BY <1>end, <1>d, <1>ty
  <2>3. \A u \in Rekeyers : Rewriting(u)' => u # t /\ Rewriting(u)
    BY <2>1, <2>2, <1>s DEF Rewriting
  <2>4. \A u \in Rekeyers : Rewriting(u)' => rekey'[u].new \notin {cached'.key, session'}
    BY <1>end, <2>2, <2>3, <1>s, <1>n DEF KeyIsolated
  <2>5. KeyIsolated'
    <3>1. \A u \in Rekeyers : /\ rekey'[u].old \in {rekey[u].old, None}
                              /\ rekey'[u].new \in {rekey[u].new, None}
      BY <2>1, <2>2, <1>s
    <3>2. \A u \in Rekeyers : Rewriting(u)' => rekey'[u].new \in Keys
      BY <2>2, <2>3, <1>s, <1>n
    <3> QED
      BY <1>end, <2>3, <2>4, <3>1, <3>2, FewerKeysIsolated
  <2>6. OpenedInserted'
    BY <1>end, <2>1, <2>2, <1>s DEF OpenedInserted
  <2>7. \A u \in Rekeyers : Rewrote(u)' => Rewrote(u) /\ rekey'[u].opened = rekey[u].opened
    BY <1>end, <2>1, <2>2, <1>s DEF Rewrote, NewEnvelope
  <2>8. CommittedRekeyIsWhole'
    BY <1>end, <2>7, WholeKept
  <2> QED
    BY <2>5, <2>6, <2>8
(* One thread t advances and only its record changes.                        *)
<1>one. ASSUME NEW t \in Rekeyers, NEW r \in RekeyState,
               rekey' = [rekey EXCEPT ![t] = r],
               UNCHANGED <<stored, cached, blobs, vaults, session, writer>>,
               r.old \in {rekey[t].old, cached.key},
               r.new \in {rekey[t].old, rekey[t].new, None} \union FreshKeys,
               RewritingRecord(r) =>
                 \/ Rewriting(t) /\ r.new = rekey[t].new /\ r.old = rekey[t].old
                 \/ r.new \in FreshKeys,
               \A v \in r.todo \union r.opened : row[v] # "absent",
               Rewrote(t)' => Rewrote(t) /\ r.opened = rekey[t].opened
        PROVE  KeyIsolated' /\ OpenedInserted' /\ CommittedRekeyIsWhole'
  <2>1. rekey'[t] = r /\ \A u \in Rekeyers \ {t} : rekey'[u] = rekey[u]
    BY <1>one, <1>ty
  <2>2. KeyIsolated'
    BY <1>one, OneStepIsolated
  <2>3. OpenedInserted'
    BY <1>one, <2>1 DEF OpenedInserted
  <2>4. \A u \in Rekeyers : Rewrote(u)' => Rewrote(u) /\ rekey'[u].opened = rekey[u].opened
    BY <1>one, <2>1 DEF Rewrote, NewEnvelope
  <2>5. CommittedRekeyIsWhole'
    BY <1>one, <2>4, WholeKept
  <2> QED
    BY <2>2, <2>3, <2>5
<1>1. ASSUME NEW t \in Rekeyers, NEW p \in Passwords, BeginLogin(t, p)
      PROVE  KeyIsolated' /\ OpenedInserted' /\ CommittedRekeyIsWhole'
  <2> DEFINE r == [Idle(rekey[t]) EXCEPT !.stage = "derived", !.mode = "login",
                                         !.password = p, !.old = cached.key]
  <2>1. rekey' = [rekey EXCEPT ![t] = r]
    BY <1>1 DEF BeginLogin
  <2>2. /\ r \in RekeyState /\ r.stage = "derived" /\ r.old = cached.key /\ r.new = None
        /\ r.todo = {} /\ r.opened = {}
    <3> DEFINE i == Idle(rekey[t])
    <3>1. /\ i \in RekeyState /\ i.new = None /\ i.todo = {} /\ i.opened = {}
      BY <1>i, <1>ty, IdleType
    <3> HIDE DEF i
    <3> QED
      BY <1>c, <3>1 DEF RekeyState, Stages, Modes, KeyOrNone, i
  <2> HIDE DEF r
  <2>3. ~Rewrote(t)'
    BY <2>1, <2>2, <1>ty DEF Rewrote
  <2> QED
    BY <1>1, <2>1, <2>2, <2>3, <1>one DEF BeginLogin, RewritingRecord
<1>2. ASSUME NEW t \in Rekeyers, NEW current \in Passwords, NEW new \in Passwords,
             BeginChange(t, current, new)
      PROVE  KeyIsolated' /\ OpenedInserted' /\ CommittedRekeyIsWhole'
  <2> DEFINE r == [Idle(rekey[t]) EXCEPT !.stage = "derived", !.mode = "change",
                                         !.password = new, !.old = cached.key,
                                         !.attached = TRUE]
  <2>1. rekey' = [rekey EXCEPT ![t] = r]
    BY <1>2 DEF BeginChange
  <2>2. /\ r \in RekeyState /\ r.stage = "derived" /\ r.old = cached.key /\ r.new = None
        /\ r.todo = {} /\ r.opened = {}
    <3> DEFINE i == Idle(rekey[t])
    <3>1. /\ i \in RekeyState /\ i.new = None /\ i.todo = {} /\ i.opened = {}
      BY <1>i, <1>ty, IdleType
    <3> HIDE DEF i
    <3> QED
      BY <1>c, <3>1 DEF RekeyState, Stages, Modes, KeyOrNone, i
  <2> HIDE DEF r
  <2>3. ~Rewrote(t)'
    BY <2>1, <2>2, <1>ty DEF Rewrote
  <2> QED
    BY <1>2, <2>1, <2>2, <2>3, <1>one DEF BeginChange, RewritingRecord
<1>3. ASSUME NEW t \in Rekeyers, ChooseChange(t)
      PROVE  KeyIsolated' /\ OpenedInserted' /\ CommittedRekeyIsWhole'
  <2>1. PICK routine \in Routines \ {"none"}, k \in Keys :
          /\ rekey' = [rekey EXCEPT ![t].stage = "list", ![t].routine = routine,
                                    ![t].new = k]
          /\ \/ routine = "replace_password" /\ k = rekey[t].old
             \/ k \in FreshKeys
    <3>1. rekey[t].old \in Keys /\ FreshKeys \subseteq Keys
      BY <1>3 DEF ChooseChange, FreshKeys, TypeInv, NewIsKey
    <3>2. CASE cached.format = "account"
      BY <1>3, <3>1, <3>2 DEF ChooseChange, Routines
    <3>3. CASE cached.format # "account" /\ SingleAccount
      BY <1>3, <3>1, <3>3 DEF ChooseChange, Routines
    <3>4. CASE cached.format # "account" /\ ~SingleAccount
      BY <1>3, <3>1, <3>4 DEF ChooseChange, Routines
    <3> QED
      BY <3>2, <3>3, <3>4
  <2> DEFINE r == [rekey[t] EXCEPT !.stage = "list", !.routine = routine, !.new = k]
  <2>2. /\ r \in RekeyState /\ r.stage = "list" /\ r.old = rekey[t].old /\ r.new = k
        /\ r.routine = routine /\ r.todo = rekey[t].todo /\ r.opened = rekey[t].opened
    BY ZenonT(60), <1>ty DEF RekeyState, Stages, Routines, KeyOrNone
  <2>3. rekey' = [rekey EXCEPT ![t] = r]
    BY <2>1
  <2> HIDE DEF r
  <2>4. ~Rewrote(t)'
    BY <2>2, <2>3, <1>ty DEF Rewrote
  <2>5. \A v \in r.todo \union r.opened : row[v] # "absent"
    BY <2>2 DEF OpenedInserted
  <2> QED
    BY <1>3, <2>1, <2>2, <2>3, <2>4, <2>5, <1>one DEF ChooseChange, RewritingRecord
<1>4. ASSUME NEW t \in Rekeyers, OpenSession(t)
      PROVE  KeyIsolated' /\ OpenedInserted' /\ CommittedRekeyIsWhole'
  BY <1>4, <1>end DEF OpenSession, OpenWindow
<1>5. ASSUME NEW t \in Rekeyers, NeedsMigration(t)
      PROVE  KeyIsolated' /\ OpenedInserted' /\ CommittedRekeyIsWhole'
  <2> DEFINE r == [rekey[t] EXCEPT !.stage = "rederive"]
  <2>1. rekey' = [rekey EXCEPT ![t] = r]
    BY <1>5 DEF NeedsMigration
  <2>2. /\ r \in RekeyState /\ r.stage = "rederive" /\ r.old = rekey[t].old
        /\ r.new = rekey[t].new /\ r.todo = rekey[t].todo /\ r.opened = rekey[t].opened
    BY <1>ty DEF RekeyState, Stages
  <2> HIDE DEF r
  <2>3. ~Rewrote(t)'
    BY <2>1, <2>2, <1>ty DEF Rewrote
  <2>4. \A v \in r.todo \union r.opened : row[v] # "absent"
    BY <2>2 DEF OpenedInserted
  <2> QED
    BY <1>5, <2>1, <2>2, <2>3, <2>4, <1>one DEF NeedsMigration, RewritingRecord
<1>6. ASSUME NEW t \in Rekeyers, Rederive(t)
      PROVE  KeyIsolated' /\ OpenedInserted' /\ CommittedRekeyIsWhole'
  <2>1. PICK k \in FreshKeys :
          rekey' = [rekey EXCEPT ![t].stage = "list", ![t].routine = "migrate",
                                 ![t].old = cached.key, ![t].new = k]
    BY <1>6 DEF Rederive
  <2> DEFINE r == [rekey[t] EXCEPT !.stage = "list", !.routine = "migrate",
                                   !.old = cached.key, !.new = k]
  <2>2. /\ r \in RekeyState /\ r.stage = "list" /\ r.old = cached.key /\ r.new = k
        /\ r.todo = rekey[t].todo /\ r.opened = rekey[t].opened
    BY ZenonT(60), <1>ty, <1>c DEF RekeyState, Stages, Routines, KeyOrNone, FreshKeys
  <2>3. rekey' = [rekey EXCEPT ![t] = r]
    BY <2>1
  <2> HIDE DEF r
  <2>4. ~Rewrote(t)'
    BY <2>2, <2>3, <1>ty DEF Rewrote
  <2>5. \A v \in r.todo \union r.opened : row[v] # "absent"
    BY <2>2 DEF OpenedInserted
  <2> QED
    BY <1>6, <2>2, <2>3, <2>4, <2>5, <1>one DEF Rederive
<1>7. ASSUME NEW t \in Rekeyers, ListVaults(t)
      PROVE  KeyIsolated' /\ OpenedInserted' /\ CommittedRekeyIsWhole'
  <2> DEFINE r == [rekey[t] EXCEPT !.stage = "unwrap", !.todo = Accessible]
  <2>1. rekey' = [rekey EXCEPT ![t] = r]
    BY <1>7 DEF ListVaults
  <2>2. /\ r \in RekeyState /\ r.stage = "unwrap" /\ r.old = rekey[t].old
        /\ r.new = rekey[t].new /\ r.routine = rekey[t].routine
        /\ r.todo = Accessible /\ r.opened = rekey[t].opened
    BY ZenonT(60), <1>ty DEF RekeyState, Stages, Accessible
  <2> HIDE DEF r
  <2>3. ~Rewrote(t)'
    BY <2>1, <2>2, <1>ty DEF Rewrote
  <2>4. \A v \in r.todo \union r.opened : row[v] # "absent"
    BY <2>2 DEF OpenedInserted, Accessible
  <2>5. RewritingRecord(r) => Rewriting(t)
    BY <1>7, <2>2 DEF RewritingRecord, Rewriting, ListVaults
  <2> QED
    BY <1>7, <2>1, <2>2, <2>3, <2>4, <2>5, <1>one DEF ListVaults
<1>8. ASSUME NEW t \in Rekeyers, NEW v \in Vaults, UnwrapVault(t, v)
      PROVE  KeyIsolated' /\ OpenedInserted' /\ CommittedRekeyIsWhole'
  <2> DEFINE r == [rekey[t] EXCEPT
                     !.todo = @ \ {v},
                     !.opened = IF wrap[v] = None THEN @ ELSE @ \union {v}]
  <2>1. rekey' = [rekey EXCEPT ![t] = r]
    BY <1>8 DEF UnwrapVault
  <2>2. /\ r \in RekeyState /\ r.stage = "unwrap" /\ r.old = rekey[t].old
        /\ r.new = rekey[t].new /\ r.routine = rekey[t].routine
        /\ r.todo \union r.opened \subseteq rekey[t].todo \union rekey[t].opened
    BY <1>8, <1>ty DEF RekeyState, UnwrapVault
  <2> HIDE DEF r
  <2>3. ~Rewrote(t)'
    BY <2>1, <2>2, <1>ty DEF Rewrote
  <2>4. \A u \in r.todo \union r.opened : row[u] # "absent"
    BY <2>2 DEF OpenedInserted
  <2>5. RewritingRecord(r) => Rewriting(t)
    BY <1>8, <2>2 DEF RewritingRecord, Rewriting, UnwrapVault
  <2> QED
    BY <1>8, <2>1, <2>2, <2>3, <2>4, <2>5, <1>one DEF UnwrapVault
<1>9. ASSUME NEW t \in Rekeyers, ReadTotp(t)
      PROVE  KeyIsolated' /\ OpenedInserted' /\ CommittedRekeyIsWhole'
  <2> DEFINE r == [rekey[t] EXCEPT !.stage = "phrase",
                                   !.totp  = RewrapBlob(totp, rekey[t].old)]
  <2>1. rekey' = [rekey EXCEPT ![t] = r]
    BY <1>9 DEF ReadTotp
  <2>2. /\ r \in RekeyState /\ r.stage = "phrase" /\ r.old = rekey[t].old
        /\ r.new = rekey[t].new /\ r.routine = rekey[t].routine
        /\ r.todo = rekey[t].todo /\ r.opened = rekey[t].opened
    <3>1. RewrapBlob(totp, rekey[t].old) \in Changes
      BY RewrapType
    <3> QED
      BY ZenonT(60), <1>ty, <3>1 DEF RekeyState, Stages
  <2> HIDE DEF r
  <2>3. ~Rewrote(t)'
    BY <2>1, <2>2, <1>ty DEF Rewrote
  <2>4. \A v \in r.todo \union r.opened : row[v] # "absent"
    BY <2>2 DEF OpenedInserted
  <2>5. RewritingRecord(r) => Rewriting(t)
    BY <1>9, <2>2 DEF RewritingRecord, Rewriting, ReadTotp
  <2> QED
    BY <1>9, <2>1, <2>2, <2>3, <2>4, <2>5, <1>one DEF ReadTotp
<1>9p. ASSUME NEW t \in Rekeyers, ReadPhrase(t)
       PROVE  KeyIsolated' /\ OpenedInserted' /\ CommittedRekeyIsWhole'
  <2> DEFINE r == [rekey[t] EXCEPT !.stage  = "commit",
                                   !.phrase = PhraseChange(rekey[t]),
                                   !.sealed = SealedChange(rekey[t])]
  <2>1. rekey' = [rekey EXCEPT ![t] = r]
    BY <1>9p DEF ReadPhrase
  <2>2. /\ r \in RekeyState /\ r.stage = "commit" /\ r.old = rekey[t].old
        /\ r.new = rekey[t].new /\ r.routine = rekey[t].routine
        /\ r.todo = rekey[t].todo /\ r.opened = rekey[t].opened
    <3>1. /\ PhraseChange(rekey[t]) \in Changes
          /\ SealedChange(rekey[t]) \in Changes
      BY RewrapType DEF PhraseChange, SealedChange, Changes
    <3> QED
      BY ZenonT(60), <1>ty, <3>1 DEF RekeyState, Stages
  <2> HIDE DEF r
  <2>3. ~Rewrote(t)'
    BY <2>1, <2>2, <1>ty DEF Rewrote
  <2>4. \A v \in r.todo \union r.opened : row[v] # "absent"
    BY <2>2 DEF OpenedInserted
  <2>5. RewritingRecord(r) => Rewriting(t)
    BY <1>9p, <2>2 DEF RewritingRecord, Rewriting, ReadPhrase
  <2> QED
    BY <1>9p, <2>1, <2>2, <2>3, <2>4, <2>5, <1>one DEF ReadPhrase
(* The commit of t: its vaults go under its key, and no other rewrap is left *)
(* with an envelope in force, for no other holds that key.                   *)
<1>10. ASSUME NEW t \in Rekeyers, CommitRewrap(t)
       PROVE  KeyIsolated' /\ OpenedInserted' /\ CommittedRekeyIsWhole'
  <2> DEFINE r == [rekey[t] EXCEPT !.stage = "verify"]
  <2>1. rekey' = [rekey EXCEPT ![t] = r]
    BY <1>10 DEF CommitRewrap
  <2>2. /\ r \in RekeyState /\ r.stage = "verify" /\ r.old = rekey[t].old
        /\ r.new = rekey[t].new /\ r.routine = rekey[t].routine
        /\ r.todo = rekey[t].todo /\ r.opened = rekey[t].opened
    BY <1>ty DEF RekeyState, Stages
  <2>3. RewritingRecord(r) => Rewriting(t)
    BY <1>10, <2>2 DEF RewritingRecord, Rewriting, CommitRewrap
  <2> HIDE DEF r
  <2>4. rekey'[t] = r /\ \A u \in Rekeyers \ {t} : rekey'[u] = rekey[u]
    BY <2>1, <1>ty
  <2>5. KeyIsolated'
    BY <1>10, <2>1, <2>2, <2>3, OneStepIsolated DEF CommitRewrap
  <2>6. OpenedInserted'
    BY <1>10, <2>2, <2>4 DEF OpenedInserted, CommitRewrap
  <2>7. stored'.key = rekey[t].new
    BY <1>10 DEF CommitRewrap, NewEnvelope
  <2>8. ASSUME NEW u \in Rekeyers, Rewrote(u)', NEW v \in rekey'[u].opened
        PROVE  wrap'[v] \in {None, stored'.key}
    <3>1. CASE u = t
      <4>1. v \in rekey[t].opened /\ v \in Vaults
        BY <2>2, <2>4, <2>8, <3>1, <1>ty DEF RekeyState
      <4> QED
        BY <1>10, <2>7, <4>1 DEF CommitRewrap
    <3>2. CASE u # t
      <4>1. rekey[u].new = stored'.key /\ Rewriting(u)
        BY <2>4, <2>8, <3>2 DEF Rewrote, NewEnvelope, Rewriting
      <4> QED
        BY <2>7, <3>2, <4>1 DEF KeyIsolated
    <3> QED
      BY <3>1, <3>2
  <2> QED
    BY <2>5, <2>6, <2>8 DEF CommittedRekeyIsWhole
<1>11. ASSUME NEW t \in Rekeyers, ReplacePassword(t)
       PROVE  KeyIsolated' /\ OpenedInserted' /\ CommittedRekeyIsWhole'
  <2> DEFINE r == [rekey[t] EXCEPT !.stage = "verify"]
  <2>1. rekey' = [rekey EXCEPT ![t] = r]
    BY <1>11 DEF ReplacePassword
  <2>2. /\ r \in RekeyState /\ r.stage = "verify" /\ r.old = rekey[t].old
        /\ r.new = rekey[t].new /\ r.routine = "replace_password"
        /\ r.todo = rekey[t].todo /\ r.opened = rekey[t].opened
    BY <1>11, <1>ty DEF RekeyState, Stages, ReplacePassword
  <2> HIDE DEF r
  <2>3. rekey'[t] = r /\ \A u \in Rekeyers \ {t} : rekey'[u] = rekey[u]
    BY <2>1, <1>ty
  <2>4. KeyIsolated'
    BY <1>11, <2>1, <2>2, OneStepIsolated DEF ReplacePassword, RewritingRecord
  <2>5. OpenedInserted'
    BY <1>11, <2>2, <2>3 DEF OpenedInserted, ReplacePassword
  <2>6. stored'.key = rekey[t].new
    BY <1>11 DEF ReplacePassword, NewEnvelope
  <2>7. ASSUME NEW u \in Rekeyers, Rewrote(u)'
        PROVE  FALSE
    <3>1. u # t
      BY <2>2, <2>3, <2>7 DEF Rewrote
    <3>2. rekey[u].new = stored'.key /\ Rewriting(u)
      BY <2>3, <2>7, <3>1 DEF Rewrote, NewEnvelope, Rewriting
    <3> QED
      BY <2>6, <3>1, <3>2 DEF KeyIsolated
  <2> QED
    BY <2>4, <2>5, <2>7 DEF CommittedRekeyIsWhole
<1>12. ASSUME NEW t \in Rekeyers, Verify(t)
       PROVE  KeyIsolated' /\ OpenedInserted' /\ CommittedRekeyIsWhole'
  <2> DEFINE r == [rekey[t] EXCEPT !.stage = "cache"]
  <2>1. rekey' = [rekey EXCEPT ![t] = r]
    BY <1>12 DEF Verify
  <2>2. /\ r \in RekeyState /\ r.stage = "cache" /\ r.old = rekey[t].old
        /\ r.new = rekey[t].new /\ r.routine = rekey[t].routine
        /\ r.password = rekey[t].password
        /\ r.todo = rekey[t].todo /\ r.opened = rekey[t].opened
    BY <1>ty DEF RekeyState, Stages
  <2> HIDE DEF r
  <2>3. Rewrote(t)' => Rewrote(t)
    BY <1>12, <2>1, <2>2, <1>ty DEF Verify, Rewrote, NewEnvelope
  <2>4. \A v \in r.todo \union r.opened : row[v] # "absent"
    BY <2>2 DEF OpenedInserted
  <2>5. RewritingRecord(r) => Rewriting(t)
    BY <1>12, <2>2 DEF RewritingRecord, Rewriting, Verify
  <2> QED
    BY <1>12, <2>1, <2>2, <2>3, <2>4, <2>5, <1>one DEF Verify
<1>13. ASSUME NEW t \in Rekeyers, CacheEnvelope(t)
       PROVE  KeyIsolated' /\ OpenedInserted' /\ CommittedRekeyIsWhole'
  <2> DEFINE r == [rekey[t] EXCEPT !.stage = "deliver"]
  <2>1. rekey' = [rekey EXCEPT ![t] = r]
    BY <1>13 DEF CacheEnvelope
  <2>2. /\ r \in RekeyState /\ r.stage = "deliver" /\ r.old = rekey[t].old
        /\ r.new = rekey[t].new /\ r.todo = rekey[t].todo /\ r.opened = rekey[t].opened
    BY <1>ty DEF RekeyState, Stages
  <2> HIDE DEF r
  <2>3. rekey'[t] = r /\ \A u \in Rekeyers \ {t} : rekey'[u] = rekey[u]
    BY <2>1, <1>ty
  <2>4. cached'.key = rekey[t].new
    BY <1>13 DEF CacheEnvelope, NewEnvelope
  <2>5. KeyIsolated'
    BY <1>13, <2>1, <2>2, <2>4, OneStepIsolated DEF CacheEnvelope, RewritingRecord
  <2>6. OpenedInserted'
    BY <1>13, <2>2, <2>3 DEF OpenedInserted, CacheEnvelope
  <2>7. \A u \in Rekeyers : Rewrote(u)' => Rewrote(u) /\ rekey'[u].opened = rekey[u].opened
    BY <1>13, <2>2, <2>3 DEF CacheEnvelope, Rewrote, NewEnvelope
  <2>8. CommittedRekeyIsWhole'
    BY <1>13, <2>7, WholeKept DEF CacheEnvelope
  <2> QED
    BY <2>5, <2>6, <2>8
<1>14. ASSUME NEW t \in Rekeyers, DeliverKey(t)
       PROVE  KeyIsolated' /\ OpenedInserted' /\ CommittedRekeyIsWhole'
  BY <1>14, <1>end DEF DeliverKey, OpenWindow
<1>15. ASSUME NEW t \in Rekeyers, FailRekey(t)
       PROVE  KeyIsolated' /\ OpenedInserted' /\ CommittedRekeyIsWhole'
  BY <1>15, <1>end DEF FailRekey, OpenWindow
<1>16. CASE Logout
  <2>1. rekey' = Detached
    BY <1>16 DEF Logout
  <2>2. KeyIsolated'
    <3>1. \A u \in Rekeyers : Rewriting(u)' => Rewriting(u) /\ rekey'[u].new \in Keys
                              /\ rekey'[u].new \notin {cached'.key, session'}
      BY <1>16, <2>1, <1>s, <1>n DEF Logout, Rewriting, KeyIsolated
    <3>2. \A u \in Rekeyers : /\ rekey'[u].old \in {rekey[u].old, None}
                              /\ rekey'[u].new \in {rekey[u].new, None}
      BY <2>1, <1>s
    <3> QED
      BY <1>16, <3>1, <3>2, FewerKeysIsolated DEF Logout
  <2>3. OpenedInserted'
    BY <1>16, <2>1, <1>s DEF Logout, OpenedInserted
  <2>4. \A u \in Rekeyers : Rewrote(u)' => Rewrote(u) /\ rekey'[u].opened = rekey[u].opened
    BY <1>16, <2>1, <1>s DEF Logout, Rewrote, NewEnvelope
  <2>5. CommittedRekeyIsWhole'
    BY <1>16, <2>4, WholeKept DEF Logout
  <2> QED
    BY <2>2, <2>3, <2>5
(* A writer copies the session key, which no rewrap has, or forgets its own. *)
<1>17. ASSUME UNCHANGED <<stored, cached, session, rekey>>,
              \A w \in Writers : writer'[w].key \in {writer[w].key, session, None},
              \A v \in Vaults : wrap'[v] \in {wrap[v], None} \/ row[v] = "absent",
              \A v \in Vaults : row'[v] = "absent" => row[v] = "absent"
       PROVE  KeyIsolated' /\ OpenedInserted' /\ CommittedRekeyIsWhole'
  <2>1. \A u \in Rekeyers : (Rewriting(u)' <=> Rewriting(u)) /\ (Rewrote(u)' <=> Rewrote(u))
    BY <1>17 DEF Rewriting, Rewrote, NewEnvelope
  <2>2. KeyIsolated'
    BY <1>17, <2>1, <1>n, FewerKeysIsolated DEF KeyIsolated
  <2>3. OpenedInserted'
    BY <1>17, <1>ty DEF OpenedInserted, RekeyState
  <2>4. CommittedRekeyIsWhole'
    BY <1>17, <2>1, WholeKept
  <2> QED
    BY <2>2, <2>3, <2>4
<1>18. ASSUME NEW w \in Writers, NEW kind \in WriteKinds, BeginWrite(w, kind)
       PROVE  KeyIsolated' /\ OpenedInserted' /\ CommittedRekeyIsWhole'
  <2>1. \A u \in Writers : writer'[u].key \in {writer[u].key, session, None}
    BY <1>18, <1>ty DEF BeginWrite
  <2> QED
    BY <1>18, <2>1, <1>17 DEF BeginWrite
<1>19. ASSUME NEW w \in Writers, NEW v \in Vaults, InsertVault(w, v)
       PROVE  KeyIsolated' /\ OpenedInserted' /\ CommittedRekeyIsWhole'
  <2>1. \A u \in Writers : writer'[u].key \in {writer[u].key, session, None}
    BY <1>19, <1>ty DEF InsertVault, IdleWriter
  <2>2. \A u \in Vaults : wrap'[u] \in {wrap[u], None} \/ row[u] = "absent"
    BY <1>19, <1>ty DEF InsertVault
  <2>3. \A u \in Vaults : row'[u] = "absent" => row[u] = "absent"
    BY <1>19 DEF InsertVault, TypeInv, TypeOK
  <2> QED
    BY <1>19, <2>1, <2>2, <2>3, <1>17 DEF InsertVault
<1>20. ASSUME NEW w \in Writers, EnableTotp(w) \/ DisableTotp(w) \/ SealRecoveryKey(w)
       PROVE  KeyIsolated' /\ OpenedInserted' /\ CommittedRekeyIsWhole'
  <2>1. \A u \in Writers : writer'[u].key \in {writer[u].key, session, None}
    BY <1>20, <1>ty DEF EnableTotp, DisableTotp, SealRecoveryKey, IdleWriter
  <2> QED
    BY <1>20, <2>1, <1>17 DEF EnableTotp, DisableTotp, SealRecoveryKey
<1>21. ASSUME NEW v \in Vaults, TrashVault(v) \/ UntrashVault(v) \/ RevokeShare(v)
       PROVE  KeyIsolated' /\ OpenedInserted' /\ CommittedRekeyIsWhole'
  <2>1. \A u \in Vaults : wrap'[u] \in {wrap[u], None} \/ row[u] = "absent"
    BY <1>21, <1>ty DEF TrashVault, UntrashVault, RevokeShare
  <2>2. \A u \in Vaults : row'[u] = "absent" => row[u] = "absent"
    BY <1>21 DEF TrashVault, UntrashVault, RevokeShare, TypeInv, TypeOK
  <2> QED
    BY <1>21, <2>1, <2>2, <1>17 DEF TrashVault, UntrashVault, RevokeShare
<1>22. CASE Restart
  <2>1. \A u \in Rekeyers : /\ rekey'[u].stage = "idle"
                            /\ rekey'[u].todo = {} /\ rekey'[u].opened = {}
    BY <1>22, <1>i, <1>ty DEF Restart
  <2> QED
    BY <2>1 DEF KeyIsolated, Rewriting, OpenedInserted, CommittedRekeyIsWhole, Rewrote
<1>23. CASE UNCHANGED vars
  BY <1>23, <1>17 DEF vars
<1> QED
  BY <1>1, <1>2, <1>3, <1>4, <1>5, <1>6, <1>7, <1>8, <1>9, <1>9p, <1>10, <1>11, <1>12,
     <1>13, <1>14, <1>15, <1>16, <1>18, <1>19, <1>20, <1>21, <1>22, <1>23
  DEF Next, RekeyStep, WriterStep

(* In any format and under any concurrency, a rewrap whose envelope is still *)
(* the stored one when it is published has all its vaults under its key.     *)
THEOREM CommittedIsWhole == Spec => []CommittedRekeyIsWhole
<1>1. WholeInv => CommittedRekeyIsWhole
  BY DEF WholeInv
<1> QED
  BY InitWhole, NextWhole, <1>1, PTL DEF Spec

-----------------------------------------------------------------------------
(* Where a lone login or password change leaves the process. Between its     *)
(* commit and upsert_password_envelope the cache is behind the database;     *)
(* until its key is delivered so is the window; at every other stage both    *)
(* agree with the database, and the key it derived is the account's.         *)
RestsIn(r, db, cache, window, envelopes) ==
  /\ r.stage \notin {"verify", "cache"} => cache = db
  /\ r.stage \notin {"verify", "cache", "deliver"} => window \in {None, db.key}
  /\ r.stage \in {"derived", "rederive", "list", "unwrap", "phrase", "commit"} =>
       r.old = db.key
  /\ r.stage \in {"list", "unwrap", "phrase", "commit", "verify"} => r.routine # "none"
  /\ r.stage \in {"verify", "cache"} => db = NewEnvelope(r)
  /\ r.stage = "deliver" => r.new = db.key
  /\ r.stage # "idle" /\ r.mode = "change" /\ ~r.attached => window = None
  /\ \A v \in r.opened : envelopes[v] # None

AtRest(r) == RestsIn(r, stored, cached, session, wrap)

RestInv ==
  /\ WholeInv
  /\ failures = 0
  /\ SettledAtRest
  /\ \A t \in Rekeyers : AtRest(rekey[t])

(* One re-key at a time, no vault of another account that could be taken     *)
(* back, no storage error.                                                   *)
Undisturbed ==
  /\ \A t, u \in Rekeyers : t = u
  /\ SharedVaults = {}
  /\ MaxFailures = 0

LEMMA InitRest == Init => RestInv
<1> SUFFICES ASSUME Init PROVE RestInv
  OBVIOUS
<1>1. /\ cached = stored /\ session = None /\ failures = 0
      /\ \A t \in Rekeyers : /\ rekey[t].stage = "idle" /\ rekey[t].opened = {}
  BY DEF Init
<1> QED
  BY <1>1, InitWhole DEF RestInv, SettledAtRest, SessionKeyAtRest, SessionKeyCurrent,
                         CachedIsStored, AtRest, RestsIn

(* The only thread moves to record r: what is to be shown is about r.        *)
LEMMA LoneStep ==
  ASSUME Undisturbed, WholeInv, NEW t \in Rekeyers, NEW r \in RekeyState,
         rekey' = [rekey EXCEPT ![t] = r], failures' = 0,
         RestsIn(r, stored', cached', session', wrap')
  PROVE  failures' = 0 /\ SettledAtRest' /\ \A u \in Rekeyers : AtRest(rekey[u])'
<1>1. rekey'[t] = r
  BY DEF WholeInv, TypeInv, TypeOK
<1>2. \A u \in Rekeyers : u = t
  BY DEF Undisturbed
<1>3. AtRest(rekey[t])'
  BY <1>1 DEF AtRest
<1>4. SettledAtRest'
  BY <1>1, <1>2 DEF RestsIn, SettledAtRest, SessionKeyAtRest, SessionKeyCurrent, CachedIsStored
<1> QED
  BY <1>2, <1>3, <1>4

(* No thread moves, at most the window's key goes away or a vault gets one.  *)
LEMMA LoneKept ==
  ASSUME RestInv, UNCHANGED <<stored, cached, failures>>,
         \A t \in Rekeyers :
           \/ rekey'[t] = rekey[t] /\ session' = session
           \/ /\ session' = None
              /\ rekey[t] \in RekeyState
              /\ rekey'[t] = [rekey[t] EXCEPT !.attached = FALSE],
         session' \in {session, None},
         \A t \in Rekeyers : \A v \in rekey[t].opened : wrap'[v] # None
  PROVE  failures' = 0 /\ SettledAtRest' /\ \A u \in Rekeyers : AtRest(rekey[u])'
<1>1. ASSUME NEW t \in Rekeyers
      PROVE  /\ rekey'[t].stage = rekey[t].stage /\ rekey'[t].mode = rekey[t].mode
             /\ rekey'[t].old = rekey[t].old /\ rekey'[t].new = rekey[t].new
             /\ rekey'[t].routine = rekey[t].routine
             /\ rekey'[t].password = rekey[t].password
             /\ rekey'[t].opened = rekey[t].opened
             /\ \/ rekey'[t].attached = rekey[t].attached /\ session' = session
                \/ session' = None
  BY ZenonT(120) DEF RekeyState
<1>2. ASSUME NEW t \in Rekeyers
      PROVE  AtRest(rekey[t])'
  <2>1. AtRest(rekey[t])
    BY DEF RestInv
  <2>2. NewEnvelope(rekey[t])' = NewEnvelope(rekey[t])
    BY <1>1 DEF NewEnvelope
  <2> QED
    BY <1>1, <2>1, <2>2 DEF AtRest, RestsIn
<1>3. SettledAtRest'
  BY <1>1 DEF RestInv, SettledAtRest, SessionKeyAtRest, SessionKeyCurrent, CachedIsStored
<1> QED
  BY <1>2, <1>3 DEF RestInv

LEMMA NextRest == Undisturbed /\ RestInv /\ [Next]_vars => RestInv'
<1> SUFFICES ASSUME Undisturbed, RestInv, [Next]_vars
             PROVE  failures' = 0 /\ SettledAtRest' /\ \A u \in Rekeyers : AtRest(rekey[u])'
  BY NextWhole DEF RestInv
<1> DEFINE Goal == failures' = 0 /\ SettledAtRest' /\ \A u \in Rekeyers : AtRest(rekey[u])'
<1>w. WholeInv /\ TypeInv /\ OpenedInserted /\ CommittedRekeyIsWhole /\ failures = 0
  BY DEF RestInv, WholeInv
<1>un. Undisturbed /\ WholeInv /\ failures = 0
  BY <1>w
<1> USE DEF blobs, vaults
<1>ty. rekey \in [Rekeyers -> RekeyState] /\ writer \in [Writers -> WriterState]
       /\ wrap \in [Vaults -> KeyOrNone] /\ stored \in Envelope /\ cached \in Envelope
       /\ row \in [Vaults -> {"absent", "live", "trashed"}] /\ session \in KeyOrNone
  BY <1>w DEF TypeInv, TypeOK
<1>at. ASSUME NEW t \in Rekeyers
       PROVE  AtRest(rekey[t])
  BY DEF RestInv
<1>one. \A t, u \in Rekeyers : t = u
  BY DEF Undisturbed
<1>i. \A r \in RekeyState : Idle(r) \in RekeyState /\ Idle(r).stage = "idle" /\ Idle(r).opened = {}
  <2>1. \A r \in RekeyState : Idle(r).stage = "idle" /\ Idle(r).opened = {}
    BY DEF Idle, RekeyState
  <2> QED
    BY <2>1, IdleType
(* The key a lone re-key wraps under is a key.                               *)
<1>n. ASSUME NEW t \in Rekeyers,
             rekey[t].stage \notin {"idle", "derived", "rederive"}
      PROVE  rekey[t].new \in Keys /\ rekey[t].new # None
  BY <1>n, <1>w, NoneIsNoKey DEF TypeInv, NewIsKey
(* The thread ends, having delivered a key that is the account's.            *)
<1>end. ASSUME NEW t \in Rekeyers,
               \/ rekey' = [Detached EXCEPT ![t] = Idle(Detached[t])]
               \/ rekey' = [rekey EXCEPT ![t] = Idle(rekey[t])],
               cached = stored, session' \in {None, stored.key},
               UNCHANGED <<stored, cached, wrap, failures>>
        PROVE  Goal
  <2>1. PICK r \in RekeyState : /\ r.stage = "idle" /\ r.opened = {}
                                /\ rekey' = [rekey EXCEPT ![t] = r]
    <3>1. CASE rekey' = [rekey EXCEPT ![t] = Idle(rekey[t])]
      BY <3>1, <1>i, <1>ty
    <3>2. CASE rekey' = [Detached EXCEPT ![t] = Idle(Detached[t])]
      <4>1. [rekey[t] EXCEPT !.attached = FALSE] \in RekeyState
        BY <1>ty DEF RekeyState
      <4>2. Detached[t] \in RekeyState
        BY <4>1 DEF Detached
      <4>3. [Detached EXCEPT ![t] = Idle(Detached[t])]
              = [rekey EXCEPT ![t] = Idle(Detached[t])]
        BY <1>one, <1>ty DEF Detached
      <4> QED
        BY <3>2, <4>2, <4>3, <1>i
    <3> QED
      BY <1>end, <3>1, <3>2
  <2>r. RestsIn(r, stored', cached', session', wrap')
    BY <1>end, <2>1 DEF RestsIn
  <2> QED
    BY <1>end, <2>1, <2>r, <1>un, LoneStep
<1>1. ASSUME NEW t \in Rekeyers, NEW p \in Passwords, BeginLogin(t, p)
      PROVE  Goal
  <2> DEFINE r == [Idle(rekey[t]) EXCEPT !.stage = "derived", !.mode = "login",
                                         !.password = p, !.old = cached.key]
  <2>1. /\ r \in RekeyState /\ r.stage = "derived" /\ r.mode = "login"
        /\ r.old = cached.key /\ r.opened = {}
    <3> DEFINE i == Idle(rekey[t])
    <3>1. i \in RekeyState /\ i.opened = {}
      BY <1>i, <1>ty
    <3> HIDE DEF i
    <3> QED
      BY <3>1, <1>ty DEF RekeyState, Stages, Modes, KeyOrNone, Envelope, i
  <2>2. rekey' = [rekey EXCEPT ![t] = r]
    BY <1>1 DEF BeginLogin
  <2>3. cached = stored /\ session = None /\ UNCHANGED <<stored, cached, session, wrap, failures>>
    BY <1>1, <1>at DEF BeginLogin, AtRest, RestsIn
  <2> HIDE DEF r
  <2>r. RestsIn(r, stored', cached', session', wrap')
    BY <2>1, <2>2, <2>3 DEF RestsIn
  <2> QED
    BY <2>1, <2>2, <2>3, <2>r, <1>un, LoneStep
<1>2. ASSUME NEW t \in Rekeyers, NEW current \in Passwords, NEW new \in Passwords,
             BeginChange(t, current, new)
      PROVE  Goal
  <2> DEFINE r == [Idle(rekey[t]) EXCEPT !.stage = "derived", !.mode = "change",
                                         !.password = new, !.old = cached.key,
                                         !.attached = TRUE]
  <2>1. /\ r \in RekeyState /\ r.stage = "derived" /\ r.attached
        /\ r.old = cached.key /\ r.opened = {}
    <3> DEFINE i == Idle(rekey[t])
    <3>1. i \in RekeyState /\ i.opened = {}
      BY <1>i, <1>ty
    <3> HIDE DEF i
    <3> QED
      BY <3>1, <1>ty DEF RekeyState, Stages, Modes, KeyOrNone, Envelope, i
  <2>2. rekey' = [rekey EXCEPT ![t] = r]
    BY <1>2 DEF BeginChange
  <2>3. /\ cached = stored /\ session \in {None, stored.key}
        /\ UNCHANGED <<stored, cached, session, wrap, failures>>
    BY <1>2, <1>at DEF BeginChange, AtRest, RestsIn
  <2> HIDE DEF r
  <2>r. RestsIn(r, stored', cached', session', wrap')
    BY <2>1, <2>2, <2>3 DEF RestsIn
  <2> QED
    BY <2>1, <2>2, <2>3, <2>r, <1>un, LoneStep
<1>3. ASSUME NEW t \in Rekeyers, ChooseChange(t)
      PROVE  Goal
  <2>1. PICK routine \in Routines \ {"none"}, k \in Keys :
          /\ rekey' = [rekey EXCEPT ![t].stage = "list", ![t].routine = routine,
                                    ![t].new = k]
          /\ \/ routine = "replace_password" /\ k = rekey[t].old
             \/ k \in FreshKeys
    <3>1. rekey[t].old \in Keys /\ FreshKeys \subseteq Keys
      BY <1>3, <1>w DEF ChooseChange, FreshKeys, TypeInv, NewIsKey
    <3>2. CASE cached.format = "account"
      BY <1>3, <3>1, <3>2 DEF ChooseChange, Routines
    <3>3. CASE cached.format # "account" /\ SingleAccount
      BY <1>3, <3>1, <3>3 DEF ChooseChange, Routines
    <3>4. CASE cached.format # "account" /\ ~SingleAccount
      BY <1>3, <3>1, <3>4 DEF ChooseChange, Routines
    <3> QED
      BY <3>2, <3>3, <3>4
  <2> DEFINE r == [rekey[t] EXCEPT !.stage = "list", !.routine = routine, !.new = k]
  <2>2. /\ r \in RekeyState /\ r.stage = "list" /\ r.mode = rekey[t].mode
        /\ r.old = rekey[t].old /\ r.routine = routine /\ r.attached = rekey[t].attached
        /\ r.opened = rekey[t].opened
    BY ZenonT(120), <1>ty DEF RekeyState, Stages, Routines, KeyOrNone
  <2>3. rekey' = [rekey EXCEPT ![t] = r]
    BY <2>1
  <2>4. /\ UNCHANGED <<stored, cached, session, wrap, failures>>
        /\ rekey[t].stage = "derived"
    BY <1>3 DEF ChooseChange
  <2> HIDE DEF r
  <2>at. AtRest(rekey[t])
    BY <1>at
  <2>r. RestsIn(r, stored', cached', session', wrap')
    BY <2>2, <2>3, <2>4, <2>at DEF AtRest, RestsIn
  <2> QED
    BY <2>2, <2>3, <2>4, <2>r, <1>un, LoneStep
<1>4. ASSUME NEW t \in Rekeyers, OpenSession(t)
      PROVE  Goal
  <2>1. cached = stored /\ rekey[t].old = stored.key
    BY <1>4, <1>at DEF OpenSession, AtRest, RestsIn
  <2> QED
    BY <1>4, <2>1, <1>end DEF OpenSession, OpenWindow
<1>5. ASSUME NEW t \in Rekeyers, NeedsMigration(t)
      PROVE  Goal
  <2> DEFINE r == [rekey[t] EXCEPT !.stage = "rederive"]
  <2>1. rekey' = [rekey EXCEPT ![t] = r]
    BY <1>5 DEF NeedsMigration
  <2>2. /\ r \in RekeyState /\ r.stage = "rederive" /\ r.old = rekey[t].old
        /\ r.mode = rekey[t].mode /\ r.attached = rekey[t].attached
        /\ r.opened = rekey[t].opened
    BY <1>ty DEF RekeyState, Stages
  <2>3. /\ UNCHANGED <<stored, cached, session, wrap, failures>>
        /\ rekey[t].stage = "derived"
    BY <1>5 DEF NeedsMigration
  <2> HIDE DEF r
  <2>at. AtRest(rekey[t])
    BY <1>at
  <2>r. RestsIn(r, stored', cached', session', wrap')
    BY <2>1, <2>2, <2>3, <2>at DEF AtRest, RestsIn
  <2> QED
    BY <2>1, <2>2, <2>3, <2>r, <1>un, LoneStep
<1>6. ASSUME NEW t \in Rekeyers, Rederive(t)
      PROVE  Goal
  <2>1. PICK k \in FreshKeys :
          rekey' = [rekey EXCEPT ![t].stage = "list", ![t].routine = "migrate",
                                 ![t].old = cached.key, ![t].new = k]
    BY <1>6 DEF Rederive
  <2> DEFINE r == [rekey[t] EXCEPT !.stage = "list", !.routine = "migrate",
                                   !.old = cached.key, !.new = k]
  <2>c. cached.key \in Keys
    BY <1>ty DEF Envelope
  <2>2. /\ r \in RekeyState /\ r.stage = "list" /\ r.old = cached.key
        /\ r.mode = rekey[t].mode /\ r.routine = "migrate"
        /\ r.attached = rekey[t].attached /\ r.opened = rekey[t].opened
    BY ZenonT(120), <1>ty, <2>c DEF RekeyState, Stages, Routines, KeyOrNone, FreshKeys
  <2>3. rekey' = [rekey EXCEPT ![t] = r]
    BY <2>1
  <2>4. /\ UNCHANGED <<stored, cached, session, wrap, failures>>
        /\ rekey[t].stage = "rederive"
    BY <1>6 DEF Rederive
  <2> HIDE DEF r
  <2>at. AtRest(rekey[t])
    BY <1>at
  <2>r. RestsIn(r, stored', cached', session', wrap')
    BY <2>2, <2>3, <2>4, <2>at DEF AtRest, RestsIn
  <2> QED
    BY <2>2, <2>3, <2>4, <2>r, <1>un, LoneStep
<1>7. ASSUME NEW t \in Rekeyers, ListVaults(t)
      PROVE  Goal
  <2> DEFINE r == [rekey[t] EXCEPT !.stage = "unwrap", !.todo = Accessible]
  <2>1. rekey' = [rekey EXCEPT ![t] = r]
    BY <1>7 DEF ListVaults
  <2>2. /\ r \in RekeyState /\ r.stage = "unwrap" /\ r.old = rekey[t].old
        /\ r.mode = rekey[t].mode /\ r.routine = rekey[t].routine
        /\ r.attached = rekey[t].attached /\ r.opened = rekey[t].opened
    BY ZenonT(60), <1>ty DEF RekeyState, Stages, Accessible
  <2>3. /\ UNCHANGED <<stored, cached, session, wrap, failures>>
        /\ rekey[t].stage = "list"
    BY <1>7 DEF ListVaults
  <2> HIDE DEF r
  <2>at. AtRest(rekey[t])
    BY <1>at
  <2>r. RestsIn(r, stored', cached', session', wrap')
    BY <2>1, <2>2, <2>3, <2>at DEF AtRest, RestsIn
  <2> QED
    BY <2>1, <2>2, <2>3, <2>r, <1>un, LoneStep
<1>8. ASSUME NEW t \in Rekeyers, NEW v \in Vaults, UnwrapVault(t, v)
      PROVE  Goal
  <2> DEFINE o == IF wrap[v] = None THEN rekey[t].opened ELSE rekey[t].opened \union {v}
             r == [rekey[t] EXCEPT !.todo = @ \ {v}, !.opened = o]
  <2>1. rekey' = [rekey EXCEPT ![t] = r]
    BY <1>8 DEF UnwrapVault
  <2>2. /\ r \in RekeyState /\ r.stage = "unwrap" /\ r.old = rekey[t].old
        /\ r.mode = rekey[t].mode /\ r.routine = rekey[t].routine
        /\ r.attached = rekey[t].attached /\ r.opened = o
    BY ZenonT(60), <1>8, <1>ty DEF RekeyState, UnwrapVault
  <2>3. /\ UNCHANGED <<stored, cached, session, wrap, failures>>
        /\ rekey[t].stage = "unwrap"
    BY <1>8 DEF UnwrapVault
  <2>4. \A u \in o : wrap[u] # None
    BY <1>at DEF AtRest, RestsIn
  <2> HIDE DEF r, o
  <2>at. AtRest(rekey[t])
    BY <1>at
  <2>r. RestsIn(r, stored', cached', session', wrap')
    BY <2>1, <2>2, <2>3, <2>4, <2>at DEF AtRest, RestsIn
  <2> QED
    BY <2>1, <2>2, <2>3, <2>4, <2>r, <1>un, LoneStep
<1>9. ASSUME NEW t \in Rekeyers, ReadTotp(t)
      PROVE  Goal
  <2> DEFINE r == [rekey[t] EXCEPT !.stage = "phrase",
                                   !.totp  = RewrapBlob(totp, rekey[t].old)]
  <2>1. rekey' = [rekey EXCEPT ![t] = r]
    BY <1>9 DEF ReadTotp
  <2>2. /\ r \in RekeyState /\ r.stage = "phrase" /\ r.old = rekey[t].old
        /\ r.mode = rekey[t].mode /\ r.routine = rekey[t].routine
        /\ r.attached = rekey[t].attached /\ r.opened = rekey[t].opened
    <3>1. RewrapBlob(totp, rekey[t].old) \in Changes
      BY RewrapType
    <3> QED
      BY ZenonT(60), <1>ty, <3>1 DEF RekeyState, Stages
  <2>3. /\ UNCHANGED <<stored, cached, session, wrap, failures>>
        /\ rekey[t].stage = "unwrap"
    BY <1>9 DEF ReadTotp
  <2> HIDE DEF r
  <2>at. AtRest(rekey[t])
    BY <1>at
  <2>r. RestsIn(r, stored', cached', session', wrap')
    BY <2>1, <2>2, <2>3, <2>at DEF AtRest, RestsIn
  <2> QED
    BY <2>1, <2>2, <2>3, <2>r, <1>un, LoneStep
<1>9p. ASSUME NEW t \in Rekeyers, ReadPhrase(t)
       PROVE  Goal
  <2> DEFINE r == [rekey[t] EXCEPT !.stage  = "commit",
                                   !.phrase = PhraseChange(rekey[t]),
                                   !.sealed = SealedChange(rekey[t])]
  <2>1. rekey' = [rekey EXCEPT ![t] = r]
    BY <1>9p DEF ReadPhrase
  <2>2. /\ r \in RekeyState /\ r.stage = "commit" /\ r.old = rekey[t].old
        /\ r.mode = rekey[t].mode /\ r.routine = rekey[t].routine
        /\ r.attached = rekey[t].attached /\ r.opened = rekey[t].opened
    <3>1. /\ PhraseChange(rekey[t]) \in Changes
          /\ SealedChange(rekey[t]) \in Changes
      BY RewrapType DEF PhraseChange, SealedChange, Changes
    <3> QED
      BY ZenonT(60), <1>ty, <3>1 DEF RekeyState, Stages
  <2>3. /\ UNCHANGED <<stored, cached, session, wrap, failures>>
        /\ rekey[t].stage = "phrase"
    BY <1>9p DEF ReadPhrase
  <2> HIDE DEF r
  <2>at. AtRest(rekey[t])
    BY <1>at
  <2>r. RestsIn(r, stored', cached', session', wrap')
    BY <2>1, <2>2, <2>3, <2>at DEF AtRest, RestsIn
  <2> QED
    BY <2>1, <2>2, <2>3, <2>r, <1>un, LoneStep
<1>10. ASSUME NEW t \in Rekeyers, CommitRewrap(t)
       PROVE  Goal
  <2> DEFINE r == [rekey[t] EXCEPT !.stage = "verify"]
  <2>1. rekey' = [rekey EXCEPT ![t] = r]
    BY <1>10 DEF CommitRewrap
  <2>2. /\ r \in RekeyState /\ r.stage = "verify" /\ r.new = rekey[t].new
        /\ r.mode = rekey[t].mode /\ r.routine = rekey[t].routine
        /\ r.password = rekey[t].password
        /\ r.attached = rekey[t].attached /\ r.opened = rekey[t].opened
    BY <1>ty DEF RekeyState, Stages
  <2>3. /\ UNCHANGED <<session, failures>> /\ rekey[t].stage = "commit"
        /\ stored' = NewEnvelope(rekey[t])
        /\ wrap' = [v \in Vaults |-> IF v \in rekey[t].opened THEN rekey[t].new ELSE wrap[v]]
    BY <1>10 DEF CommitRewrap
  <2>4. \A v \in r.opened : wrap'[v] # None
    BY <2>2, <2>3, <1>n DEF RekeyState
  <2> HIDE DEF r
  <2>5. stored' = NewEnvelope(r)
    BY <2>2, <2>3 DEF NewEnvelope
  <2>at. AtRest(rekey[t])
    BY <1>at
  <2>r. RestsIn(r, stored', cached', session', wrap')
    BY <2>1, <2>2, <2>3, <2>4, <2>5, <2>at DEF AtRest, RestsIn
  <2> QED
    BY <2>1, <2>2, <2>3, <2>4, <2>5, <2>r, <1>un, LoneStep
<1>11. ASSUME NEW t \in Rekeyers, ReplacePassword(t)
       PROVE  Goal
  <2> DEFINE r == [rekey[t] EXCEPT !.stage = "verify"]
  <2>1. rekey' = [rekey EXCEPT ![t] = r]
    BY <1>11 DEF ReplacePassword
  <2>2. /\ r \in RekeyState /\ r.stage = "verify" /\ r.new = rekey[t].new
        /\ r.mode = rekey[t].mode /\ r.routine = rekey[t].routine
        /\ r.password = rekey[t].password
        /\ r.attached = rekey[t].attached /\ r.opened = rekey[t].opened
    BY <1>ty DEF RekeyState, Stages
  <2>3. /\ UNCHANGED <<session, wrap, failures>> /\ rekey[t].stage = "unwrap"
        /\ stored' = NewEnvelope(rekey[t])
    BY <1>11 DEF ReplacePassword
  <2> HIDE DEF r
  <2>4. stored' = NewEnvelope(r)
    BY <2>2, <2>3 DEF NewEnvelope
  <2>at. AtRest(rekey[t])
    BY <1>at
  <2>r. RestsIn(r, stored', cached', session', wrap')
    BY <2>1, <2>2, <2>3, <2>4, <2>at DEF AtRest, RestsIn
  <2> QED
    BY <2>1, <2>2, <2>3, <2>4, <2>r, <1>un, LoneStep
<1>12. ASSUME NEW t \in Rekeyers, Verify(t)
       PROVE  Goal
  <2> DEFINE r == [rekey[t] EXCEPT !.stage = "cache"]
  <2>1. rekey' = [rekey EXCEPT ![t] = r]
    BY <1>12 DEF Verify
  <2>2. /\ r \in RekeyState /\ r.stage = "cache" /\ r.new = rekey[t].new
        /\ r.mode = rekey[t].mode /\ r.routine = rekey[t].routine
        /\ r.password = rekey[t].password
        /\ r.attached = rekey[t].attached /\ r.opened = rekey[t].opened
    BY <1>ty DEF RekeyState, Stages
  <2>3. /\ UNCHANGED <<stored, session, wrap, failures>> /\ rekey[t].stage = "verify"
        /\ stored = NewEnvelope(rekey[t])
    BY <1>12 DEF Verify, ReadsBack
  <2> HIDE DEF r
  <2>4. stored' = NewEnvelope(r)
    BY <2>2, <2>3 DEF NewEnvelope
  <2>at. AtRest(rekey[t])
    BY <1>at
  <2>r. RestsIn(r, stored', cached', session', wrap')
    BY <2>1, <2>2, <2>3, <2>4, <2>at DEF AtRest, RestsIn
  <2> QED
    BY <2>1, <2>2, <2>3, <2>4, <2>r, <1>un, LoneStep
<1>13. ASSUME NEW t \in Rekeyers, CacheEnvelope(t)
       PROVE  Goal
  <2> DEFINE r == [rekey[t] EXCEPT !.stage = "deliver"]
  <2>1. rekey' = [rekey EXCEPT ![t] = r]
    BY <1>13 DEF CacheEnvelope
  <2>2. /\ r \in RekeyState /\ r.stage = "deliver" /\ r.new = rekey[t].new
        /\ r.mode = rekey[t].mode /\ r.attached = rekey[t].attached
        /\ r.opened = rekey[t].opened
    BY <1>ty DEF RekeyState, Stages
  <2>3. /\ UNCHANGED <<stored, session, wrap, failures>> /\ rekey[t].stage = "cache"
        /\ cached' = NewEnvelope(rekey[t])
    BY <1>13 DEF CacheEnvelope
  <2>4. stored = NewEnvelope(rekey[t])
    BY <2>3, <1>at DEF AtRest, RestsIn
  <2>5. stored.key = rekey[t].new
    BY <2>4 DEF NewEnvelope
  <2> HIDE DEF r
  <2>at. AtRest(rekey[t])
    BY <1>at
  <2>r. RestsIn(r, stored', cached', session', wrap')
    BY <2>1, <2>2, <2>3, <2>4, <2>5, <2>at DEF AtRest, RestsIn
  <2> QED
    BY <2>1, <2>2, <2>3, <2>4, <2>5, <2>r, <1>un, LoneStep
(* The result reaches a window that is still open, or finds none.            *)
<1>14. ASSUME NEW t \in Rekeyers, DeliverKey(t)
       PROVE  Goal
  <2>1. cached = stored /\ rekey[t].new = stored.key
    BY <1>14, <1>at DEF DeliverKey, AtRest, RestsIn
  <2>2. CASE rekey[t].mode = "login"
    BY <1>14, <2>1, <2>2, <1>end DEF DeliverKey, OpenWindow
  <2>3. CASE rekey[t].mode # "login" /\ rekey[t].attached
    BY <1>14, <2>1, <2>3, <1>end DEF DeliverKey
  <2>4. CASE rekey[t].mode # "login" /\ ~rekey[t].attached
    <3>1. session' = None
      BY <1>14, <2>4, <1>at DEF DeliverKey, AtRest, RestsIn
    <3> QED
      BY <1>14, <2>1, <2>4, <3>1, <1>end DEF DeliverKey
  <2> QED
    BY <2>2, <2>3, <2>4
(* With no error of the storage, and nobody to change what it wrote, a lone  *)
(* re-key can only fail before its commit.                                   *)
<1>15. ASSUME NEW t \in Rekeyers, FailRekey(t)
       PROVE  Goal
  <2>1. Mismatch(rekey[t]) /\ UNCHANGED <<failures, stored, cached, wrap>>
    BY <1>15, <1>w DEF FailRekey, Undisturbed
  <2>2. rekey[t].stage # "verify"
    <3> SUFFICES ASSUME rekey[t].stage = "verify" PROVE ReadsBack(rekey[t])
      BY <2>1 DEF Mismatch
    <3>1. stored = NewEnvelope(rekey[t]) /\ rekey[t].routine # "none"
      BY <1>at DEF AtRest, RestsIn
    <3>2. stored.key = rekey[t].new
      BY <3>1 DEF NewEnvelope
    <3>3. ASSUME rekey[t].routine # "replace_password", NEW v \in rekey[t].opened
          PROVE  wrap[v] = rekey[t].new
      <4>1. Rewrote(t)
        BY <3>1, <3>3, <1>ty DEF Rewrote, RekeyState, Routines
      <4>2. wrap[v] \in {None, stored.key}
        BY <4>1, <3>3, <1>w DEF CommittedRekeyIsWhole
      <4> QED
        BY <3>2, <4>2, <3>3, <1>at DEF AtRest, RestsIn
    <3> QED
      BY <3>1, <3>3 DEF ReadsBack
  <2>3. /\ rekey[t].stage \in {"rederive", "unwrap", "commit"}
        /\ cached = stored /\ rekey[t].old = stored.key /\ session \in {None, stored.key}
    BY <2>1, <2>2, <1>at DEF Mismatch, AtRest, RestsIn
  <2> QED
    BY <1>15, <2>1, <2>3, <1>end DEF FailRekey, OpenWindow
<1>16. CASE Logout
  <2>1. ASSUME NEW u \in Rekeyers
        PROVE  rekey'[u] = [rekey[u] EXCEPT !.attached = FALSE]
    BY <1>16 DEF Logout, Detached
  <2>2. session' = None /\ UNCHANGED <<stored, cached, failures, wrap>>
    BY <1>16 DEF Logout
  <2> QED
    BY <2>1, <2>2, <1>ty, <1>at, LoneKept DEF AtRest, RestsIn
<1>17. ASSUME UNCHANGED <<stored, cached, session, rekey, failures>>,
              \A v \in Vaults : wrap'[v] = wrap[v] \/ row[v] = "absent"
       PROVE  Goal
  <2>1. \A u \in Rekeyers : \A v \in rekey[u].opened : wrap'[v] # None
    BY <1>17, <1>w, <1>at, <1>ty DEF AtRest, RestsIn, OpenedInserted, RekeyState
  <2> QED
    BY <1>17, <2>1, LoneKept
<1>18. ASSUME NEW w \in Writers, NEW kind \in WriteKinds, BeginWrite(w, kind)
       PROVE  Goal
  BY <1>18, <1>17 DEF BeginWrite
<1>19. ASSUME NEW w \in Writers, NEW v \in Vaults, InsertVault(w, v)
       PROVE  Goal
  <2>1. \A u \in Vaults : wrap'[u] = wrap[u] \/ row[u] = "absent"
    BY <1>19, <1>ty DEF InsertVault
  <2> QED
    BY <1>19, <2>1, <1>17 DEF InsertVault
<1>20. ASSUME NEW w \in Writers, EnableTotp(w) \/ DisableTotp(w) \/ SealRecoveryKey(w)
       PROVE  Goal
  BY <1>20, <1>17 DEF EnableTotp, DisableTotp, SealRecoveryKey
<1>21. ASSUME NEW v \in Vaults, TrashVault(v) \/ UntrashVault(v)
       PROVE  Goal
  BY <1>21, <1>17 DEF TrashVault, UntrashVault
<1>22. ASSUME NEW v \in Vaults, RevokeShare(v)
       PROVE  FALSE
  BY <1>22 DEF RevokeShare, Undisturbed
<1>23. CASE Restart
  <2>1. \A u \in Rekeyers : rekey'[u].stage = "idle" /\ rekey'[u].opened = {}
    BY <1>23, <1>i, <1>ty DEF Restart
  <2>2. cached' = stored' /\ session' = None /\ failures' = 0
    BY <1>23, <1>w DEF Restart
  <2>3. \A u \in Rekeyers : AtRest(rekey[u])'
    BY <2>1, <2>2 DEF AtRest, RestsIn
  <2> QED
    BY <2>1, <2>2, <2>3 DEF SettledAtRest, SessionKeyAtRest, SessionKeyCurrent,
                            CachedIsStored
<1>24. CASE UNCHANGED vars
  BY <1>24, <1>17 DEF vars
<1> QED
  BY <1>1, <1>2, <1>3, <1>4, <1>5, <1>6, <1>7, <1>8, <1>9, <1>9p, <1>10, <1>11, <1>12,
     <1>13, <1>14, <1>15, <1>16, <1>18, <1>19, <1>20, <1>21, <1>22, <1>23, <1>24
  DEF Next, RekeyStep, WriterStep

(* A login or a password change that runs alone leaves the process and the   *)
(* database in agreement, in either format, whatever other threads write     *)
(* and whenever the process stops: the password that signs in now is the one *)
(* that will after a restart, and the window holds the account's key         *)
(* (upsert_password_envelope, the result of change_master_password).         *)
THEOREM SettledWhenAlone == Undisturbed => (Spec => []SettledAtRest)
<1> SUFFICES ASSUME Undisturbed PROVE Spec => []SettledAtRest
  OBVIOUS
<1>1. RestInv => SettledAtRest
  BY DEF RestInv
<1>2. RestInv /\ [Next]_vars => RestInv'
  BY NextRest
<1> QED
  BY InitRest, <1>1, <1>2, PTL DEF Spec
-----------------------------------------------------------------------------
(* The promise to the owner in the legacy format, where a password change    *)
(* replaces the key of everything. It is kept by a re-key that runs alone    *)
(* and meets no storage error, over vaults that are the account's own and    *)
(* not in the trash. Next to another account it must also run without        *)
(* writers: a vault created meanwhile keeps the old key. The only account    *)
(* of the database needs no such condition, because its sign-in migrates     *)
(* the key before any window, and so any writer, has one.                    *)
Lone ==
  /\ Undisturbed
  /\ MaxTrashed = 0
  /\ SingleAccount \/ Writers = {}

Rewraps(r) == r.routine \in {"migrate", "rekey_legacy"}

(* What a thread knows of the vaults, the second factor and the format.      *)
KeepsAll(r) ==
  /\ r.routine = "rekey_legacy" => ~SingleAccount
  /\ r.stage = "derived" /\ r.mode = "login" => r.password = cached.password
  /\ r.stage = "rederive" =>
       r.mode = "login" /\ r.password = cached.password /\ cached.format = "legacy"
  /\ r.stage \in {"list", "unwrap"} /\ ~Rewraps(r) => r.new = r.old
  /\ r.stage \in {"list", "unwrap", "phrase", "commit"} /\ Rewraps(r) =>
       stored.format = "legacy"
  /\ r.stage \in {"unwrap", "phrase", "commit"} /\ Rewraps(r) =>
       \A v \in Vaults : wrap[v] # None => v \in r.todo \union r.opened
  /\ r.stage \in {"phrase", "commit"} =>
       Rewraps(r) /\ r.todo = {} /\ r.totp = RewrapBlob(totp, r.old)
  /\ r.stage = "deliver" /\ SingleAccount => stored.format = "account"

AllKept ==
  /\ AbsentHasNoKey
  /\ \A v \in Vaults : row[v] # "trashed"
  /\ EveryVaultOpens
  /\ totp \in {None, stored.key}
  /\ SingleAccount /\ session # None => session = stored.key /\ stored.format = "account"
  /\ \A w \in Writers : writer[w].kind # "idle" =>
       SingleAccount /\ writer[w].key = stored.key /\ stored.format = "account"
  /\ \A t \in Rekeyers : KeepsAll(rekey[t])

KeptInv == RestInv /\ AllKept

LEMMA InitKept == Lone /\ Init => KeptInv
<1> SUFFICES ASSUME Lone, Init PROVE AllKept
  BY InitRest DEF KeptInv
<1>1. \A v \in Vaults : row[v] # "trashed"
  <2> DEFINE T == {v \in Vaults : row[v] = "trashed"}
  <2>1. IsFiniteSet(T)
    BY VaultsFinite, FS_Subset
  <2>2. Cardinality(T) \in Nat /\ Cardinality(T) <= 0
    BY <2>1, FS_CardinalityType DEF Init, Lone
  <2>3. T = {}
    BY <2>1, <2>2, FS_EmptySet
  <2> QED
    BY <2>3
<1>2. /\ EveryVaultOpens /\ totp \in {None, stored.key} /\ session = None
      /\ \A w \in Writers : writer[w].kind = "idle"
      /\ \A t \in Rekeyers : rekey[t].stage = "idle" /\ rekey[t].routine = "none"
  BY DEF Init, EveryVaultOpens, IdleWriter
<1>3. AbsentHasNoKey
  BY DEF Init, AbsentHasNoKey
<1> QED
  BY <1>1, <1>2, <1>3 DEF AllKept, KeepsAll

(* A lone re-key that meets no storage error does not fail.                  *)
LEMMA LoneSucceeds ==
  ASSUME Lone, KeptInv, NEW t \in Rekeyers
  PROVE  ~FailRekey(t)
<1> SUFFICES ASSUME FailRekey(t) PROVE FALSE
  OBVIOUS
<1>at. AtRest(rekey[t]) /\ KeepsAll(rekey[t]) /\ failures = 0 /\ Undisturbed
  BY DEF KeptInv, RestInv, AllKept, Lone
<1>ty. rekey[t] \in RekeyState
  BY DEF KeptInv, RestInv, WholeInv, TypeInv, TypeOK
<1>1. Mismatch(rekey[t])
  BY <1>at DEF FailRekey, Undisturbed
<1>2. ~(rekey[t].stage = "rederive" /\ cached.password # rekey[t].password)
  BY <1>at DEF KeepsAll
<1>3. ~(rekey[t].stage = "unwrap" /\ \E v \in rekey[t].todo : wrap[v] \notin {None, rekey[t].old})
  BY <1>at, <1>ty DEF KeptInv, AllKept, AtRest, RestsIn, EveryVaultOpens, RekeyState
<1>4. SharesExist(rekey[t])
  BY <1>at DEF SharesExist, Undisturbed
<1>5. ~(rekey[t].stage = "verify" /\ ~ReadsBack(rekey[t]))
  <2> SUFFICES ASSUME rekey[t].stage = "verify" PROVE ReadsBack(rekey[t])
    OBVIOUS
  <2>1. stored = NewEnvelope(rekey[t])
    BY <1>at DEF AtRest, RestsIn
  <2>2. stored.key = rekey[t].new
    BY <2>1 DEF NewEnvelope
  <2>3. \A v \in rekey[t].opened : wrap[v] = rekey[t].new
    BY <1>at, <1>ty, <2>2 DEF KeptInv, AllKept, AtRest, RestsIn, EveryVaultOpens, RekeyState
  <2> QED
    BY <2>1, <2>3 DEF ReadsBack
<1> QED
  BY <1>1, <1>2, <1>3, <1>4, <1>5 DEF Mismatch

(* Before the commit of a rewrap no window holds a key of the only account,  *)
(* and nothing is being written: what the rewrap opened is all there is.     *)
LEMMA RewrapUndisturbed ==
  ASSUME Lone, KeptInv, NEW t \in Rekeyers, rekey[t].stage = "commit"
  PROVE  /\ SingleAccount => session = None
         /\ \A w \in Writers : writer[w].kind = "idle"
         /\ \A v \in Vaults : v \in rekey[t].opened <=> wrap[v] # None
         /\ rekey[t].old = stored.key
<1>1. KeepsAll(rekey[t]) /\ AtRest(rekey[t])
  BY DEF KeptInv, AllKept, RestInv
<1>2. stored.format = "legacy"
  BY <1>1 DEF KeepsAll
<1> QED
  BY <1>1, <1>2 DEF KeptInv, AllKept, KeepsAll, AtRest, RestsIn

(* The vaults and the second factor after the transaction of a lone rewrap.  *)
LEMMA RewrapKeepsAll ==
  ASSUME Lone, KeptInv, NEW t \in Rekeyers, CommitRewrap(t)
  PROVE  /\ \A v \in Vaults :
              wrap'[v] = IF wrap[v] = stored.key THEN stored'.key ELSE None
         /\ totp' = IF totp = stored.key THEN stored'.key ELSE None
         /\ \A v \in Vaults : wrap'[v] = None => wrap[v] = None
         /\ stored'.key # None /\ stored.key # None
<1>ty. /\ rekey[t] \in RekeyState /\ rekey[t].new \in Keys /\ rekey[t].new # None
       /\ stored \in Envelope /\ stored.key # None
  BY NoneIsNoKey DEF KeptInv, RestInv, WholeInv, TypeInv, TypeOK, NewIsKey, CommitRewrap,
                     Envelope
<1>1. /\ \A v \in Vaults : v \in rekey[t].opened <=> wrap[v] # None
      /\ rekey[t].old = stored.key
      /\ \A v \in Vaults : wrap[v] \in {None, stored.key}
      /\ totp \in {None, stored.key}
      /\ rekey[t].totp = RewrapBlob(totp, stored.key)
  BY RewrapUndisturbed DEF CommitRewrap, KeptInv, AllKept, KeepsAll, EveryVaultOpens
<1>2. stored'.key = rekey[t].new
  BY DEF CommitRewrap, NewEnvelope
<1>3. \A v \in Vaults : wrap'[v] = IF v \in rekey[t].opened THEN rekey[t].new ELSE wrap[v]
  BY DEF CommitRewrap
<1>4. totp' = Changed(rekey[t].totp, totp, rekey[t].new)
  BY DEF CommitRewrap
<1>5. totp' = IF totp = stored.key THEN stored'.key ELSE None
  <2>1. CASE totp = None
    BY <2>1, <1>ty, <1>1, <1>4 DEF RewrapBlob, Changed
  <2>2. CASE totp = stored.key
    BY <2>2, <1>ty, <1>1, <1>2, <1>4 DEF RewrapBlob, Changed
  <2> QED
    BY <2>1, <2>2, <1>1
<1> QED
  BY <1>ty, <1>1, <1>2, <1>3, <1>5

LEMMA NextKept == Lone /\ KeptInv /\ [Next]_vars => KeptInv'
<1> SUFFICES ASSUME Lone, KeptInv, [Next]_vars PROVE AllKept'
  BY NextRest DEF KeptInv, Lone
<1>r. RestInv /\ AllKept /\ WholeInv /\ TypeInv
  BY DEF KeptInv, RestInv, WholeInv
<1> USE DEF blobs, vaults
<1>ty. /\ rekey \in [Rekeyers -> RekeyState] /\ writer \in [Writers -> WriterState]
       /\ wrap \in [Vaults -> KeyOrNone] /\ stored \in Envelope /\ cached \in Envelope
       /\ row \in [Vaults -> {"absent", "live", "trashed"}] /\ trashes \in Nat
  BY <1>r DEF TypeInv, TypeOK
<1>at. ASSUME NEW t \in Rekeyers
       PROVE  AtRest(rekey[t]) /\ KeepsAll(rekey[t])
  BY <1>r DEF RestInv, AllKept
<1>all. /\ AbsentHasNoKey /\ (\A v \in Vaults : row[v] # "trashed")
        /\ EveryVaultOpens /\ totp \in {None, stored.key}
        /\ SingleAccount /\ session # None => session = stored.key /\ stored.format = "account"
        /\ \A w \in Writers : writer[w].kind # "idle" =>
             SingleAccount /\ writer[w].key = stored.key /\ stored.format = "account"
  BY <1>r DEF AllKept
(* Steps of the thread that change nothing but its own record.               *)
<1>quiet. ASSUME NEW t \in Rekeyers, NEW r \in RekeyState, KeepsAll(r),
                 rekey' = [rekey EXCEPT ![t] = r],
                 UNCHANGED <<stored, cached, blobs, vaults, session, writer>>
          PROVE  AllKept'
  <2>1. \A u \in Rekeyers : KeepsAll(rekey'[u])
    BY <1>quiet, <1>at, <1>ty
  <2>2. \A u \in Rekeyers : KeepsAll(rekey[u])'
    BY <1>quiet, <2>1 DEF KeepsAll, Rewraps, RewrapBlob
  <2> QED
    BY <1>quiet, <2>2, <1>all DEF AllKept, AbsentHasNoKey, EveryVaultOpens
(* Steps after which every thread is idle, or goes on without its window.    *)
<1>end. ASSUME \A u \in Rekeyers :
                 \/ rekey'[u].stage = "idle" /\ rekey'[u].routine = "none"
                 \/ cached' = cached /\ rekey'[u] = [rekey[u] EXCEPT !.attached = FALSE],
               UNCHANGED <<stored, blobs, vaults>>,
               SingleAccount /\ session' # None =>
                 session' = stored.key /\ stored.format = "account",
               \A w \in Writers : writer'[w] \in {writer[w], IdleWriter}
        PROVE  AllKept'
  <2>1. ASSUME NEW u \in Rekeyers
        PROVE  KeepsAll(rekey[u])'
    <3>1. CASE rekey'[u].stage = "idle" /\ rekey'[u].routine = "none"
      BY <3>1 DEF KeepsAll
    <3>2. CASE cached' = cached /\ rekey'[u] = [rekey[u] EXCEPT !.attached = FALSE]
      <4>1. rekey[u] \in RekeyState /\ KeepsAll(rekey[u])
        BY <1>ty, <1>at
      <4>2. /\ rekey'[u].stage = rekey[u].stage /\ rekey'[u].mode = rekey[u].mode
            /\ rekey'[u].routine = rekey[u].routine /\ rekey'[u].password = rekey[u].password
            /\ rekey'[u].old = rekey[u].old /\ rekey'[u].new = rekey[u].new
            /\ rekey'[u].todo = rekey[u].todo /\ rekey'[u].opened = rekey[u].opened
            /\ rekey'[u].totp = rekey[u].totp
        BY <3>2, <4>1 DEF RekeyState
      <4> QED
        BY <1>end, <3>2, <4>1, <4>2 DEF KeepsAll, Rewraps, RewrapBlob
    <3> QED
      BY <3>1, <3>2, <1>end
  <2>2. \A w \in Writers : writer'[w].kind # "idle" => writer'[w] = writer[w]
    BY <1>end DEF IdleWriter
  <2> QED
    BY <1>end, <2>1, <2>2, <1>all DEF AllKept, AbsentHasNoKey, EveryVaultOpens
<1>i. \A r \in RekeyState : Idle(r) \in RekeyState /\ Idle(r).stage = "idle"
                            /\ Idle(r).routine = "none"
  <2>1. \A r \in RekeyState : Idle(r).stage = "idle" /\ Idle(r).routine = "none"
    BY DEF Idle, RekeyState
  <2> QED
    BY <2>1, IdleType
<1>d. \A u \in Rekeyers : /\ Detached[u] = [rekey[u] EXCEPT !.attached = FALSE]
                          /\ Detached[u] \in RekeyState
  BY <1>ty DEF Detached, RekeyState
(* The thread ends.                                                          *)
<1>done. ASSUME NEW t \in Rekeyers,
                \/ rekey' = [Detached EXCEPT ![t] = Idle(Detached[t])]
                \/ rekey' = [rekey EXCEPT ![t] = Idle(rekey[t])],
                UNCHANGED <<stored, cached, blobs, vaults, writer>>,
                SingleAccount /\ session' # None =>
                  session' = stored.key /\ stored.format = "account"
         PROVE  AllKept'
  <2>1. \A u \in Rekeyers : rekey'[u].stage = "idle" /\ rekey'[u].routine = "none"
    <3>1. \A u \in Rekeyers : u = t
      BY DEF Lone, Undisturbed
    <3>2. rekey'[t] \in {Idle(Detached[t]), Idle(rekey[t])}
      BY <1>done, <1>ty DEF Detached
    <3>3. \A r \in {Detached[t], rekey[t]} : Idle(r).stage = "idle" /\ Idle(r).routine = "none"
      <4>1. Detached[t] \in RekeyState /\ rekey[t] \in RekeyState
        BY <1>d, <1>ty
      <4> QED
        BY <4>1, <1>i
    <3> QED
      BY <3>1, <3>2, <3>3
  <2> QED
    BY <1>done, <2>1, <1>end
<1>1. ASSUME NEW t \in Rekeyers, NEW p \in Passwords, BeginLogin(t, p)
      PROVE  AllKept'
  <2> DEFINE i == Idle(rekey[t])
             r == [i EXCEPT !.stage = "derived", !.mode = "login",
                            !.password = p, !.old = cached.key]
  <2>1. i \in RekeyState /\ i.routine = "none"
    BY <1>i, <1>ty
  <2>2. rekey' = [rekey EXCEPT ![t] = r]
    BY <1>1 DEF BeginLogin
  <2> HIDE DEF i
  <2>3. /\ r \in RekeyState /\ r.stage = "derived" /\ r.mode = "login" /\ r.password = p
        /\ r.routine = "none"
    BY <2>1, <1>ty DEF RekeyState, Stages, Modes, KeyOrNone, Envelope
  <2> HIDE DEF r
  <2>4. KeepsAll(r)
    BY <1>1, <2>3 DEF BeginLogin, KeepsAll
  <2> QED
    BY <1>1, <2>2, <2>3, <2>4, <1>quiet DEF BeginLogin
<1>2. ASSUME NEW t \in Rekeyers, NEW current \in Passwords, NEW new \in Passwords,
             BeginChange(t, current, new)
      PROVE  AllKept'
  <2> DEFINE i == Idle(rekey[t])
             r == [i EXCEPT !.stage = "derived", !.mode = "change", !.password = new,
                            !.old = cached.key, !.attached = TRUE]
  <2>1. i \in RekeyState /\ i.routine = "none"
    BY <1>i, <1>ty
  <2>2. rekey' = [rekey EXCEPT ![t] = r]
    BY <1>2 DEF BeginChange
  <2> HIDE DEF i
  <2>3. r \in RekeyState /\ r.stage = "derived" /\ r.mode = "change" /\ r.routine = "none"
    BY <2>1, <1>ty DEF RekeyState, Stages, Modes, KeyOrNone, Envelope
  <2> HIDE DEF r
  <2>4. KeepsAll(r)
    BY <2>3 DEF KeepsAll
  <2> QED
    BY <1>2, <2>2, <2>3, <2>4, <1>quiet DEF BeginChange
<1>3. ASSUME NEW t \in Rekeyers, ChooseChange(t)
      PROVE  AllKept'
  <2>c. cached = stored /\ rekey[t].old \in Keys
    BY <1>3, <1>at, <1>r DEF ChooseChange, AtRest, RestsIn, TypeInv, NewIsKey
  <2>1. PICK routine \in Routines, k \in Keys :
          /\ rekey' = [rekey EXCEPT ![t].stage = "list", ![t].routine = routine,
                                    ![t].new = k]
          /\ routine = "rekey_legacy" => ~SingleAccount
          /\ \/ routine = "replace_password" /\ k = rekey[t].old
             \/ routine \in {"migrate", "rekey_legacy"} /\ stored.format = "legacy"
    <3>1. FreshKeys \subseteq Keys
      BY DEF FreshKeys
    <3>2. CASE cached.format = "account"
      BY <1>3, <2>c, <3>2 DEF ChooseChange, Routines
    <3>3. CASE cached.format # "account" /\ SingleAccount
      BY <1>3, <2>c, <3>1, <3>3 DEF ChooseChange, Routines
    <3>4. CASE cached.format # "account" /\ ~SingleAccount
      BY <1>3, <2>c, <3>1, <3>4 DEF ChooseChange, Routines
    <3> QED
      BY <3>2, <3>3, <3>4
  <2> DEFINE r == [rekey[t] EXCEPT !.stage = "list", !.routine = routine, !.new = k]
  <2>2. /\ r \in RekeyState /\ r.stage = "list" /\ r.routine = routine
        /\ r.old = rekey[t].old /\ r.new = k
    BY ZenonT(60), <1>ty DEF RekeyState, Stages, Routines, KeyOrNone
  <2>3. rekey' = [rekey EXCEPT ![t] = r]
    BY <2>1
  <2> HIDE DEF r
  <2>4. KeepsAll(r)
    BY <2>1, <2>2 DEF KeepsAll, Rewraps
  <2> QED
    BY <1>3, <2>2, <2>3, <2>4, <1>quiet DEF ChooseChange
<1>4. ASSUME NEW t \in Rekeyers, OpenSession(t)
      PROVE  AllKept'
  <2>1. cached = stored /\ rekey[t].old = stored.key
    BY <1>4, <1>at DEF OpenSession, AtRest, RestsIn
  <2>2. SingleAccount => stored.format = "account"
    BY <1>4, <2>1 DEF OpenSession
  <2> QED
    BY <1>4, <2>1, <2>2, <1>done DEF OpenSession, OpenWindow
<1>5. ASSUME NEW t \in Rekeyers, NeedsMigration(t)
      PROVE  AllKept'
  <2> DEFINE r == [rekey[t] EXCEPT !.stage = "rederive"]
  <2>1. rekey' = [rekey EXCEPT ![t] = r]
    BY <1>5 DEF NeedsMigration
  <2>2. /\ r \in RekeyState /\ r.stage = "rederive" /\ r.mode = rekey[t].mode
        /\ r.password = rekey[t].password /\ r.routine = rekey[t].routine
    BY <1>ty DEF RekeyState, Stages
  <2> HIDE DEF r
  <2>3. KeepsAll(r)
    BY <1>5, <1>at, <2>2 DEF NeedsMigration, KeepsAll
  <2> QED
    BY <1>5, <2>1, <2>2, <2>3, <1>quiet DEF NeedsMigration
<1>6. ASSUME NEW t \in Rekeyers, Rederive(t)
      PROVE  AllKept'
  <2>1. PICK k \in Keys :
          rekey' = [rekey EXCEPT ![t].stage = "list", ![t].routine = "migrate",
                                 ![t].old = cached.key, ![t].new = k]
    BY <1>6 DEF Rederive, FreshKeys
  <2> DEFINE r == [rekey[t] EXCEPT !.stage = "list", !.routine = "migrate",
                                   !.old = cached.key, !.new = k]
  <2>c. cached.key \in Keys
    BY <1>ty DEF Envelope
  <2>2. r \in RekeyState /\ r.stage = "list" /\ r.routine = "migrate"
    BY ZenonT(120), <1>ty, <2>c DEF RekeyState, Stages, Routines, KeyOrNone
  <2>3. rekey' = [rekey EXCEPT ![t] = r]
    BY <2>1
  <2>4. stored.format = "legacy"
    BY <1>6, <1>at DEF Rederive, KeepsAll, AtRest, RestsIn
  <2> HIDE DEF r
  <2>5. KeepsAll(r)
    BY <2>2, <2>4 DEF KeepsAll, Rewraps
  <2> QED
    BY <1>6, <2>2, <2>3, <2>5, <1>quiet DEF Rederive
(* No vault is in the trash, so the list has every vault with an envelope.   *)
<1>7. ASSUME NEW t \in Rekeyers, ListVaults(t)
      PROVE  AllKept'
  <2> DEFINE r == [rekey[t] EXCEPT !.stage = "unwrap", !.todo = Accessible]
  <2>1. rekey' = [rekey EXCEPT ![t] = r]
    BY <1>7 DEF ListVaults
  <2>2. /\ r \in RekeyState /\ r.stage = "unwrap" /\ r.todo = Accessible
        /\ r.routine = rekey[t].routine /\ r.old = rekey[t].old /\ r.new = rekey[t].new
    BY ZenonT(60), <1>ty DEF RekeyState, Stages, Accessible
  <2>3. \A v \in Vaults : wrap[v] # None => v \in Accessible
    BY <1>all, <1>ty DEF Accessible, AbsentHasNoKey
  <2> HIDE DEF r
  <2>4. KeepsAll(r)
    BY <1>7, <1>at, <2>2, <2>3 DEF ListVaults, KeepsAll, Rewraps
  <2> QED
    BY <1>7, <2>1, <2>2, <2>4, <1>quiet DEF ListVaults
<1>8. ASSUME NEW t \in Rekeyers, NEW v \in Vaults, UnwrapVault(t, v)
      PROVE  AllKept'
  <2> DEFINE o == IF wrap[v] = None THEN rekey[t].opened ELSE rekey[t].opened \union {v}
             r == [rekey[t] EXCEPT !.todo = @ \ {v}, !.opened = o]
  <2>1. rekey' = [rekey EXCEPT ![t] = r]
    BY <1>8 DEF UnwrapVault
  <2>2. /\ r \in RekeyState /\ r.stage = "unwrap" /\ r.todo = rekey[t].todo \ {v}
        /\ r.opened = o /\ r.routine = rekey[t].routine
        /\ r.old = rekey[t].old /\ r.new = rekey[t].new
    BY ZenonT(60), <1>8, <1>ty DEF RekeyState, UnwrapVault
  <2> HIDE DEF r
  <2>3. \A u \in Vaults : wrap[u] # None /\ u \in rekey[t].todo \union rekey[t].opened
                            => u \in r.todo \union r.opened
    BY <2>2
  <2> HIDE DEF o
  <2>4. KeepsAll(r)
    BY <1>8, <1>at, <2>2, <2>3 DEF UnwrapVault, KeepsAll, Rewraps
  <2> QED
    BY <1>8, <2>1, <2>2, <2>4, <1>quiet DEF UnwrapVault
<1>9. ASSUME NEW t \in Rekeyers, ReadTotp(t)
      PROVE  AllKept'
  <2> DEFINE r == [rekey[t] EXCEPT !.stage = "phrase",
                                   !.totp  = RewrapBlob(totp, rekey[t].old)]
  <2>1. rekey' = [rekey EXCEPT ![t] = r]
    BY <1>9 DEF ReadTotp
  <2>2. /\ r \in RekeyState /\ r.stage = "phrase" /\ r.todo = rekey[t].todo
        /\ r.opened = rekey[t].opened /\ r.routine = rekey[t].routine
        /\ r.old = rekey[t].old /\ r.totp = RewrapBlob(totp, rekey[t].old)
    <3>1. RewrapBlob(totp, rekey[t].old) \in Changes
      BY RewrapType
    <3> QED
      BY ZenonT(60), <1>ty, <3>1 DEF RekeyState, Stages
  <2> HIDE DEF r
  <2>3. KeepsAll(r)
    BY <1>9, <1>at, <2>2 DEF ReadTotp, KeepsAll, Rewraps
  <2> QED
    BY <1>9, <2>1, <2>2, <2>3, <1>quiet DEF ReadTotp
<1>9p. ASSUME NEW t \in Rekeyers, ReadPhrase(t)
       PROVE  AllKept'
  <2> DEFINE r == [rekey[t] EXCEPT !.stage  = "commit",
                                   !.phrase = PhraseChange(rekey[t]),
                                   !.sealed = SealedChange(rekey[t])]
  <2>1. rekey' = [rekey EXCEPT ![t] = r]
    BY <1>9p DEF ReadPhrase
  <2>2. /\ r \in RekeyState /\ r.stage = "commit" /\ r.todo = rekey[t].todo
        /\ r.opened = rekey[t].opened /\ r.routine = rekey[t].routine
        /\ r.old = rekey[t].old /\ r.totp = rekey[t].totp
    <3>1. /\ PhraseChange(rekey[t]) \in Changes
          /\ SealedChange(rekey[t]) \in Changes
      BY RewrapType DEF PhraseChange, SealedChange, Changes
    <3> QED
      BY ZenonT(60), <1>ty, <3>1 DEF RekeyState, Stages
  <2> HIDE DEF r
  <2>3. KeepsAll(r)
    BY <1>9p, <1>at, <2>2 DEF ReadPhrase, KeepsAll, Rewraps
  <2> QED
    BY <1>9p, <2>1, <2>2, <2>3, <1>quiet DEF ReadPhrase
<1>10. ASSUME NEW t \in Rekeyers, CommitRewrap(t)
       PROVE  AllKept'
  <2> DEFINE r == [rekey[t] EXCEPT !.stage = "verify"]
  <2>1. rekey' = [rekey EXCEPT ![t] = r] /\ UNCHANGED <<row, session, writer>>
    BY <1>10 DEF CommitRewrap
  <2>2. r \in RekeyState /\ r.stage = "verify" /\ r.routine = rekey[t].routine
    BY <1>ty DEF RekeyState, Stages
  <2> HIDE DEF r
  <2>3. \A u \in Rekeyers : rekey'[u] = r
    BY <2>1, <1>ty DEF Lone, Undisturbed
  <2>4. \A u \in Rekeyers : KeepsAll(rekey[u])'
    BY <2>2, <2>3, <1>at DEF KeepsAll, Rewraps
  <2>5. (SingleAccount => session = None) /\ \A w \in Writers : writer[w].kind = "idle"
    BY <1>10, RewrapUndisturbed DEF CommitRewrap
  <2>6. /\ \A v \in Vaults : wrap'[v] \in {None, stored'.key}
        /\ totp' \in {None, stored'.key}
    BY <1>10, RewrapKeepsAll
  <2>7. \A v \in Vaults : wrap[v] = None => wrap'[v] = None
    BY <1>10, RewrapKeepsAll
  <2> QED
    BY <2>1, <2>4, <2>5, <2>6, <2>7, <1>all DEF AllKept, AbsentHasNoKey, EveryVaultOpens
<1>11. ASSUME NEW t \in Rekeyers, ReplacePassword(t)
       PROVE  AllKept'
  <2> DEFINE r == [rekey[t] EXCEPT !.stage = "verify"]
  <2>1. rekey' = [rekey EXCEPT ![t] = r]
        /\ UNCHANGED <<cached, blobs, vaults, session, writer>>
    BY <1>11 DEF ReplacePassword
  <2>2. r \in RekeyState /\ r.stage = "verify" /\ r.routine = rekey[t].routine
    BY <1>ty DEF RekeyState, Stages
  <2> HIDE DEF r
  <2>3. \A u \in Rekeyers : rekey'[u] = r
    BY <2>1, <1>ty DEF Lone, Undisturbed
  <2>4. \A u \in Rekeyers : KeepsAll(rekey[u])'
    BY <2>2, <2>3, <1>at DEF KeepsAll, Rewraps
  <2>5. stored'.key = stored.key /\ stored'.format = "account"
    BY <1>11, <1>at DEF ReplacePassword, NewEnvelope, KeepsAll, Rewraps, AtRest, RestsIn
  <2> QED
    BY <2>1, <2>4, <2>5, <1>all DEF AllKept, AbsentHasNoKey, EveryVaultOpens
<1>12. ASSUME NEW t \in Rekeyers, Verify(t)
       PROVE  AllKept'
  <2> DEFINE r == [rekey[t] EXCEPT !.stage = "cache"]
  <2>1. rekey' = [rekey EXCEPT ![t] = r]
    BY <1>12 DEF Verify
  <2>2. r \in RekeyState /\ r.stage = "cache" /\ r.routine = rekey[t].routine
    BY <1>ty DEF RekeyState, Stages
  <2> HIDE DEF r
  <2>3. KeepsAll(r)
    BY <1>at, <2>2 DEF KeepsAll
  <2> QED
    BY <1>12, <2>1, <2>2, <2>3, <1>quiet DEF Verify
<1>13. ASSUME NEW t \in Rekeyers, CacheEnvelope(t)
       PROVE  AllKept'
  <2> DEFINE r == [rekey[t] EXCEPT !.stage = "deliver"]
  <2>1. rekey' = [rekey EXCEPT ![t] = r]
        /\ UNCHANGED <<stored, blobs, vaults, session, writer>>
    BY <1>13 DEF CacheEnvelope
  <2>2. r \in RekeyState /\ r.stage = "deliver" /\ r.routine = rekey[t].routine
    BY <1>ty DEF RekeyState, Stages
  <2> HIDE DEF r
  <2>3. \A u \in Rekeyers : rekey'[u] = r
    BY <2>1, <1>ty DEF Lone, Undisturbed
  <2>4. SingleAccount => stored.format = "account"
    BY <1>13, <1>at DEF CacheEnvelope, AtRest, RestsIn, NewEnvelope, KeepsAll
  <2>5. \A u \in Rekeyers : KeepsAll(rekey[u])'
    BY <2>1, <2>2, <2>3, <2>4, <1>at DEF KeepsAll
  <2> QED
    BY <2>1, <2>5, <1>all DEF AllKept, AbsentHasNoKey, EveryVaultOpens
<1>14. ASSUME NEW t \in Rekeyers, DeliverKey(t)
       PROVE  AllKept'
  <2>1. /\ rekey[t].new = stored.key
        /\ SingleAccount => stored.format = "account"
    BY <1>14, <1>at DEF DeliverKey, AtRest, RestsIn, KeepsAll
  <2>2. session' \in {session, stored.key}
    BY <1>14, <2>1 DEF DeliverKey, OpenWindow
  <2> QED
    BY <1>14, <2>1, <2>2, <1>all, <1>done DEF DeliverKey, OpenWindow
<1>15. ASSUME NEW t \in Rekeyers, FailRekey(t)
       PROVE  FALSE
  BY <1>15, LoneSucceeds
<1>16. CASE Logout
  <2>1. /\ \A u \in Rekeyers : rekey'[u] = [rekey[u] EXCEPT !.attached = FALSE]
        /\ session' = None /\ UNCHANGED <<stored, cached, blobs, vaults, writer>>
    BY <1>16, <1>d DEF Logout
  <2> QED
    BY <2>1, <1>end
<1>17. ASSUME NEW w \in Writers, NEW kind \in WriteKinds, BeginWrite(w, kind)
       PROVE  AllKept'
  <2>1. SingleAccount /\ session = stored.key /\ stored.format = "account"
    BY <1>17, <1>all DEF BeginWrite, Lone
  <2>2. \A u \in Writers : writer'[u].kind # "idle" => writer'[u].key = stored.key
    BY <1>17, <2>1, <1>all, <1>ty DEF BeginWrite
  <2>3. UNCHANGED <<stored, cached, blobs, vaults, session, rekey>>
    BY <1>17 DEF BeginWrite
  <2>4. \A u \in Rekeyers : KeepsAll(rekey[u])'
    BY <2>3, <1>at DEF KeepsAll, Rewraps, RewrapBlob
  <2> QED
    BY <2>1, <2>2, <2>3, <2>4, <1>all DEF AllKept, AbsentHasNoKey, EveryVaultOpens
(* What a writer of the only account writes meets no rewrap.                 *)
<1>18. ASSUME NEW w \in Writers, writer[w].kind # "idle",
              writer' = [writer EXCEPT ![w] = IdleWriter],
              UNCHANGED <<stored, cached, session, rekey>>,
              totp' \in {totp, None, writer[w].key},
              \A v \in Vaults : \/ row'[v] = row[v] /\ wrap'[v] = wrap[v]
                                \/ row'[v] = "live" /\ wrap'[v] = writer[w].key
       PROVE  AllKept'
  <2>1. SingleAccount /\ writer[w].key = stored.key /\ stored.format = "account"
    BY <1>18, <1>all
  <2>2. \A u \in Writers : writer'[u].kind # "idle" => writer'[u] = writer[u]
    BY <1>18, <1>ty DEF IdleWriter
  <2>3. ASSUME NEW u \in Rekeyers
        PROVE  KeepsAll(rekey[u])'
    <3>1. ~(rekey[u].stage \in {"list", "unwrap", "phrase", "commit"} /\ Rewraps(rekey[u]))
      BY <2>1, <1>at DEF KeepsAll
    <3>2. rekey[u].stage \notin {"phrase", "commit"}
      BY <3>1, <1>at DEF KeepsAll
    <3> QED
      BY <1>18, <3>1, <3>2, <1>at DEF KeepsAll, Rewraps
  <2> QED
    BY <1>18, <2>1, <2>2, <2>3, <1>all DEF AllKept, AbsentHasNoKey, EveryVaultOpens
<1>19. ASSUME NEW w \in Writers, NEW v \in Vaults, InsertVault(w, v)
       PROVE  AllKept'
  <2>1. \A u \in Vaults : \/ row'[u] = row[u] /\ wrap'[u] = wrap[u]
                          \/ row'[u] = "live" /\ wrap'[u] = writer[w].key
    BY <1>19, <1>ty DEF InsertVault
  <2> QED
    BY <1>19, <2>1, <1>18 DEF InsertVault
<1>20. ASSUME NEW w \in Writers, EnableTotp(w) \/ DisableTotp(w) \/ SealRecoveryKey(w)
       PROVE  AllKept'
  BY <1>20, <1>18 DEF EnableTotp, DisableTotp, SealRecoveryKey
<1>21. ASSUME NEW v \in Vaults, TrashVault(v) \/ UntrashVault(v) \/ RevokeShare(v)
       PROVE  FALSE
  BY <1>21, <1>all, <1>ty DEF TrashVault, UntrashVault, RevokeShare, Lone, Undisturbed
<1>22. CASE Restart
  <2>1. /\ \A u \in Rekeyers : rekey'[u] = Idle(rekey[u])
        /\ \A w \in Writers : writer'[w] = IdleWriter
        /\ session' = None /\ UNCHANGED <<stored, blobs, vaults>>
    BY <1>22 DEF Restart
  <2>2. \A u \in Rekeyers : rekey'[u].stage = "idle" /\ rekey'[u].routine = "none"
    BY <2>1, <1>i, <1>ty
  <2> QED
    BY <2>1, <2>2, <1>end
<1>23. CASE UNCHANGED vars
  <2>1. \A u \in Rekeyers : KeepsAll(rekey[u])'
    BY <1>23, <1>at DEF vars, KeepsAll, Rewraps, RewrapBlob
  <2> QED
    BY <1>23, <2>1, <1>all DEF vars, AllKept, AbsentHasNoKey, EveryVaultOpens
<1> QED
  BY <1>1, <1>2, <1>3, <1>4, <1>5, <1>6, <1>7, <1>8, <1>9, <1>9p, <1>10, <1>11, <1>12,
     <1>13, <1>14, <1>15, <1>16, <1>17, <1>19, <1>20, <1>21, <1>22, <1>23
  DEF Next, RekeyStep, WriterStep

LEMMA InitKeptAccess == KeptInv => Access!Init
BY DEF KeptInv, RestInv, WholeInv, TypeInv, TypeOK, Envelope, Access!Init

(* Every step of a lone re-key and its writers is one the owner was promised. *)
LEMMA StepKeptAccess ==
  Lone /\ KeptInv /\ KeptInv' /\ [Next]_vars => [Access!Next]_(Access!vars)
<1> SUFFICES ASSUME Lone, KeptInv, KeptInv', [Next]_vars
             PROVE  Access!Next \/ UNCHANGED Access!vars
  OBVIOUS
<1> USE DEF blobs, vaults
<1> DEFINE opens == {v \in Vaults : wrap[v] = stored.key}
<1>k. /\ stored.key \in Keys /\ stored.key # None /\ stored'.key # None
      /\ stored'.password \in Passwords
      /\ wrap \in [Vaults -> KeyOrNone] /\ trashes \in Nat
  BY NoneIsNoKey DEF KeptInv, RestInv, WholeInv, TypeInv, TypeOK, Envelope
<1>quiet. ASSUME UNCHANGED <<stored, wrap, totp>>
          PROVE  UNCHANGED Access!vars
  BY <1>quiet DEF Access!vars
(* The rewrap gives every vault and the second factor the new key at once.   *)
<1>1. ASSUME NEW t \in Rekeyers, CommitRewrap(t)
      PROVE  Access!ChangePassword
  <2>1. /\ \A v \in Vaults :
              wrap'[v] = IF wrap[v] = stored.key THEN stored'.key ELSE None
        /\ totp' = IF totp = stored.key THEN stored'.key ELSE None
    BY <1>1, RewrapKeepsAll
  <2>2. opens' = opens
    BY <2>1, <1>k
  <2>3. (totp = stored.key)' = (totp = stored.key)
    BY <2>1, <1>k
  <2> QED
    BY <1>k, <2>2, <2>3 DEF Access!ChangePassword
<1>2. ASSUME NEW t \in Rekeyers, ReplacePassword(t)
      PROVE  Access!ChangePassword
  <2>1. stored'.key = stored.key
    BY <1>2 DEF KeptInv, RestInv, AllKept, KeepsAll, Rewraps, AtRest, RestsIn, ReplacePassword,
                NewEnvelope
  <2>2. UNCHANGED <<wrap, totp>>
    BY <1>2 DEF ReplacePassword
  <2> QED
    BY <1>k, <2>1, <2>2 DEF Access!ChangePassword
<1>3. ASSUME NEW w \in Writers, NEW v \in Vaults, InsertVault(w, v)
      PROVE  Access!CreateVault(v)
  <2>1. writer[w].key = stored.key
    BY <1>3 DEF InsertVault, KeptInv, AllKept
  <2>2. wrap[v] = None /\ v \notin opens
    BY <1>3, <1>k DEF InsertVault, KeptInv, AllKept, AbsentHasNoKey
  <2>3. wrap' = [wrap EXCEPT ![v] = stored.key] /\ UNCHANGED <<stored, totp>>
    BY <1>3, <2>1 DEF InsertVault
  <2>4. opens' = opens \union {v}
    BY <1>k, <2>3
  <2> QED
    BY <2>2, <2>3, <2>4 DEF Access!CreateVault
<1>4. ASSUME NEW w \in Writers, EnableTotp(w) \/ DisableTotp(w)
      PROVE  Access!SetSecondFactor
  BY <1>4 DEF EnableTotp, DisableTotp, Access!SetSecondFactor
<1>5. CASE \/ \E t \in Rekeyers :
                \/ \E p \in Passwords : BeginLogin(t, p)
                \/ \E current, new \in Passwords : BeginChange(t, current, new)
                \/ ChooseChange(t) \/ OpenSession(t) \/ NeedsMigration(t) \/ Rederive(t)
                \/ ListVaults(t) \/ (\E v \in Vaults : UnwrapVault(t, v))
                \/ ReadTotp(t) \/ ReadPhrase(t)
                \/ Verify(t) \/ CacheEnvelope(t) \/ DeliverKey(t) \/ FailRekey(t)
           \/ \E w \in Writers :
                \/ \E kind \in WriteKinds : BeginWrite(w, kind)
                \/ SealRecoveryKey(w)
           \/ \E v \in Vaults : TrashVault(v) \/ UntrashVault(v)
           \/ Logout \/ Restart \/ UNCHANGED vars
  <2>1. UNCHANGED <<stored, wrap, totp>>
    BY ZenonT(60), <1>5 DEF BeginLogin, BeginChange, ChooseChange, OpenSession, NeedsMigration,
                Rederive, ListVaults, UnwrapVault, ReadTotp, ReadPhrase, Verify, CacheEnvelope,
                DeliverKey, FailRekey, BeginWrite, SealRecoveryKey, TrashVault,
                UntrashVault, Logout, Restart, vars
  <2> QED
    BY <2>1, <1>quiet
<1>6. ASSUME NEW v \in Vaults, RevokeShare(v)
      PROVE  FALSE
  BY <1>6 DEF RevokeShare, Lone, Undisturbed
<1> QED
  BY <1>1, <1>2, <1>3, <1>4, <1>5, <1>6 DEF Next, RekeyStep, WriterStep, Access!Next

(* A login or a password change that runs alone, without storage errors,     *)
(* over the account's own vaults, none of them in the trash, keeps the       *)
(* promise in either format, and wherever the process stops: every vault and *)
(* the second factor pass to the new key in the one transaction that puts    *)
(* the new password in force (rewrap_account,                                *)
(* apply_master_key_rotation_atomically). Drop a condition and it fails: a   *)
(* vault in the trash, a storage error before a migration, a vault created   *)
(* while a legacy account of several is re-keyed stay under the old key.     *)
THEOREM AloneKeepsAccess == Lone => (Spec => AccessKept)
<1> SUFFICES ASSUME Lone PROVE Spec => AccessKept
  OBVIOUS
<1>1. Init => KeptInv
  BY InitKept
<1>2. KeptInv /\ [Next]_vars => KeptInv'
  BY NextKept
<1>3. KeptInv /\ KeptInv' /\ [Next]_vars => [Access!Next]_(Access!vars)
  BY StepKeptAccess
<1> QED
  BY <1>1, <1>2, <1>3, InitKeptAccess, PTL DEF Spec, AccessKept, Access!Spec
(* "Rewraps everything `old_key` protects under `new_key`" (rewrap_account): *)
(* under the same conditions it does. The one the comment overlooks is the   *)
(* trash, whose vaults the list of a re-key leaves out.                      *)
THEOREM RewrapsAllWhenAlone == Lone => (Spec => []RekeyRewrapsEverything)
<1> SUFFICES ASSUME Lone PROVE Spec => []RekeyRewrapsEverything
  OBVIOUS
<1>1. Init => KeptInv
  BY InitKept
<1>2. KeptInv /\ [Next]_vars => KeptInv'
  BY NextKept
<1>3. KeptInv => RekeyRewrapsEverything
  <2> SUFFICES ASSUME KeptInv, NEW t \in Rekeyers, Rewrote(t), NEW v \in Vaults
               PROVE  wrap[v] # rekey[t].old
    BY DEF RekeyRewrapsEverything
  <2>1. stored.key = rekey[t].new
    BY DEF Rewrote, NewEnvelope
  <2>2. rekey[t].old # rekey[t].new
    BY DEF KeptInv, RestInv, WholeInv, KeyIsolated, Rewriting, Rewrote
  <2>3. rekey[t].old # None
    BY NoneIsNoKey DEF KeptInv, RestInv, WholeInv, TypeInv, NewIsKey, Rewrote
  <2>4. wrap[v] \in {None, stored.key}
    BY DEF KeptInv, AllKept, EveryVaultOpens
  <2> QED
    BY <2>1, <2>2, <2>3, <2>4
<1> QED
  BY <1>1, <1>2, <1>3, PTL DEF Spec

-----------------------------------------------------------------------------
(* The key a change delivers. In the legacy format it is the stored one as   *)
(* long as nobody stores another between the commit and the delivery: one    *)
(* thread is enough, whatever fails, is revoked or is in the trash.          *)
OneRekeyer == \A t, u \in Rekeyers : t = u

Delivers(r) ==
  /\ r.stage \in {"verify", "cache"} => stored.key = r.new
  /\ r.stage = "deliver" => r.new = stored.key

DeliveryInv == TypeInv /\ \A t \in Rekeyers : Delivers(rekey[t])

LEMMA InitDelivery == Init => DeliveryInv
<1> SUFFICES ASSUME Init PROVE DeliveryInv
  OBVIOUS
<1>1. \A t \in Rekeyers : rekey[t].stage = "idle"
  BY DEF Init
<1> QED
  BY <1>1, InitType DEF DeliveryInv, Delivers

LEMMA NextDelivery == OneRekeyer /\ DeliveryInv /\ [Next]_vars => DeliveryInv'
<1> SUFFICES ASSUME OneRekeyer, DeliveryInv, [Next]_vars
             PROVE  \A t \in Rekeyers : Delivers(rekey[t])'
  BY NextType DEF DeliveryInv
<1> USE DEF blobs, vaults
<1>ty. /\ rekey \in [Rekeyers -> RekeyState]
       /\ \A t \in Rekeyers : Delivers(rekey[t])
  BY DEF DeliveryInv, TypeInv, TypeOK
<1>i. \A r \in RekeyState : Idle(r).stage = "idle"
  BY DEF Idle, RekeyState
<1>d. \A u \in Rekeyers :
        /\ Detached[u] \in RekeyState
        /\ Detached[u].stage = rekey[u].stage /\ Detached[u].new = rekey[u].new
  BY ZenonT(120), <1>ty DEF Detached, RekeyState
(* A step of the only thread, which stands at the stage it moves to.         *)
<1>one. ASSUME NEW t \in Rekeyers,
               rekey'[t].stage \in {"verify", "cache", "deliver"}
                 => rekey'[t].new = stored'.key
        PROVE  \A u \in Rekeyers : Delivers(rekey[u])'
  BY <1>one DEF OneRekeyer, Delivers
(* Steps of others, or of the thread outside these stages.                   *)
<1>kept. ASSUME stored' = stored,
                \A u \in Rekeyers :
                  \/ rekey'[u].stage \notin {"verify", "cache", "deliver"}
                  \/ rekey'[u].stage = rekey[u].stage /\ rekey'[u].new = rekey[u].new
         PROVE  \A u \in Rekeyers : Delivers(rekey[u])'
  BY <1>kept, <1>ty DEF Delivers
<1>1. ASSUME NEW t \in Rekeyers,
             \/ \E p \in Passwords : BeginLogin(t, p)
             \/ \E current, new \in Passwords : BeginChange(t, current, new)
             \/ ChooseChange(t) \/ NeedsMigration(t) \/ Rederive(t)
             \/ ListVaults(t) \/ ReadTotp(t) \/ ReadPhrase(t)
      PROVE  \A u \in Rekeyers : Delivers(rekey[u])'
  <2>1. stored' = stored
    BY <1>1 DEF BeginLogin, BeginChange, ChooseChange, NeedsMigration, Rederive,
                ListVaults, ReadTotp, ReadPhrase
  <2>2. rekey'[t].stage \in {"derived", "list", "rederive", "unwrap", "phrase",
                            "commit"}
    <3>1. CASE \/ \E p \in Passwords : BeginLogin(t, p)
               \/ \E current, new \in Passwords : BeginChange(t, current, new)
      <4> DEFINE i == Idle(rekey[t])
      <4>1. i \in RekeyState
        BY <1>ty, IdleType
      <4> HIDE DEF i
      <4>2. \E r : /\ r.stage = "derived"
                   /\ rekey' = [rekey EXCEPT ![t] = r]
        <5>1. ASSUME NEW p \in Passwords, BeginLogin(t, p)
              PROVE  rekey' = [rekey EXCEPT ![t] =
                       [i EXCEPT !.stage = "derived", !.mode = "login",
                                 !.password = p, !.old = cached.key]]
          BY <5>1 DEF BeginLogin, i
        <5>2. ASSUME NEW current \in Passwords, NEW new \in Passwords,
                     BeginChange(t, current, new)
              PROVE  rekey' = [rekey EXCEPT ![t] =
                       [i EXCEPT !.stage = "derived", !.mode = "change",
                                 !.password = new, !.old = cached.key, !.attached = TRUE]]
          BY <5>2 DEF BeginChange, i
        <5> QED
          BY <3>1, <4>1, <5>1, <5>2 DEF RekeyState
      <4> QED
        BY <1>ty, <4>2
    <3>2. CASE ChooseChange(t)
      BY <1>ty, <3>2 DEF ChooseChange, RekeyState
    <3>3. CASE NeedsMigration(t) \/ Rederive(t)
      BY <1>ty, <3>3 DEF NeedsMigration, Rederive, RekeyState
    <3>4. CASE ListVaults(t) \/ ReadTotp(t) \/ ReadPhrase(t)
      BY <1>ty, <3>4 DEF ListVaults, ReadTotp, ReadPhrase, RekeyState
    <3> QED
      BY <1>1, <3>1, <3>2, <3>3, <3>4
  <2> QED
    BY <2>2, <1>one
<1>2. ASSUME NEW t \in Rekeyers, NEW v \in Vaults, UnwrapVault(t, v)
      PROVE  \A u \in Rekeyers : Delivers(rekey[u])'
  <2>1. rekey'[t].stage = "unwrap"
    BY <1>2, <1>ty DEF UnwrapVault, RekeyState
  <2> QED
    BY <2>1, <1>one
<1>3. ASSUME NEW t \in Rekeyers, CommitRewrap(t) \/ ReplacePassword(t)
      PROVE  \A u \in Rekeyers : Delivers(rekey[u])'
  <2>1. stored'.key = rekey[t].new
    BY <1>3 DEF CommitRewrap, ReplacePassword, NewEnvelope
  <2>2. rekey'[t].new = rekey[t].new
    BY <1>3, <1>ty DEF CommitRewrap, ReplacePassword, RekeyState
  <2> QED
    BY <2>1, <2>2, <1>one
<1>4. ASSUME NEW t \in Rekeyers, Verify(t) \/ CacheEnvelope(t)
      PROVE  \A u \in Rekeyers : Delivers(rekey[u])'
  <2>1. rekey'[t].new = rekey[t].new /\ stored' = stored
        /\ rekey[t].stage \in {"verify", "cache"}
    BY <1>4, <1>ty DEF Verify, CacheEnvelope, RekeyState
  <2> QED
    BY <2>1, <1>ty, <1>one DEF Delivers
<1>5. ASSUME NEW t \in Rekeyers, OpenSession(t) \/ DeliverKey(t) \/ FailRekey(t)
      PROVE  \A u \in Rekeyers : Delivers(rekey[u])'
  <2>1. \/ rekey' = [Detached EXCEPT ![t] = Idle(Detached[t])]
        \/ rekey' = [rekey EXCEPT ![t] = Idle(rekey[t])]
    BY <1>5 DEF OpenSession, DeliverKey, FailRekey, OpenWindow
  <2>2. Idle(Detached[t]).stage = "idle" /\ Idle(rekey[t]).stage = "idle"
    BY <1>d, <1>i, <1>ty
  <2>3. rekey'[t].stage = "idle"
    BY <2>1, <2>2, <1>ty DEF Detached
  <2> QED
    BY <2>3, <1>one
<1>6. CASE Logout
  <2>1. stored' = stored /\ \A u \in Rekeyers : rekey'[u] = Detached[u]
    BY <1>6 DEF Logout
  <2> QED
    BY <2>1, <1>d, <1>kept
<1>7. CASE Restart
  <2>1. stored' = stored /\ \A u \in Rekeyers : rekey'[u].stage = "idle"
    BY <1>7, <1>i, <1>ty DEF Restart
  <2> QED
    BY <2>1, <1>kept
<1>8. CASE \/ \E w \in Writers :
                \/ \E kind \in WriteKinds : BeginWrite(w, kind)
                \/ WriterStep(w)
           \/ \E v \in Vaults : TrashVault(v) \/ UntrashVault(v) \/ RevokeShare(v)
           \/ UNCHANGED vars
  <2>1. UNCHANGED <<stored, rekey>>
    BY <1>8 DEF BeginWrite, WriterStep, InsertVault, EnableTotp, DisableTotp,
                SealRecoveryKey, TrashVault, UntrashVault, RevokeShare, vars
  <2> QED
    BY <2>1, <1>kept
<1> QED
  BY <1>1, <1>2, <1>3, <1>4, <1>5, <1>6, <1>7, <1>8 DEF Next, RekeyStep

(* "Returns the new master key so the running session can keep opening       *)
(* vaults" (change_master_password): so it does in the account format,       *)
(* whatever runs beside it, and in the legacy format for one change at a     *)
(* time. Two changes of a legacy account are what RekeyTwice.cfg shows.      *)
THEOREM DeliveredKeyIsCurrent ==
  InitialFormat = "account" \/ OneRekeyer => (Spec => []DeliveredKeyOpensVaults)
<1>1. ASSUME InitialFormat = "account"
      PROVE  Spec => []DeliveredKeyOpensVaults
  <2>1. AccountInv => DeliveredKeyOpensVaults
    BY DEF AccountInv, OneKey, HoldsKey, DeliveredKeyOpensVaults
  <2>2. Init => AccountInv
    BY <1>1, InitAccount
  <2> QED
    BY <2>1, <2>2, NextAccount, PTL DEF Spec
<1>2. ASSUME OneRekeyer
      PROVE  Spec => []DeliveredKeyOpensVaults
  <2>1. DeliveryInv => DeliveredKeyOpensVaults
    BY DEF DeliveryInv, Delivers, DeliveredKeyOpensVaults
  <2>2. DeliveryInv /\ [Next]_vars => DeliveryInv'
    BY <1>2, NextDelivery
  <2> QED
    BY <2>1, <2>2, InitDelivery, PTL DEF Spec
<1> QED
  BY <1>1, <1>2

-----------------------------------------------------------------------------
(* Overlapping re-keys of a legacy account that shares its database. None of *)
(* them leaves a vault behind, because each writes every envelope there is:  *)
(* the list names all vaults that have one, none is skipped but those whose  *)
(* share is gone, and the transaction either writes all it opened or         *)
(* nothing. Whoever commits last has all of them under its key.              *)
Overlapping ==
  /\ InitialFormat = "legacy" /\ ~SingleAccount
  /\ Writers = {} /\ MaxTrashed = 0

(* What a thread has gathered of the envelopes in force. That a vault of its *)
(* own has one still is needed at the commit of another: else that commit    *)
(* would bring an envelope this thread has not seen.                         *)
Gathers(r, envelopes) ==
  /\ r.stage # "rederive"
  /\ r.stage \notin {"idle", "derived"} => r.routine = "rekey_legacy"
  /\ r.stage \in {"unwrap", "phrase", "commit"} =>
       \A v \in Vaults : envelopes[v] # None => v \in r.todo \union r.opened
  /\ r.stage \in {"phrase", "commit"} => r.todo = {}
  /\ \A v \in r.opened \ SharedVaults : envelopes[v] # None

Together ==
  /\ stored.format = "legacy" /\ cached.format = "legacy"
  /\ AbsentHasNoKey
  /\ \A v \in Vaults : row[v] # "trashed"
  /\ EveryVaultOpens
  /\ \A t \in Rekeyers : Gathers(rekey[t], wrap)

TogetherInv == TypeInv /\ Together

LEMMA InitTogether == Overlapping /\ Init => TogetherInv
<1> SUFFICES ASSUME Overlapping, Init PROVE Together
  BY InitType DEF TogetherInv
<1>1. \A v \in Vaults : row[v] # "trashed"
  <2> DEFINE T == {v \in Vaults : row[v] = "trashed"}
  <2>1. IsFiniteSet(T)
    BY VaultsFinite, FS_Subset
  <2>2. Cardinality(T) \in Nat /\ Cardinality(T) <= 0
    BY <2>1, FS_CardinalityType DEF Init, Overlapping
  <2>3. T = {}
    BY <2>1, <2>2, FS_EmptySet
  <2> QED
    BY <2>3
<1>2. /\ stored.format = "legacy" /\ cached = stored /\ EveryVaultOpens
      /\ \A t \in Rekeyers : rekey[t].stage = "idle" /\ rekey[t].opened = {}
  BY DEF Init, EveryVaultOpens, Overlapping
<1>3. AbsentHasNoKey
  BY DEF Init, AbsentHasNoKey
<1> QED
  BY <1>1, <1>2, <1>3 DEF Together, Gathers

LEMMA NextTogether == Overlapping /\ TogetherInv /\ [Next]_vars => TogetherInv'
<1> SUFFICES ASSUME Overlapping, TogetherInv, [Next]_vars PROVE Together'
  BY NextType DEF TogetherInv
<1> USE DEF blobs, vaults
<1>ty. /\ TypeInv /\ rekey \in [Rekeyers -> RekeyState] /\ wrap \in [Vaults -> KeyOrNone]
       /\ row \in [Vaults -> {"absent", "live", "trashed"}] /\ trashes \in Nat
       /\ stored \in Envelope /\ cached \in Envelope
  BY DEF TogetherInv, TypeInv, TypeOK
<1>in. Together
  BY DEF TogetherInv
<1>g. \A t \in Rekeyers : Gathers(rekey[t], wrap)
  BY <1>in DEF Together
<1>i. \A r \in RekeyState : Idle(r).stage = "idle" /\ Idle(r).opened = {}
  BY DEF Idle, RekeyState
<1>d. \A u \in Rekeyers : Detached[u] \in RekeyState /\ Gathers(Detached[u], wrap)
  <2> SUFFICES ASSUME NEW u \in Rekeyers
               PROVE  Detached[u] \in RekeyState /\ Gathers(Detached[u], wrap)
    OBVIOUS
  <2>1. /\ Detached[u] \in RekeyState
        /\ Detached[u].stage = rekey[u].stage /\ Detached[u].routine = rekey[u].routine
        /\ Detached[u].todo = rekey[u].todo /\ Detached[u].opened = rekey[u].opened
    BY ZenonT(120), <1>ty DEF Detached, RekeyState
  <2> QED
    BY <2>1, <1>g DEF Gathers
(* Steps that leave the database and the format of the cache alone.          *)
<1>quiet. ASSUME UNCHANGED <<stored, row, wrap>>, cached'.format = "legacy",
                 \A u \in Rekeyers : Gathers(rekey'[u], wrap)
          PROVE  Together'
  BY <1>quiet, <1>in DEF Together, AbsentHasNoKey, EveryVaultOpens
(* A step of one thread that does the same.                                  *)
<1>one. ASSUME NEW t \in Rekeyers, NEW r, rekey' = [rekey EXCEPT ![t] = r],
               Gathers(r, wrap), UNCHANGED <<stored, row, wrap>>,
               cached'.format = "legacy"
        PROVE  Together'
  <2>1. \A u \in Rekeyers : Gathers(rekey'[u], wrap)
    BY <1>one, <1>ty, <1>g
  <2> QED
    BY <1>one, <2>1, <1>quiet
<1>c. cached.format = "legacy" /\ stored.format = "legacy"
  BY <1>in DEF Together
<1>1. ASSUME NEW t \in Rekeyers,
             \/ \E p \in Passwords : BeginLogin(t, p)
             \/ \E current, new \in Passwords : BeginChange(t, current, new)
      PROVE  Together'
  <2> DEFINE i == Idle(rekey[t])
  <2>1. i \in RekeyState /\ i.opened = {}
    BY <1>ty, <1>i, IdleType
  <2> HIDE DEF i
  <2>2. \E r : r.stage = "derived" /\ r.opened = {} /\ rekey' = [rekey EXCEPT ![t] = r]
    <3>1. ASSUME NEW p \in Passwords, BeginLogin(t, p)
          PROVE  rekey' = [rekey EXCEPT ![t] =
                   [i EXCEPT !.stage = "derived", !.mode = "login",
                             !.password = p, !.old = cached.key]]
      BY <3>1 DEF BeginLogin, i
    <3>2. ASSUME NEW current \in Passwords, NEW new \in Passwords,
                 BeginChange(t, current, new)
          PROVE  rekey' = [rekey EXCEPT ![t] =
                   [i EXCEPT !.stage = "derived", !.mode = "change",
                             !.password = new, !.old = cached.key, !.attached = TRUE]]
      BY <3>2 DEF BeginChange, i
    <3> QED
      BY <1>1, <2>1, <3>1, <3>2 DEF RekeyState
  <2>3. UNCHANGED <<stored, cached, row, wrap>>
    BY <1>1 DEF BeginLogin, BeginChange
  <2>4. \A r : r.stage = "derived" /\ r.opened = {} => Gathers(r, wrap)
    BY DEF Gathers
  <2> QED
    BY <2>2, <2>3, <2>4, <1>c, <1>one
<1>2. ASSUME NEW t \in Rekeyers, ChooseChange(t)
      PROVE  Together'
  <2>1. PICK k \in FreshKeys :
          rekey' = [rekey EXCEPT ![t].stage = "list", ![t].routine = "rekey_legacy",
                                 ![t].new = k]
    BY <1>2, <1>c DEF ChooseChange, Overlapping
  <2> DEFINE r == [rekey[t] EXCEPT !.stage = "list", !.routine = "rekey_legacy", !.new = k]
  <2>2. r.stage = "list" /\ r.routine = "rekey_legacy" /\ r.opened = rekey[t].opened
    BY <1>ty DEF RekeyState
  <2>3. rekey' = [rekey EXCEPT ![t] = r]
    BY <2>1
  <2> HIDE DEF r
  <2>4. Gathers(r, wrap)
    BY <2>2, <1>g DEF Gathers
  <2> QED
    BY <1>2, <2>3, <2>4, <1>c, <1>one DEF ChooseChange
(* No migration: the database has other accounts.                            *)
<1>3. ASSUME NEW t \in Rekeyers,
             NeedsMigration(t) \/ Rederive(t) \/ ReplacePassword(t)
      PROVE  FALSE
  BY <1>3, <1>g DEF NeedsMigration, Rederive, ReplacePassword, Overlapping, Gathers
(* All that have an envelope are listed.                                     *)
<1>4. ASSUME NEW t \in Rekeyers, ListVaults(t)
      PROVE  Together'
  <2> DEFINE r == [rekey[t] EXCEPT !.stage = "unwrap", !.todo = Accessible]
  <2>1. rekey' = [rekey EXCEPT ![t] = r]
    BY <1>4 DEF ListVaults
  <2>2. /\ r.stage = "unwrap" /\ r.todo = Accessible
        /\ r.routine = rekey[t].routine /\ r.opened = rekey[t].opened
    BY <1>ty DEF RekeyState
  <2>3. \A v \in Vaults : wrap[v] # None => v \in Accessible
    BY <1>in, <1>ty DEF Together, Accessible, AbsentHasNoKey
  <2> HIDE DEF r
  <2>4. Gathers(r, wrap)
    BY <1>4, <2>2, <2>3, <1>g DEF ListVaults, Gathers
  <2> QED
    BY <1>4, <2>1, <2>4, <1>c, <1>one DEF ListVaults
(* One is opened, or has lost its share.                                     *)
<1>5. ASSUME NEW t \in Rekeyers, NEW v \in Vaults, UnwrapVault(t, v)
      PROVE  Together'
  <2> DEFINE o == IF wrap[v] = None THEN rekey[t].opened ELSE rekey[t].opened \union {v}
             r == [rekey[t] EXCEPT !.todo = @ \ {v}, !.opened = o]
  <2>1. rekey' = [rekey EXCEPT ![t] = r]
    BY <1>5 DEF UnwrapVault
  <2>2. /\ r.stage = "unwrap" /\ r.todo = rekey[t].todo \ {v}
        /\ r.opened = o /\ r.routine = rekey[t].routine
    BY ZenonT(60), <1>5, <1>ty DEF RekeyState, UnwrapVault
  <2> HIDE DEF r
  <2>3. \A u \in Vaults : wrap[u] # None /\ u \in rekey[t].todo \union rekey[t].opened
                            => u \in r.todo \union r.opened
    BY <2>2
  <2>4. \A u \in r.opened : u \in rekey[t].opened \/ wrap[u] # None
    BY <2>2
  <2> HIDE DEF o
  <2>5. Gathers(r, wrap)
    BY <1>5, <2>2, <2>3, <2>4, <1>g DEF UnwrapVault, Gathers
  <2> QED
    BY <1>5, <2>1, <2>5, <1>c, <1>one DEF UnwrapVault
<1>6. ASSUME NEW t \in Rekeyers, ReadTotp(t)
      PROVE  Together'
  <2> DEFINE r == [rekey[t] EXCEPT !.stage = "phrase",
                                   !.totp  = RewrapBlob(totp, rekey[t].old)]
  <2>1. rekey' = [rekey EXCEPT ![t] = r]
    BY <1>6 DEF ReadTotp
  <2>2. /\ r.stage = "phrase" /\ r.todo = rekey[t].todo
        /\ r.routine = rekey[t].routine /\ r.opened = rekey[t].opened
    BY <1>ty DEF RekeyState
  <2> HIDE DEF r
  <2>3. Gathers(r, wrap)
    BY <1>6, <2>2, <1>g DEF ReadTotp, Gathers
  <2> QED
    BY <1>6, <2>1, <2>3, <1>c, <1>one DEF ReadTotp
<1>7. ASSUME NEW t \in Rekeyers, ReadPhrase(t)
      PROVE  Together'
  <2> DEFINE r == [rekey[t] EXCEPT !.stage  = "commit",
                                   !.phrase = PhraseChange(rekey[t]),
                                   !.sealed = SealedChange(rekey[t])]
  <2>1. rekey' = [rekey EXCEPT ![t] = r]
    BY <1>7 DEF ReadPhrase
  <2>2. /\ r.stage = "commit" /\ r.todo = rekey[t].todo
        /\ r.routine = rekey[t].routine /\ r.opened = rekey[t].opened
    BY <1>ty DEF RekeyState
  <2> HIDE DEF r
  <2>3. Gathers(r, wrap)
    BY <1>7, <2>2, <1>g DEF ReadPhrase, Gathers
  <2> QED
    BY <1>7, <2>1, <2>3, <1>c, <1>one DEF ReadPhrase
(* The commit writes all there is, and brings no envelope that was not there. *)
<1>8. ASSUME NEW t \in Rekeyers, CommitRewrap(t)
      PROVE  Together'
  <2> DEFINE r == [rekey[t] EXCEPT !.stage = "verify"]
  <2>1. rekey' = [rekey EXCEPT ![t] = r] /\ UNCHANGED <<cached, row>>
    BY <1>8 DEF CommitRewrap
  <2>2. /\ r.stage = "verify" /\ r.routine = rekey[t].routine
        /\ r.opened = rekey[t].opened
    BY <1>ty DEF RekeyState
  <2> HIDE DEF r
  <2>3. /\ rekey[t].stage = "commit" /\ rekey[t].routine = "rekey_legacy"
        /\ rekey[t].opened \subseteq Vaults /\ rekey[t].new \in Keys
        /\ \A v \in Vaults : wrap[v] # None => v \in rekey[t].opened
        /\ \A v \in rekey[t].opened : wrap[v] # None
    <3>1. rekey[t].stage = "commit" /\ SharesExist(rekey[t])
      BY <1>8 DEF CommitRewrap
    <3>2. rekey[t].opened \subseteq Vaults /\ rekey[t].new \in Keys
      BY <1>ty, <3>1 DEF TypeInv, NewIsKey, RekeyState
    <3> QED
      BY <1>g, <3>1, <3>2 DEF Gathers, SharesExist
  <2>4. /\ stored'.format = "legacy" /\ stored'.key = rekey[t].new
        /\ \A v \in Vaults :
             wrap'[v] = IF v \in rekey[t].opened THEN rekey[t].new ELSE wrap[v]
    BY <1>8, <2>3 DEF CommitRewrap, NewEnvelope
  <2>5. /\ EveryVaultOpens'
        /\ \A v \in Vaults : wrap'[v] # None <=> wrap[v] # None
    BY <2>3, <2>4, NoneIsNoKey DEF EveryVaultOpens
  <2>6. ASSUME NEW u \in Rekeyers
        PROVE  Gathers(rekey'[u], wrap')
    <3>1. Gathers(rekey[u], wrap')
      BY <1>g, <1>ty, <2>5 DEF Gathers, RekeyState
    <3>2. Gathers(r, wrap')
      <4>1. Gathers(rekey[t], wrap')
        BY <1>g, <1>ty, <2>5 DEF Gathers, RekeyState
      <4> QED
        BY <4>1, <2>2, <2>3 DEF Gathers
    <3> QED
      BY <3>1, <3>2, <2>1, <1>ty
  <2> QED
    BY <2>1, <2>4, <2>5, <2>6, <1>in DEF Together, AbsentHasNoKey
<1>9. ASSUME NEW t \in Rekeyers, Verify(t) \/ CacheEnvelope(t)
      PROVE  Together'
  <2>1. PICK s \in {"cache", "deliver"} : rekey' = [rekey EXCEPT ![t].stage = s]
    BY <1>9 DEF Verify, CacheEnvelope
  <2> DEFINE r == [rekey[t] EXCEPT !.stage = s]
  <2>2. r.stage = s /\ r.routine = rekey[t].routine /\ r.opened = rekey[t].opened
    BY <1>ty DEF RekeyState
  <2>3. rekey' = [rekey EXCEPT ![t] = r]
    BY <2>1
  <2> HIDE DEF r
  <2>4. rekey[t].routine = "rekey_legacy"
    BY <1>9, <1>g DEF Verify, CacheEnvelope, Gathers
  <2>5. Gathers(r, wrap)
    BY <2>2, <2>4, <1>g DEF Gathers
  <2>6. UNCHANGED <<stored, row, wrap>> /\ cached'.format = "legacy"
    BY <1>9, <2>4, <1>c DEF Verify, CacheEnvelope, NewEnvelope
  <2> QED
    BY <2>3, <2>5, <2>6, <1>one
<1>10. ASSUME NEW t \in Rekeyers, OpenSession(t) \/ DeliverKey(t) \/ FailRekey(t)
       PROVE  Together'
  <2>1. \/ rekey' = [Detached EXCEPT ![t] = Idle(Detached[t])]
        \/ rekey' = [rekey EXCEPT ![t] = Idle(rekey[t])]
    BY <1>10 DEF OpenSession, DeliverKey, FailRekey, OpenWindow
  <2>2. Gathers(Idle(Detached[t]), wrap) /\ Gathers(Idle(rekey[t]), wrap)
    BY <1>d, <1>i, <1>ty DEF Gathers
  <2>3. \A u \in Rekeyers : Gathers(rekey'[u], wrap)
    BY <2>1, <2>2, <1>d, <1>g, <1>ty DEF Detached
  <2>4. UNCHANGED <<stored, cached, row, wrap>>
    BY <1>10 DEF OpenSession, DeliverKey, FailRekey
  <2> QED
    BY <2>3, <2>4, <1>c, <1>quiet
<1>11. CASE Logout \/ Restart
  <2>1. \A u \in Rekeyers : rekey'[u] = Detached[u] \/ rekey'[u] = Idle(rekey[u])
    BY <1>11 DEF Logout, Restart
  <2>2. \A u \in Rekeyers : Gathers(Idle(rekey[u]), wrap)
    BY <1>i, <1>ty DEF Gathers
  <2>3. UNCHANGED <<stored, row, wrap>> /\ cached'.format = "legacy"
    BY <1>11, <1>c DEF Logout, Restart
  <2> QED
    BY <2>1, <2>2, <2>3, <1>d, <1>quiet
<1>12. ASSUME NEW w \in Writers
       PROVE  FALSE
  BY <1>12 DEF Overlapping
<1>13. ASSUME NEW v \in Vaults, TrashVault(v) \/ UntrashVault(v)
       PROVE  FALSE
  BY <1>13, <1>in, <1>ty DEF TrashVault, UntrashVault, Together, Overlapping
(* A share that is taken back is one envelope less.                          *)
<1>14. ASSUME NEW v \in Vaults, RevokeShare(v)
       PROVE  Together'
  <2>1. /\ v \in SharedVaults /\ UNCHANGED <<stored, cached, row, rekey>>
        /\ \A u \in Vaults : wrap'[u] = IF u = v THEN None ELSE wrap[u]
    BY <1>14, <1>ty DEF RevokeShare
  <2>2. ASSUME NEW t \in Rekeyers
        PROVE  Gathers(rekey[t], wrap')
    BY <2>1, <1>g, <1>ty DEF Gathers, RekeyState
  <2> QED
    BY <2>1, <2>2, <1>in DEF Together, AbsentHasNoKey, EveryVaultOpens
<1>15. CASE UNCHANGED vars
  BY <1>15, <1>g, <1>c, <1>quiet DEF vars
<1> QED
  BY <1>1, <1>2, <1>3, <1>4, <1>5, <1>6, <1>7, <1>8, <1>9, <1>10, <1>11, <1>12,
     <1>13, <1>14, <1>15 DEF Next, RekeyStep

(* However many password changes of a legacy account overlap, and whatever   *)
(* fails, is revoked or stops, no vault is left under a superseded key       *)
(* (unwrap_accessible_vaults, apply_master_key_rotation_atomically). The     *)
(* conditions are needed: a vault in the trash is not listed, a writer may   *)
(* create a vault under the old key, and a migration gives way to            *)
(* replace_password, which rewraps nothing.                                  *)
THEOREM LegacyVaultsStayTogether == Overlapping => (Spec => []EveryVaultOpens)
<1> SUFFICES ASSUME Overlapping PROVE Spec => []EveryVaultOpens
  OBVIOUS
<1>1. Init => TogetherInv
  BY InitTogether
<1>2. TogetherInv /\ [Next]_vars => TogetherInv'
  BY NextTogether
<1>3. TogetherInv => EveryVaultOpens
  BY DEF TogetherInv, Together
<1> QED
  BY <1>1, <1>2, <1>3, PTL DEF Spec
=============================================================================
