---------------------------- MODULE SignInProofs ----------------------------
(* Proofs about SignIn, for any number of screens and threads and any values *)
(* of the policy: the lock, what a sign-in is earned by, the screens that    *)
(* take no input, and the codes that open once.                              *)
EXTENDS SignIn, RateLimit, SequenceTheorems, FiniteSetTheorems, TLAPS

----------------------------------------------------------------------------
(* The policy's arithmetic.                                                  *)

LEMMA PowerType == ASSUME NEW k \in Nat PROVE 2 ^ k \in Nat
<1>1. IsFiniteSet(1..k) /\ Cardinality(1..k) = k
  BY FS_Interval
<1>2. IsFiniteSet(SUBSET (1..k)) /\ Cardinality(SUBSET (1..k)) = 2 ^ k
  BY <1>1, FS_SUBSET
<1> QED
  BY <1>2, FS_CardinalityType

LEMMA BackoffType == ASSUME NEW n \in Nat PROVE Backoff(n) \in 0..BackoffMax
<1>1. CASE n = 0
  BY <1>1, SignInAssumption DEF Backoff
<1>2. CASE n # 0
  <2>1. 2 ^ (n - 1) \in Nat
    BY <1>2, PowerType
  <2> QED
    BY <1>2, <2>1, SignInAssumption DEF Backoff, Least
<1> QED
  BY <1>1, <1>2

LEMMA CapTypes ==
  /\ OldAge \in Nat /\ LockWindow <= OldAge /\ BackoffMax <= OldAge
  /\ FailCap \in Nat /\ MaxFailed <= FailCap
BY SignInAssumption DEF OldAge, FailCap, Most

LEMMA LockType ==
  ASSUME NEW n \in Nat, NEW t \in Waits \union {None}
  PROVE  RemainingLock(n, t) \in Waits
BY BackoffType, CapTypes, SignInAssumption DEF RemainingLock, Waits, Most

\* Time only shortens a lock.
LEMMA LockWanes ==
  ASSUME NEW n \in Nat, NEW t \in Waits, IsLocked(n, Least(t + 1, OldAge))
  PROVE  IsLocked(n, t)
<1> DEFINE u == Least(t + 1, OldAge)
<1>1. u \in Nat /\ t <= u /\ t \in Nat /\ u # None /\ t # None
  BY CapTypes, SignInAssumption DEF Least, Waits
<1>2. Backoff(n) \in Nat
  BY BackoffType
<1> HIDE DEF u
<1>3. RemainingLock(n, u) > 0 /\ n >= MaxFailed
  BY DEF IsLocked, u
<1>4. (n >= MaxFailed /\ u < LockWindow) \/ Backoff(n) > u
  BY <1>1, <1>2, <1>3, SignInAssumption DEF RemainingLock, Most
<1>5. RemainingLock(n, t) > 0
  BY <1>1, <1>2, <1>4, SignInAssumption DEF RemainingLock, Most
<1> QED
  BY <1>3, <1>5 DEF IsLocked

\* A failure just recorded locks from the last permitted one on.
LEMMA FailureLocks ==
  ASSUME NEW n \in Nat, n >= MaxFailed
  PROVE  IsLocked(n, 0)
BY BackoffType, SignInAssumption DEF IsLocked, RemainingLock, Most

----------------------------------------------------------------------------
(* Types.                                                                    *)

Forms == {"identity", "credentials", "totp"}
AttemptType == [stage: Stages, dialog: Dialogs \union {None}, form: Forms,
                right: BOOLEAN, code: InTime \union {Wrong}, accepted: BOOLEAN,
                off: BOOLEAN, result: [kind: Kinds, wait: Waits]]
DialogType == [open: BOOLEAN, lockActive: BOOLEAN, countdown: Waits,
               page: {"identity", "oath", "pending", "credentials", "totp"}]

RowType ==
  /\ account \in 0..Whole /\ totp \in BOOLEAN
  /\ failed \in 0..FailCap /\ age \in Waits \union {None}
ProcessType ==
  up \in BOOLEAN /\ loaded \in BOOLEAN /\ session \in BOOLEAN /\ needsBootstrap \in BOOLEAN
ScreenType ==
  dialog \in [Dialogs -> DialogType] /\ attempt \in [Attempts -> AttemptType]
CodeType ==
  guard \subseteq [code: InTime, left: 1..ReplayTtl] /\ spent \subseteq InTime

Types == RowType /\ ProcessType /\ ScreenType /\ CodeType /\ overrun \in Nat

LEMMA TypesAreTypeOK == Types => TypeOK
BY DEF Types, RowType, ProcessType, ScreenType, CodeType, TypeOK, AttemptType, DialogType, Forms

LEMMA ConstantTypes ==
  /\ 0 \in Waits /\ Closed \in DialogType
  /\ \A page \in {"identity", "credentials"} : Fresh(page) \in DialogType
  /\ Idle \in AttemptType
  /\ Wrong \in Nat /\ Wrong \notin InTime
<1>1. 0 \in Waits
  BY CapTypes DEF Waits
<1>2. \A page \in {"identity", "credentials"} : Fresh(page) \in DialogType
  BY <1>1 DEF Fresh, DialogType
<1>3. Closed \in DialogType
  BY <1>1 DEF Closed, Fresh, DialogType
<1>4. Wrong \in Nat /\ Wrong \notin InTime
  BY SignInAssumption DEF Wrong, InTime
<1>5. Outcome("none", 0) \in [kind: Kinds, wait: Waits]
  BY <1>1 DEF Outcome, Kinds
<1>6. Idle \in AttemptType
  BY <1>5 DEF Idle, AttemptType, Stages, Forms
<1> QED
  BY <1>1, <1>2, <1>3, <1>4, <1>6

LEMMA AgedType ==
  ASSUME NEW c \in InTime \union {Wrong}
  PROVE  Aged(c) \in InTime \union {Wrong}
BY DEF Aged

LEMMA ForgetType ==
  ASSUME Types, NEW a \in Attempts, NEW stage \in Stages
  PROVE  /\ Forget(a, stage) \in AttemptType
         /\ Forget(a, stage).stage = stage
         /\ Forget(a, stage).dialog = attempt[a].dialog
         /\ Forget(a, stage).form = attempt[a].form
         /\ Forget(a, stage).result.kind = "none"
BY ConstantTypes DEF Types, ScreenType, Forget, Idle, AttemptType, Outcome

\* A thread that answers drops everything but its answer.
LEMMA AnswerType ==
  ASSUME Types, NEW a \in Attempts, NEW kind \in Kinds, NEW wait \in Waits,
         Answer(a, kind, wait)
  PROVE  \E y \in AttemptType :
           /\ attempt' = [attempt EXCEPT ![a] = y]
           /\ y.stage = "answer"
           /\ y.dialog = attempt[a].dialog /\ y.form = attempt[a].form
           /\ y.result.kind = kind /\ y.result.wait = wait
<1> DEFINE f == Forget(a, "answer")
           y == [f EXCEPT !.result = Outcome(kind, wait)]
<1>1. f \in AttemptType /\ f.stage = "answer" /\ f.dialog = attempt[a].dialog
      /\ f.form = attempt[a].form
  BY ForgetType DEF Stages
<1>2. Outcome(kind, wait) \in [kind: Kinds, wait: Waits]
      /\ Outcome(kind, wait).kind = kind /\ Outcome(kind, wait).wait = wait
  BY DEF Outcome
<1> HIDE DEF f
<1>3. y \in AttemptType /\ y.stage = "answer" /\ y.dialog = attempt[a].dialog
      /\ y.form = attempt[a].form /\ y.result = Outcome(kind, wait)
  BY <1>1, <1>2 DEF AttemptType
<1>4. attempt' = [attempt EXCEPT ![a] = y]
  BY DEF Answer, f
<1> QED
  BY <1>2, <1>3, <1>4

\* A check that succeeds goes on; one that fails is to be recorded.
LEMMA GoOnType ==
  ASSUME Types, NEW a \in Attempts, NEW ok \in BOOLEAN, NEW next \in Stages,
         GoOn(a, ok, next)
  PROVE  \E y \in AttemptType :
           /\ attempt' = [attempt EXCEPT ![a] = y]
           /\ y.stage = IF ok THEN next ELSE "record"
           /\ y.dialog = attempt[a].dialog /\ y.form = attempt[a].form
           /\ ok => y = [attempt[a] EXCEPT !.stage = next]
           /\ ~ok => y.result.kind = "none"
<1>1. CASE ok
  <2> DEFINE y == [attempt[a] EXCEPT !.stage = next]
  <2>1. y \in AttemptType /\ y.stage = next /\ y.dialog = attempt[a].dialog
        /\ y.form = attempt[a].form
    BY DEF Types, ScreenType, AttemptType
  <2>2. attempt' = [attempt EXCEPT ![a] = y]
    BY <1>1 DEF GoOn
  <2> QED
    BY <1>1, <2>1, <2>2
<1>2. CASE ~ok
  <2>1. attempt' = [attempt EXCEPT ![a] = Forget(a, "record")]
    BY <1>2 DEF GoOn
  <2> QED
    BY <1>2, <2>1, ForgetType DEF Stages
<1> QED
  BY <1>1, <1>2

----------------------------------------------------------------------------
(* The invariant.                                                            *)

BootStages == {"guard", "memory", "insert"}
LoginStages == {"check", "verify", "second", "secret", "code", "derive", "record", "wait",
                "reset"}
\* Stages of a thread whose failure is recorded without looking at the lock again.
Past == {"verify", "second", "secret", "code", "derive", "record"}

Earned(x) == x.accepted \/ x.off

\* What a thread has shown so far. Until the code is asked for, a second factor
\* that is off was off during the attempt.
Earning(x, enabled) ==
  /\ x.stage \in {"check", "verify", "second", "secret", "code"} /\ ~enabled => x.off
  /\ x.stage = "derive" => Earned(x)
  /\ x.stage = "reset" => x.right /\ Earned(x)
  /\ x.result.kind = "success" => x.right /\ Earned(x) /\ x.stage # "idle"

\* Which form a thread works for.
Serving(x) ==
  /\ x.stage \in BootStages => x.form = "identity"
  /\ x.stage \in LoginStages => x.form # "identity"
  /\ x.result.kind = "created" => x.form = "identity"

AllEarning == \A a \in Attempts: Earning(attempt[a], totp) /\ Serving(attempt[a])

Working(a) == attempt[a].stage # "idle"
Founds(a) == Working(a) /\ attempt[a].form = "identity"
First(d) == dialog[d].page \in {"identity", "oath", "pending"}

\* One screen at most creates the account, for one thread at most, and nothing
\* else works for that screen.
Boot ==
  /\ session => ~needsBootstrap
  /\ ~up => ~session /\ \A a \in Attempts: ~Working(a)
  /\ ~up => \A d \in Dialogs: dialog[d] = Closed
  /\ \A d \in Dialogs: ~dialog[d].open => dialog[d] = Closed
  /\ \A a \in Attempts: Working(a) => attempt[a].dialog \in Dialogs
  /\ \A a \in Attempts: Founds(a) => dialog[attempt[a].dialog].page = "pending"
  /\ \A a \in Attempts: Working(a) /\ ~Founds(a) => ~First(attempt[a].dialog)
  /\ \A d, e \in Dialogs: First(d) /\ First(e) => d = e
  /\ \A a, b \in Attempts: Founds(a) /\ Founds(b) => a = b
  /\ \A a \in Attempts: attempt[a].stage \in {"memory", "insert"} => account < Whole

\* A code that was accepted is remembered for as long as it stays in time.
Remembered ==
  \A c \in spent: \E g \in guard: g.code = c /\ g.left >= c + Skew + 1

\* Failures past the lock come from threads that were past its check.
PastCheck == {a \in Attempts: attempt[a].stage \in Past}
LockInv ==
  /\ ~IsLocked(failed, age) => overrun = 0
  /\ IsLocked(failed, age) => overrun + Cardinality(PastCheck) < Cardinality(Attempts)

Inv == Types /\ AllEarning /\ Boot /\ ScreenHeld /\ Remembered /\ LockInv

----------------------------------------------------------------------------
(* A step of a thread keeps its screen and its form.                         *)

Stepped(a, y) ==
  /\ attempt' = [attempt EXCEPT ![a] = y]
  /\ attempt[a].stage # "idle" /\ y.stage # "idle"
  /\ y.dialog = attempt[a].dialog /\ y.form = attempt[a].form
  /\ Earning(y, totp) /\ Serving(y)
  /\ y.stage \in Past => attempt[a].stage \in Past \/ ~IsLocked(failed, age)
  /\ y.stage \in {"memory", "insert"} => account' < Whole

LEMMA AttemptFacts ==
  ASSUME Inv, NEW a \in Attempts
  PROVE  attempt[a] \in AttemptType /\ Earning(attempt[a], totp) /\ Serving(attempt[a])
BY DEF Inv, Types, ScreenType, AllEarning

\* An answer that is neither a success nor an account promises nothing.
LEMMA PlainAnswer ==
  ASSUME Inv, NEW a \in Attempts, attempt[a].stage # "idle",
         NEW kind \in Kinds \ {"success", "created"}, NEW wait \in Waits, Answer(a, kind, wait)
  PROVE  \E y \in AttemptType : Stepped(a, y) /\ y.stage = "answer"
<1>1. PICK y \in AttemptType :
        /\ attempt' = [attempt EXCEPT ![a] = y]
        /\ y.stage = "answer"
        /\ y.dialog = attempt[a].dialog /\ y.form = attempt[a].form
        /\ y.result.kind = kind /\ y.result.wait = wait
  BY AnswerType DEF Inv
<1> QED
  BY <1>1 DEF Stepped, Earning, Serving, Past, BootStages, LoginStages

LEMMA PlainGoOn ==
  ASSUME Inv, NEW a \in Attempts, attempt[a].stage \in Past,
         NEW ok \in BOOLEAN, NEW next \in {"second", "code", "derive", "reset"},
         GoOn(a, ok, next),
         ok => Earning([attempt[a] EXCEPT !.stage = next], totp)
  PROVE  \E y \in AttemptType : Stepped(a, y)
<1>1. PICK y \in AttemptType :
        /\ attempt' = [attempt EXCEPT ![a] = y]
        /\ y.stage = IF ok THEN next ELSE "record"
        /\ y.dialog = attempt[a].dialog /\ y.form = attempt[a].form
        /\ ok => y = [attempt[a] EXCEPT !.stage = next]
        /\ ~ok => y.result.kind = "none"
  BY GoOnType DEF Inv, Stages
<1>2. attempt[a].form # "identity"
  BY AttemptFacts DEF Serving, Past, LoginStages
<1>3. Earning(y, totp)
  BY <1>1 DEF Earning
<1>4. Serving(y)
  BY <1>1, <1>2, AttemptFacts DEF Serving, BootStages, LoginStages, AttemptType
<1> QED
  BY <1>1, <1>3, <1>4 DEF Stepped, Past

\* A stage entered with everything else kept.
LEMMA StageOnly ==
  ASSUME Inv, NEW a \in Attempts, NEW stage \in Stages \ {"idle"},
         attempt[a].stage # "idle",
         attempt' = [attempt EXCEPT ![a] = [attempt[a] EXCEPT !.stage = stage]],
         Earning([attempt[a] EXCEPT !.stage = stage], totp),
         stage \in BootStages => attempt[a].form = "identity",
         stage \in LoginStages => attempt[a].form # "identity",
         stage \in Past => attempt[a].stage \in Past \/ ~IsLocked(failed, age),
         stage \in {"memory", "insert"} => account' < Whole
  PROVE  \E y \in AttemptType : Stepped(a, y)
<1> DEFINE y == [attempt[a] EXCEPT !.stage = stage]
<1>1. y \in AttemptType /\ y.stage = stage /\ y.dialog = attempt[a].dialog
      /\ y.form = attempt[a].form /\ y.result = attempt[a].result
  BY AttemptFacts DEF AttemptType
<1>2. Serving(y)
  BY <1>1, AttemptFacts DEF Serving
<1> QED
  BY <1>1, <1>2 DEF Stepped

LEMMA BootThread ==
  ASSUME Inv, NEW a \in Attempts, CheckEmpty(a) \/ LoadEnvelope(a) \/ CreateNext(a)
  PROVE  (\E y \in AttemptType : Stepped(a, y)) /\ account' \in 0..Whole
<1> DEFINE t == attempt[a]
<1>1. t \in AttemptType /\ Earning(t, totp) /\ Serving(t)
  BY AttemptFacts
<1>2. account \in 0..Whole
  BY DEF Inv, Types, RowType
<1>3. CASE CheckEmpty(a)
  <2>1. t.stage = "guard" /\ t.form = "identity" /\ account' = account
    BY <1>1, <1>3 DEF CheckEmpty, Serving, BootStages
  <2>2. CASE HasRow
    <3>1. Answer(a, "conflict", 0)
      BY <1>3, <2>2 DEF CheckEmpty
    <3> QED
      BY <1>2, <2>1, <3>1, PlainAnswer, ConstantTypes DEF Kinds
  <2>3. CASE ~HasRow
    <3>1. attempt' = [attempt EXCEPT ![a] = [t EXCEPT !.stage = "memory"]]
      BY <1>3, <2>3 DEF CheckEmpty
    <3>2. account' < Whole
      BY <1>2, <2>1, <2>3 DEF HasRow, Whole
    <3>3. Earning([t EXCEPT !.stage = "memory"], totp)
      BY <1>1 DEF Earning, Earned, AttemptType
    <3> QED
      BY <1>2, <2>1, <3>1, <3>2, <3>3, StageOnly DEF Stages, LoginStages, Past
  <2> QED
    BY <2>2, <2>3
<1>4. CASE LoadEnvelope(a)
  <2>1. t.stage = "memory" /\ t.form = "identity" /\ account' = account
        /\ attempt' = [attempt EXCEPT ![a] = [t EXCEPT !.stage = "insert"]]
    BY <1>1, <1>4 DEF LoadEnvelope, Serving, BootStages
  <2>2. account < Whole
    BY <2>1 DEF Inv, Boot
  <2>3. Earning([t EXCEPT !.stage = "insert"], totp)
    BY <1>1 DEF Earning, Earned, AttemptType
  <2> QED
    BY <1>2, <2>1, <2>2, <2>3, StageOnly DEF Stages, LoginStages, Past
<1>5. CASE CreateNext(a)
  <2>1. t.stage = "insert" /\ t.form = "identity" /\ account' = account + 1
    BY <1>1, <1>5 DEF CreateNext, Serving, BootStages
  <2>2. account < Whole
    BY <2>1 DEF Inv, Boot
  <2>3. account' \in 0..Whole
    BY <1>2, <2>1, <2>2 DEF Whole
  <2>4. CASE account' = Whole
    <3>1. Answer(a, "created", 0)
      BY <1>5, <2>4 DEF CreateNext
    <3>2. PICK y \in AttemptType :
            /\ attempt' = [attempt EXCEPT ![a] = y]
            /\ y.stage = "answer"
            /\ y.dialog = t.dialog /\ y.form = t.form
            /\ y.result.kind = "created" /\ y.result.wait = 0
      BY <3>1, AnswerType, ConstantTypes DEF Kinds, Inv
    <3>3. Stepped(a, y)
      BY <2>1, <3>2 DEF Stepped, Earning, Serving, BootStages, LoginStages, Past
    <3> QED
      BY <2>3, <3>3
  <2>5. CASE account' # Whole
    <3>1. attempt' = attempt
      BY <1>5, <2>5 DEF CreateNext
    <3>2. attempt' = [attempt EXCEPT ![a] = t]
      BY <3>1 DEF Inv, Types, ScreenType
    <3>3. Stepped(a, t)
      BY <1>1, <2>1, <2>3, <2>5, <3>2 DEF Stepped, Past, Whole
    <3> QED
      BY <1>1, <2>3, <3>3
  <2> QED
    BY <2>4, <2>5
<1> QED
  BY <1>3, <1>4, <1>5

LEMMA AskingThread ==
  ASSUME Inv, NEW a \in Attempts,
         \/ NobodyThere(a) \/ CheckLock(a) \/ VerifyPassword(a) \/ AskCode(a)
         \/ ReadSecret(a) \/ ReadWait(a) \/ Fails(a)
  PROVE  \E y \in AttemptType : Stepped(a, y)
<1> DEFINE t == attempt[a]
<1>1. t \in AttemptType /\ Earning(t, totp) /\ Serving(t)
  BY AttemptFacts
<1>2. RemainingLock(failed, age) \in Waits
  <2>1. failed \in Nat /\ age \in Waits \union {None}
    BY CapTypes DEF Inv, Types, RowType
  <2> QED
    BY <2>1, LockType
<1>3. CASE NobodyThere(a)
  BY <1>3, PlainAnswer, ConstantTypes DEF NobodyThere, Kinds
<1>4. CASE CheckLock(a)
  <2>1. t.stage = "check"
    BY <1>4 DEF CheckLock
  <2>2. CASE IsLocked(failed, age)
    <3>1. Answer(a, "locked", RemainingLock(failed, age))
      BY <1>4, <2>2 DEF CheckLock
    <3> QED
      BY <1>2, <2>1, <3>1, PlainAnswer DEF Kinds
  <2>3. CASE ~IsLocked(failed, age)
    <3>1. PICK stage \in {"verify", "secret"} :
            attempt' = [attempt EXCEPT ![a] = [t EXCEPT !.stage = stage]]
      BY <1>4, <2>3 DEF CheckLock
    <3>2. Earning([t EXCEPT !.stage = stage], totp)
      BY <1>1, <2>1 DEF Earning, Earned, AttemptType
    <3>3. t.form # "identity"
      BY <1>1, <2>1 DEF Serving, LoginStages
    <3> QED
      BY <2>1, <2>3, <3>1, <3>2, <3>3, StageOnly DEF Stages, BootStages
  <2> QED
    BY <2>2, <2>3
<1>5. CASE VerifyPassword(a)
  <2>1. t.stage = "verify"
    BY <1>5 DEF VerifyPassword
  <2>2. CASE ~loaded
    <3>1. Answer(a, "error", 0)
      BY <1>5, <2>2 DEF VerifyPassword
    <3> QED
      BY <2>1, <3>1, PlainAnswer, ConstantTypes DEF Kinds
  <2>3. CASE loaded
    <3>1. GoOn(a, t.right, "second")
      BY <1>5, <2>3 DEF VerifyPassword
    <3>2. Earning([t EXCEPT !.stage = "second"], totp) /\ t.right \in BOOLEAN
      BY <1>1, <2>1 DEF Earning, Earned, AttemptType
    <3> QED
      BY <2>1, <3>1, <3>2, PlainGoOn DEF Past
  <2> QED
    BY <2>2, <2>3
<1>6. CASE AskCode(a)
  <2>1. t.stage = "second"
    BY <1>6 DEF AskCode
  <2>2. CASE totp
    <3>1. Answer(a, "code", 0)
      BY <1>6, <2>2 DEF AskCode
    <3> QED
      BY <2>1, <3>1, PlainAnswer, ConstantTypes DEF Kinds
  <2>3. CASE ~totp
    <3>1. attempt' = [attempt EXCEPT ![a] = [t EXCEPT !.stage = "derive"]]
      BY <1>6, <2>3 DEF AskCode
    <3>2. Earning([t EXCEPT !.stage = "derive"], totp)
      BY <1>1, <2>1, <2>3 DEF Earning, Earned, AttemptType
    <3>3. t.form # "identity"
      BY <1>1, <2>1 DEF Serving, LoginStages
    <3> QED
      BY <2>1, <3>1, <3>2, <3>3, StageOnly DEF Stages, BootStages, Past
  <2> QED
    BY <2>2, <2>3
<1>7. CASE ReadSecret(a)
  <2>1. t.stage = "secret"
    BY <1>7 DEF ReadSecret
  <2>2. CASE totp
    <3>1. GoOn(a, t.right, "code") /\ t.right \in BOOLEAN
      BY <1>1, <1>7, <2>2 DEF ReadSecret, AttemptType
    <3>2. Earning([t EXCEPT !.stage = "code"], totp)
      BY <1>1, <2>1 DEF Earning, Earned, AttemptType
    <3> QED
      BY <2>1, <3>1, <3>2, PlainGoOn DEF Past
  <2>3. CASE ~totp
    <3>1. GoOn(a, TRUE, "derive")
      BY <1>7, <2>3 DEF ReadSecret
    <3>2. Earning([t EXCEPT !.stage = "derive"], totp)
      BY <1>1, <2>1, <2>3 DEF Earning, Earned, AttemptType
    <3> QED
      BY <2>1, <3>1, <3>2, PlainGoOn DEF Past
  <2> QED
    BY <2>2, <2>3
<1>8. CASE ReadWait(a)
  BY <1>2, <1>8, PlainAnswer DEF ReadWait, Kinds
<1>9. CASE Fails(a)
  BY <1>9, PlainAnswer, ConstantTypes DEF Fails, Kinds
<1> QED
  BY <1>3, <1>4, <1>5, <1>6, <1>7, <1>8, <1>9

LEMMA ClosingThread ==
  ASSUME Inv, NEW a \in Attempts,
         CheckCode(a) \/ DeriveKey(a) \/ RecordFailure(a) \/ ResetFailures(a)
  PROVE  \E y \in AttemptType : Stepped(a, y)
<1> DEFINE t == attempt[a]
<1>1. t \in AttemptType /\ Earning(t, totp) /\ Serving(t)
  BY AttemptFacts
<1>2. CASE CheckCode(a)
  <2>1. t.stage = "code" /\ t.form # "identity"
    BY <1>1, <1>2 DEF CheckCode, Serving, LoginStages
  <2>2. CASE Accepts(a)
    <3> DEFINE y == [t EXCEPT !.stage = "derive", !.accepted = TRUE]
    <3>1. attempt' = [attempt EXCEPT ![a] = y]
      BY <1>2, <2>2 DEF CheckCode
    <3>2. y \in AttemptType /\ y.stage = "derive" /\ y.accepted /\ y.dialog = t.dialog
          /\ y.form = t.form /\ y.result = t.result /\ y.right = t.right
      BY <1>1 DEF AttemptType, Stages
    <3>3. Earning(y, totp) /\ Serving(y)
      BY <1>1, <2>1, <3>2 DEF Earning, Earned, Serving, BootStages, LoginStages
    <3> QED
      BY <2>1, <3>1, <3>2, <3>3 DEF Stepped, Past
  <2>3. CASE ~Accepts(a)
    <3>1. GoOn(a, FALSE, "derive")
      BY <1>2, <2>3 DEF CheckCode
    <3> QED
      BY <2>1, <3>1, PlainGoOn DEF Past
  <2> QED
    BY <2>2, <2>3
<1>3. CASE DeriveKey(a)
  <2>1. t.stage = "derive" /\ t.right \in BOOLEAN /\ GoOn(a, t.right, "reset")
    BY <1>1, <1>3 DEF DeriveKey, AttemptType
  <2>2. t.right => Earning([t EXCEPT !.stage = "reset"], totp)
    BY <1>1, <2>1 DEF Earning, Earned, AttemptType
  <2> QED
    BY <2>1, <2>2, PlainGoOn DEF Past
<1>4. CASE RecordFailure(a)
  <2>1. t.stage = "record" /\ attempt' = [attempt EXCEPT ![a] = [t EXCEPT !.stage = "wait"]]
    BY <1>4 DEF RecordFailure
  <2>2. Earning([t EXCEPT !.stage = "wait"], totp)
    BY <1>1 DEF Earning, Earned, AttemptType
  <2>3. t.form # "identity"
    BY <1>1, <2>1 DEF Serving, LoginStages
  <2> QED
    BY <2>1, <2>2, <2>3, StageOnly DEF Stages, BootStages, Past
<1>5. CASE ResetFailures(a)
  <2> DEFINE y == [t EXCEPT !.stage = "answer", !.result = Outcome("success", 0)]
  <2>1. t.stage = "reset" /\ attempt' = [attempt EXCEPT ![a] = y]
    BY <1>5 DEF ResetFailures
  <2>2. Outcome("success", 0) \in [kind: Kinds, wait: Waits] /\ Outcome("success", 0).kind = "success"
    BY ConstantTypes DEF Outcome, Kinds
  <2>3. y \in AttemptType /\ y.stage = "answer" /\ y.dialog = t.dialog /\ y.form = t.form
        /\ y.right = t.right /\ y.accepted = t.accepted /\ y.off = t.off
        /\ y.result.kind = "success"
    BY <1>1, <2>2 DEF AttemptType, Stages
  <2>4. Earning(y, totp) /\ Serving(y)
    BY <1>1, <2>1, <2>3 DEF Earning, Earned, Serving, BootStages, LoginStages
  <2> QED
    BY <2>1, <2>3, <2>4 DEF Stepped, Past
<1> QED
  BY <1>2, <1>3, <1>4, <1>5

LEMMA SteppedKeeps ==
  ASSUME Inv, NEW a \in Attempts, NEW y \in AttemptType, Stepped(a, y),
         UNCHANGED <<up, session, needsBootstrap, dialog, totp>>,
         account' = account \/ attempt[a].stage = "insert"
  PROVE  AllEarning' /\ Boot' /\ ScreenHeld' /\ ScreenType'
<1>1. \A b \in Attempts: attempt'[b] = IF b = a THEN y ELSE attempt[b]
  BY DEF Inv, Types, ScreenType, Stepped
<1>2. ScreenType'
  BY DEF Inv, Types, ScreenType, Stepped
<1>3. AllEarning'
  BY <1>1 DEF Inv, AllEarning, Stepped
<1>4. \A b \in Attempts: /\ attempt'[b].dialog = attempt[b].dialog
                         /\ attempt'[b].form = attempt[b].form
                         /\ (attempt'[b].stage # "idle") = (attempt[b].stage # "idle")
  BY <1>1 DEF Stepped
<1>5. ScreenHeld'
  <2>1. \A b \in Attempts, d \in Dialogs, form \in Forms: Holds(b, d, form) => Holds(b, d, form)'
    BY <1>4 DEF Holds
  <2> QED
    BY <2>1 DEF Inv, ScreenHeld, Forms
<1>6. ASSUME NEW b \in Attempts, attempt'[b].stage \in {"memory", "insert"}
      PROVE  account' < Whole
  <2>1. CASE b = a
    BY <1>1, <1>6, <2>1 DEF Stepped
  <2>2. CASE b # a
    <3>1. attempt[b].stage \in {"memory", "insert"} /\ account < Whole
      BY <1>1, <1>6, <2>2 DEF Inv, Boot
    <3>2. attempt[a].stage # "insert"
      BY <2>2, <3>1 DEF Inv, AllEarning, Serving, BootStages, Boot, Founds, Working
    <3> QED
      BY <3>1, <3>2
  <2> QED
    BY <2>1, <2>2
<1>7. \A b \in Attempts: Working(b)' = Working(b) /\ Founds(b)' = Founds(b)
  BY <1>4 DEF Working, Founds
<1>8. \A d \in Dialogs: First(d)' = First(d)
  BY DEF First
<1>9. Boot'
  BY <1>4, <1>6, <1>7, <1>8 DEF Inv, Boot
<1> QED
  BY <1>2, <1>3, <1>5, <1>9

\* The account is locked, or not, by the same failures: those past the check
\* are no more than before.
LEMMA PastShrinks ==
  ASSUME Inv, UNCHANGED <<failed, age, overrun>>,
         IsLocked(failed, age) => PastCheck' \subseteq PastCheck
  PROVE  LockInv'
<1>1. CASE ~IsLocked(failed, age)
  BY <1>1 DEF Inv, LockInv
<1>2. CASE IsLocked(failed, age)
  <2>1. IsFiniteSet(PastCheck) /\ PastCheck' \subseteq PastCheck
    BY <1>2, SignInAssumption, FS_Subset DEF PastCheck
  <2>2. Cardinality(PastCheck') <= Cardinality(PastCheck) /\ Cardinality(PastCheck') \in Nat
        /\ Cardinality(PastCheck) \in Nat
    BY <2>1, FS_Subset, FS_CardinalityType
  <2>3. Cardinality(Attempts) \in Nat /\ overrun \in Nat
    BY SignInAssumption, FS_CardinalityType DEF Inv, Types
  <2> QED
    BY <1>2, <2>2, <2>3 DEF Inv, LockInv
<1> QED
  BY <1>1, <1>2

LEMMA SteppedPast ==
  ASSUME Inv, NEW a \in Attempts, NEW y \in AttemptType, Stepped(a, y),
         UNCHANGED <<failed, age, overrun>>
  PROVE  LockInv'
<1>1. \A b \in Attempts: attempt'[b] = IF b = a THEN y ELSE attempt[b]
  BY DEF Inv, Types, ScreenType, Stepped
<1>2. IsLocked(failed, age) => PastCheck' \subseteq PastCheck
  BY <1>1 DEF PastCheck, Stepped
<1> QED
  BY <1>2, PastShrinks

LEMMA QuietThreads ==
  ASSUME Inv, NEW a \in Attempts,
         \/ CheckEmpty(a) \/ LoadEnvelope(a) \/ CreateNext(a)
         \/ NobodyThere(a) \/ CheckLock(a) \/ VerifyPassword(a) \/ AskCode(a)
         \/ ReadSecret(a) \/ DeriveKey(a) \/ ReadWait(a) \/ Fails(a)
  PROVE  Inv'
<1>1. \E y \in AttemptType : Stepped(a, y)
  BY BootThread, AskingThread, ClosingThread
<1>2. UNCHANGED <<up, session, needsBootstrap, dialog, totp, failed, age, overrun, guard, spent>>
  BY DEF CheckEmpty, LoadEnvelope, CreateNext, NobodyThere, CheckLock, VerifyPassword, AskCode,
         ReadSecret, DeriveKey, ReadWait, Fails, BootVars, AttemptVars, rows, process, codes
<1>3. account' = account \/ attempt[a].stage = "insert"
  BY DEF CheckEmpty, LoadEnvelope, CreateNext, NobodyThere, CheckLock, VerifyPassword, AskCode,
         ReadSecret, DeriveKey, ReadWait, Fails, BootVars, AttemptVars, rows
<1>4. account' \in 0..Whole
  <2>1. account \in 0..Whole
    BY DEF Inv, Types, RowType
  <2> QED
    BY <2>1, BootThread
    DEF NobodyThere, CheckLock, VerifyPassword, AskCode, ReadSecret, DeriveKey, ReadWait, Fails,
        AttemptVars, rows
<1>5. loaded' \in BOOLEAN
  BY DEF CheckEmpty, LoadEnvelope, CreateNext, NobodyThere, CheckLock, VerifyPassword, AskCode,
         ReadSecret, DeriveKey, ReadWait, Fails, BootVars, AttemptVars, process, Inv, Types,
         ProcessType
<1>6. Types' /\ AllEarning' /\ Boot' /\ ScreenHeld'
  <2>1. AllEarning' /\ Boot' /\ ScreenHeld' /\ ScreenType'
    BY <1>1, <1>2, <1>3, SteppedKeeps
  <2> QED
    BY <1>2, <1>4, <1>5, <2>1 DEF Inv, Types, RowType, ProcessType, CodeType
<1>7. LockInv'
  BY <1>1, <1>2, SteppedPast
<1>8. Remembered'
  BY <1>2 DEF Inv, Remembered
<1> QED
  BY <1>6, <1>7, <1>8 DEF Inv

LEMMA CodeThread ==
  ASSUME Inv, NEW a \in Attempts, CheckCode(a)
  PROVE  Inv'
<1>1. \E y \in AttemptType : Stepped(a, y)
  BY ClosingThread
<1>2. UNCHANGED <<up, loaded, session, needsBootstrap, dialog, totp, account, failed, age, overrun>>
  BY DEF CheckCode, AttemptVars, process
<1>3. AllEarning' /\ Boot' /\ ScreenHeld' /\ ScreenType' /\ LockInv'
  BY <1>1, <1>2, SteppedKeeps, SteppedPast
<1>4. CodeType' /\ Remembered'
  <2>1. CASE Accepts(a)
    <3> DEFINE c == attempt[a].code
               g == [code |-> c, left |-> ReplayTtl]
    <3>1. guard' = guard \union {g} /\ spent' = spent \union {c} /\ c \in InTime
      BY <2>1 DEF CheckCode, Accepts
    <3>2. g \in [code: InTime, left: 1..ReplayTtl] /\ g.code = c /\ g.left >= c + Skew + 1
      BY <3>1, SignInAssumption DEF InTime
    <3> HIDE DEF c, g
    <3> QED
      BY <3>1, <3>2 DEF Inv, Types, CodeType, Remembered
  <2>2. CASE ~Accepts(a)
    BY <2>2 DEF CheckCode, codes, Inv, Types, CodeType, Remembered
  <2> QED
    BY <2>1, <2>2
<1> QED
  BY <1>2, <1>3, <1>4 DEF Inv, Types, RowType, ProcessType

LEMMA CountingThread ==
  ASSUME Inv, NEW a \in Attempts, RecordFailure(a) \/ ResetFailures(a)
  PROVE  Inv'
<1>1. PICK y \in AttemptType : Stepped(a, y)
  BY ClosingThread
<1>2. UNCHANGED <<up, loaded, session, needsBootstrap, dialog, totp, account, guard, spent>>
  BY DEF RecordFailure, ResetFailures, AttemptVars, process, codes
<1>3. AllEarning' /\ Boot' /\ ScreenHeld' /\ ScreenType'
  BY <1>1, <1>2, SteppedKeeps
<1>4. failed \in 0..FailCap /\ failed \in Nat /\ overrun \in Nat /\ FailCap \in Nat
  BY CapTypes DEF Inv, Types, RowType
<1>5. RowType' /\ overrun' \in Nat
  <2>1. Least(failed + 1, FailCap) \in 0..FailCap
    BY <1>4 DEF Least
  <2>2. failed' \in 0..FailCap /\ age' \in Waits \union {None} /\ overrun' \in Nat
    BY <1>4, <2>1, ConstantTypes DEF RecordFailure, ResetFailures
  <2> QED
    BY <1>2, <2>2 DEF Inv, Types, RowType
<1>6. LockInv'
  <2>1. CASE ResetFailures(a)
    <3>1. failed' = 0 /\ overrun' = 0
      BY <2>1 DEF ResetFailures
    <3>2. ~IsLocked(failed', age')
      BY <3>1, SignInAssumption DEF IsLocked
    <3> QED
      BY <3>1, <3>2 DEF LockInv
  <2>2. CASE RecordFailure(a)
    <3>1. /\ overrun' = IF IsLocked(failed, age) THEN overrun + 1 ELSE 0
          /\ failed' = Least(failed + 1, FailCap) /\ age' = 0
          /\ attempt[a].stage = "record"
          /\ attempt' = [attempt EXCEPT ![a].stage = "wait"]
      BY <2>2 DEF RecordFailure
    <3>2. \A b \in Attempts: attempt'[b].stage = IF b = a THEN "wait" ELSE attempt[b].stage
      BY <3>1 DEF Inv, Types, ScreenType, AttemptType
    <3>3. PastCheck' = PastCheck \ {a} /\ a \in PastCheck
      BY <3>1, <3>2 DEF PastCheck, Past
    <3>4. IsFiniteSet(PastCheck) /\ Cardinality(PastCheck) \in Nat
          /\ Cardinality(PastCheck) <= Cardinality(Attempts) /\ Cardinality(Attempts) \in Nat
      BY SignInAssumption, FS_Subset, FS_CardinalityType DEF PastCheck
    <3>5. Cardinality(PastCheck') = Cardinality(PastCheck) - 1
      BY <3>3, <3>4, FS_RemoveElement
    <3>6. CASE IsLocked(failed, age)
      <4>1. failed' >= MaxFailed /\ failed' \in Nat
        BY <1>4, <3>1, <3>6, CapTypes, SignInAssumption DEF IsLocked, Least
      <4>2. IsLocked(failed', age')
        BY <3>1, <4>1, FailureLocks
      <4>3. overrun + Cardinality(PastCheck) < Cardinality(Attempts)
        BY <3>6 DEF Inv, LockInv
      <4>4. overrun' + Cardinality(PastCheck') < Cardinality(Attempts)
        BY <1>4, <3>1, <3>4, <3>5, <3>6, <4>3
      <4> QED
        BY <4>2, <4>4 DEF LockInv
    <3>7. CASE ~IsLocked(failed, age)
      <4>1. overrun' + Cardinality(PastCheck') < Cardinality(Attempts) /\ overrun' = 0
        BY <3>1, <3>4, <3>5, <3>7
      <4> QED
        BY <4>1 DEF LockInv
    <3> QED
      BY <3>6, <3>7
  <2> QED
    BY <2>1, <2>2
<1>7. Remembered' /\ CodeType' /\ ProcessType'
  BY <1>2 DEF Inv, Types, Remembered, CodeType, ProcessType
<1> QED
  BY <1>3, <1>5, <1>6, <1>7 DEF Inv, Types

----------------------------------------------------------------------------
(* Time, the process and the second factor.                                  *)

LEMMA IdleFacts ==
  /\ Idle.stage = "idle" /\ Idle.result.kind = "none"
  /\ ~Closed.open /\ ~Closed.lockActive /\ Closed.page = "credentials"
  /\ \A page : /\ Fresh(page).open /\ ~Fresh(page).lockActive /\ Fresh(page).page = page
  /\ \A t \in BOOLEAN : Earning(Idle, t)
  /\ Serving(Idle)
BY DEF Idle, Outcome, Closed, Fresh, Earning, Serving, BootStages, LoginStages

LEMMA InitInv == Init => Inv
<1> SUFFICES ASSUME Init PROVE Inv
  OBVIOUS
<1> USE DEF Init
<1>1. Types
  <2>1. RowType
    <3>1. account \in 0..Whole
      BY DEF Whole
    <3>2. totp \in BOOLEAN
      <4>1. CASE HasRow
        BY <4>1
      <4>2. CASE ~HasRow
        BY <4>2
      <4> QED
        BY <4>1, <4>2
    <3>3. failed \in 0..FailCap
      BY CapTypes
    <3> QED
      BY <3>1, <3>2, <3>3 DEF RowType
  <2>2. ScreenType
    BY ConstantTypes DEF ScreenType
  <2> QED
    BY <2>1, <2>2 DEF Types, ProcessType, CodeType
<1>2. AllEarning
  BY <1>1, IdleFacts DEF AllEarning, Types, RowType
<1>3. \A a \in Attempts: ~Working(a) /\ ~Founds(a) /\ attempt[a].stage = "idle"
  BY IdleFacts DEF Working, Founds
<1>4. \A d \in Dialogs: dialog[d] = Closed /\ ~First(d)
  BY IdleFacts DEF First
<1>5. Boot
  BY <1>3, <1>4 DEF Boot
<1>6. ScreenHeld
  BY <1>4, IdleFacts DEF ScreenHeld
<1>7. LockInv
  <2>1. ~IsLocked(failed, age)
    BY SignInAssumption DEF IsLocked
  <2> QED
    BY <2>1 DEF LockInv
<1> QED
  BY <1>1, <1>2, <1>5, <1>6, <1>7 DEF Inv, Remembered

LEMMA StartKeeps ==
  ASSUME Inv, NEW d \in Dialogs, Start(d)
  PROVE  Inv'
<1> DEFINE page == IF needsBootstrap' THEN "identity" ELSE "credentials"
<1>1. /\ ~up /\ up' = TRUE /\ needsBootstrap' = ~HasEnvelope /\ loaded' = ~needsBootstrap'
      /\ dialog' = [dialog EXCEPT ![d] = Fresh(page)]
      /\ UNCHANGED <<account, totp, failed, age, session, attempt, guard, spent, overrun>>
  BY DEF Start, Present, rows, codes
<1>2. \A a \in Attempts: ~Working(a) /\ attempt[a].stage = "idle"
  BY <1>1 DEF Inv, Boot, Working
<1>3. \A e \in Dialogs: dialog'[e] = IF e = d THEN Fresh(page) ELSE Closed
  BY <1>1 DEF Inv, Boot, Types, ScreenType
<1>4. Types'
  <2>1. needsBootstrap' \in BOOLEAN /\ loaded' \in BOOLEAN
    BY <1>1 DEF HasEnvelope, Inv, Types, RowType
  <2>2. ScreenType'
    BY <1>1, ConstantTypes DEF Inv, Types, ScreenType
  <2> QED
    BY <1>1, <2>1, <2>2 DEF Inv, Types, RowType, ProcessType, CodeType
<1>5. AllEarning' /\ Remembered'
  BY <1>1 DEF Inv, AllEarning, Remembered
<1>6. ScreenHeld'
  <2>1. \A e \in Dialogs: ~dialog'[e].lockActive /\ dialog'[e].page # "pending"
    BY <1>3, IdleFacts
  <2> QED
    BY <2>1 DEF ScreenHeld
<1>7. Boot'
  <2>1. \A e \in Dialogs: First(e)' => e = d
    BY <1>3, IdleFacts DEF First
  <2>2. \A e \in Dialogs: ~dialog'[e].open => dialog'[e] = Closed
    BY <1>3, IdleFacts
  <2>3. \A a \in Attempts: ~Working(a)' /\ ~Founds(a)' /\ attempt'[a].stage = "idle"
    BY <1>1, <1>2 DEF Working, Founds
  <2>4. ~session'
    BY <1>1 DEF Inv, Boot
  <2> QED
    BY <1>1, <2>1, <2>2, <2>3, <2>4 DEF Boot
<1>8. LockInv'
  BY <1>1, PastShrinks DEF PastCheck
<1> QED
  BY <1>4, <1>5, <1>6, <1>7, <1>8 DEF Inv

LEMMA StopKeeps ==
  ASSUME Inv, Stop
  PROVE  Inv'
<1>1. /\ up' = FALSE /\ loaded' = FALSE /\ session' = FALSE
      /\ dialog' = [d \in Dialogs |-> Closed]
      /\ attempt' = [a \in Attempts |-> Idle]
      /\ guard' = {} /\ spent' = {}
      /\ UNCHANGED <<account, totp, failed, age, needsBootstrap, overrun>>
  BY DEF Stop, rows
<1>2. \A a \in Attempts: attempt'[a] = Idle /\ ~Working(a)' /\ ~Founds(a)'
                         /\ attempt'[a].stage = "idle"
  BY <1>1, IdleFacts DEF Working, Founds
<1>3. \A d \in Dialogs: dialog'[d] = Closed /\ ~First(d)' /\ ~dialog'[d].lockActive
                        /\ dialog'[d].page # "pending"
  BY <1>1, IdleFacts DEF First
<1>4. Types'
  <2>1. ScreenType'
    BY <1>1, ConstantTypes DEF ScreenType
  <2> QED
    BY <1>1, <2>1 DEF Inv, Types, RowType, ProcessType, CodeType
<1>5. AllEarning'
  BY <1>1, <1>2, IdleFacts DEF AllEarning, Inv, Types, RowType
<1>6. Boot' /\ ScreenHeld'
  BY <1>1, <1>2, <1>3 DEF Boot, ScreenHeld
<1>7. PastCheck' = {}
  BY <1>2 DEF PastCheck, Past
<1>8. LockInv' /\ Remembered'
  BY <1>1, <1>7, PastShrinks DEF Remembered
<1> QED
  BY <1>4, <1>5, <1>6, <1>8 DEF Inv

\* A step that may only change the codes and the marks of threads.
LEMMA MarksKeep ==
  ASSUME Inv, UNCHANGED <<account, up, session, needsBootstrap, dialog>>,
         \A a \in Attempts: /\ attempt'[a].stage = attempt[a].stage
                            /\ attempt'[a].dialog = attempt[a].dialog
                            /\ attempt'[a].form = attempt[a].form
                            /\ attempt'[a].result = attempt[a].result
  PROVE  Boot' /\ ScreenHeld' /\ PastCheck' = PastCheck /\ \A a \in Attempts: Serving(attempt'[a])
<1>1. \A a \in Attempts: Working(a)' = Working(a) /\ Founds(a)' = Founds(a)
  BY DEF Working, Founds
<1>2. \A d \in Dialogs: First(d)' = First(d)
  BY DEF First
<1>3. Boot'
  BY <1>1, <1>2 DEF Inv, Boot
<1>4. \A a \in Attempts, d \in Dialogs, form \in Forms: Holds(a, d, form)' = Holds(a, d, form)
  BY DEF Holds
<1>5. ScreenHeld'
  BY <1>4 DEF Inv, ScreenHeld, Forms
<1> QED
  BY <1>3, <1>5 DEF PastCheck, Inv, AllEarning, Serving

LEMMA FactorKeeps ==
  ASSUME Inv, EnableTotp \/ DisableTotp
  PROVE  Inv'
<1>1. UNCHANGED <<account, failed, age, up, loaded, session, needsBootstrap, dialog, overrun>>
      /\ totp' \in BOOLEAN
  BY DEF EnableTotp, DisableTotp, process
<1>2. CASE EnableTotp
  <2>1. \A a \in Attempts: attempt'[a] = [attempt[a] EXCEPT !.code = Wrong]
    BY <1>2 DEF EnableTotp
  <2>2. \A a \in Attempts: /\ attempt'[a] \in AttemptType
                           /\ attempt'[a].stage = attempt[a].stage
                           /\ attempt'[a].dialog = attempt[a].dialog
                           /\ attempt'[a].form = attempt[a].form
                           /\ attempt'[a].result = attempt[a].result
                           /\ Earning(attempt'[a], totp')
    BY <1>2, <2>1, AttemptFacts DEF EnableTotp, AttemptType, Earning, Earned
  <2>3. ScreenType' /\ CodeType' /\ Remembered'
    BY <1>1, <1>2, <2>2 DEF EnableTotp, Inv, Types, ScreenType, CodeType, Remembered
  <2>4. Boot' /\ ScreenHeld' /\ PastCheck' = PastCheck /\ AllEarning'
    BY <1>1, <2>2, MarksKeep DEF AllEarning
  <2>5. LockInv'
    BY <1>1, <2>4, PastShrinks
  <2> QED
    BY <1>1, <2>3, <2>4, <2>5 DEF Inv, Types, RowType, ProcessType
<1>3. CASE DisableTotp
  <2>1. \A a \in Attempts: attempt'[a] = [attempt[a] EXCEPT !.off = (attempt[a].stage # "idle")]
    BY <1>3 DEF DisableTotp
  <2>2. ASSUME NEW a \in Attempts
        PROVE  /\ attempt'[a] \in AttemptType
               /\ attempt'[a].stage = attempt[a].stage
               /\ attempt'[a].dialog = attempt[a].dialog
               /\ attempt'[a].form = attempt[a].form
               /\ attempt'[a].result = attempt[a].result
               /\ attempt'[a].right = attempt[a].right
               /\ attempt'[a].off = (attempt[a].stage # "idle")
    <3> DEFINE off == attempt[a].stage # "idle"
    <3>1. attempt'[a] = [attempt[a] EXCEPT !.off = off] /\ off \in BOOLEAN
      BY <2>1
    <3>2. off = (attempt[a].stage # "idle")
      OBVIOUS
    <3> HIDE DEF off
    <3> QED
      BY <3>1, <3>2, AttemptFacts DEF AttemptType
  <2>3. ASSUME NEW a \in Attempts
        PROVE  Earning(attempt'[a], totp')
    BY <2>2, AttemptFacts DEF Earning, Earned
  <2>4. ScreenType' /\ CodeType' /\ Remembered'
    BY <1>1, <1>3, <2>2 DEF DisableTotp, codes, Inv, Types, ScreenType, CodeType, Remembered
  <2>5. Boot' /\ ScreenHeld' /\ PastCheck' = PastCheck /\ AllEarning'
    BY <1>1, <2>2, <2>3, MarksKeep DEF AllEarning
  <2>6. LockInv'
    BY <1>1, <2>5, PastShrinks
  <2> QED
    BY <1>1, <2>4, <2>5, <2>6 DEF Inv, Types, RowType, ProcessType
<1> QED
  BY <1>2, <1>3

\* A code in time ages to one in time or to none; so does its memory.
LEMMA MemoryAges ==
  ASSUME Inv, Tick
  PROVE  CodeType' /\ Remembered'
<1>1. /\ guard' = {[code |-> Aged(g.code), left |-> g.left - 1]:
                    g \in {h \in guard: h.left > 1 /\ Aged(h.code) # Wrong}}
      /\ spent' = {Aged(c): c \in spent} \ {Wrong}
  BY DEF Tick
<1>2. /\ guard \subseteq [code: InTime, left: 1..ReplayTtl] /\ spent \subseteq InTime
      /\ Remembered
  BY DEF Inv, Types, CodeType
<1>3. ASSUME NEW c \in InTime, Aged(c) # Wrong
      PROVE  Aged(c) \in InTime /\ Aged(c) = c - 1
  BY <1>3 DEF Aged
<1>4. CodeType'
  <2>1. spent' \subseteq InTime
    BY <1>1, <1>2, <1>3
  <2>2. ASSUME NEW x \in guard'
        PROVE  x \in [code: InTime, left: 1..ReplayTtl]
    <3>1. PICK g \in guard : /\ g.left > 1 /\ Aged(g.code) # Wrong
                             /\ x = [code |-> Aged(g.code), left |-> g.left - 1]
      BY <1>1, <2>2
    <3>2. g.code \in InTime /\ g.left \in 1..ReplayTtl /\ ReplayTtl \in Nat
      BY <1>2, SignInAssumption
    <3>3. Aged(g.code) \in InTime /\ g.left - 1 \in 1..ReplayTtl
      BY <1>3, <3>1, <3>2
    <3> QED
      BY <3>1, <3>3
  <2> QED
    BY <2>1, <2>2 DEF CodeType
<1>5. ASSUME NEW x \in spent'
      PROVE  \E y \in guard' : y.code = x /\ y.left >= x + Skew + 1
  <2>1. PICK c \in spent : x = Aged(c) /\ x # Wrong
    BY <1>1, <1>5
  <2>2. PICK g \in guard : g.code = c /\ g.left >= c + Skew + 1
    BY <1>2 DEF Remembered
  <2>3. x = c - 1 /\ c - 1 \in InTime /\ c \in InTime /\ Skew \in Nat
    BY <1>2, <1>3, <2>1, SignInAssumption
  <2>4. g.left \in Nat /\ g.left > 1 /\ g.left - 1 >= x + Skew + 1
    BY <1>2, <2>2, <2>3, SignInAssumption DEF InTime
  <2> DEFINE y == [code |-> Aged(g.code), left |-> g.left - 1]
  <2>5. y \in guard'
    BY <1>1, <2>1, <2>2, <2>4
  <2> QED
    BY <2>1, <2>2, <2>4, <2>5
<1> QED
  BY <1>4, <1>5 DEF Remembered

LEMMA TickKeeps ==
  ASSUME Inv, Tick
  PROVE  Inv'
<1>1. /\ up
      /\ age' = IF age = None THEN None ELSE Least(age + 1, OldAge)
      /\ overrun' = IF IsLocked(failed, age') THEN overrun ELSE 0
      /\ UNCHANGED <<account, totp, failed, up, loaded, session, needsBootstrap>>
  BY DEF Tick, process
<1>2. \A a \in Attempts: attempt'[a] = [attempt[a] EXCEPT !.code = Aged(attempt[a].code)]
  BY DEF Tick
<1>3. ASSUME NEW a \in Attempts
      PROVE  /\ attempt'[a] \in AttemptType
             /\ attempt'[a].stage = attempt[a].stage
             /\ attempt'[a].dialog = attempt[a].dialog
             /\ attempt'[a].form = attempt[a].form
             /\ attempt'[a].result = attempt[a].result
             /\ Earning(attempt'[a], totp') /\ Serving(attempt'[a])
  <2>1. attempt[a].code \in InTime \union {Wrong} /\ attempt[a] \in AttemptType
    BY AttemptFacts DEF AttemptType
  <2>2. PICK code \in InTime \union {Wrong} : attempt'[a] = [attempt[a] EXCEPT !.code = code]
    BY <1>2, <2>1, AgedType
  <2> QED
    BY <1>1, <2>1, <2>2, AttemptFacts DEF AttemptType, Earning, Earned, Serving
<1>4. \A d \in Dialogs: dialog'[d] =
        IF dialog[d].countdown = 0 THEN dialog[d]
        ELSE [dialog[d] EXCEPT !.countdown = @ - 1,
                !.lockActive = IF dialog[d].countdown = 1 THEN FALSE ELSE @]
  BY DEF Tick
<1>5. ASSUME NEW d \in Dialogs
      PROVE  /\ dialog'[d] \in DialogType
             /\ dialog'[d].open = dialog[d].open
             /\ dialog'[d].page = dialog[d].page
             /\ dialog[d] = Closed => dialog'[d] = Closed
             /\ dialog'[d].lockActive =>
                  dialog[d].lockActive /\ (dialog[d].countdown = 0 \/ dialog'[d].countdown > 0)
  <2>1. dialog[d] \in DialogType /\ OldAge \in Nat
    BY CapTypes DEF Inv, Types, ScreenType
  <2>2. CASE dialog[d].countdown = 0
    BY <1>4, <2>1, <2>2
  <2>3. CASE dialog[d].countdown # 0
    <3>1. PICK active \in BOOLEAN :
            /\ active => dialog[d].lockActive /\ dialog[d].countdown # 1
            /\ dialog'[d] = [dialog[d] EXCEPT !.countdown = dialog[d].countdown - 1,
                                              !.lockActive = active]
      <4>1. CASE dialog[d].countdown = 1
        BY <1>4, <2>3, <4>1
      <4>2. CASE dialog[d].countdown # 1
        BY <1>4, <2>1, <2>3, <4>2 DEF DialogType
      <4> QED
        BY <4>1, <4>2
    <3>2. dialog[d].countdown \in Nat /\ dialog[d].countdown - 1 \in Waits
          /\ dialog[d].countdown <= OldAge
      BY <2>1, <2>3 DEF DialogType, Waits
    <3>3. dialog[d] # Closed
      BY <2>3 DEF Closed, Fresh
    <3>4. /\ dialog'[d].countdown = dialog[d].countdown - 1
          /\ dialog'[d].lockActive = active
          /\ dialog'[d].open = dialog[d].open /\ dialog'[d].page = dialog[d].page
          /\ dialog'[d] \in DialogType
      BY <2>1, <3>1, <3>2 DEF DialogType
    <3>5. active => dialog[d].lockActive /\ dialog'[d].countdown > 0
      BY <2>3, <3>1, <3>2, <3>4
    <3> QED
      BY <3>3, <3>4, <3>5
  <2> QED
    BY <2>2, <2>3
<1>6. ScreenType'
  <2>1. /\ dialog' = [d \in Dialogs |-> dialog'[d]]
        /\ attempt' = [a \in Attempts |-> attempt'[a]]
    BY DEF Tick
  <2> QED
    BY <1>3, <1>5, <2>1 DEF ScreenType
<1>7. RowType'
  <2>1. Least(age + 1, OldAge) \in Waits \/ age = None
    BY CapTypes DEF Inv, Types, RowType, Least, Waits
  <2> QED
    BY <1>1, <2>1 DEF Inv, Types, RowType
<1>8. AllEarning'
  BY <1>3 DEF AllEarning
<1>9. Boot'
  <2>1. \A a \in Attempts: Working(a)' = Working(a) /\ Founds(a)' = Founds(a)
    BY <1>3 DEF Working, Founds
  <2>2. \A d \in Dialogs: First(d)' = First(d)
    BY <1>5 DEF First
  <2>3. \A d \in Dialogs: ~dialog'[d].open => dialog'[d] = Closed
    BY <1>5 DEF Inv, Boot
  <2>4. \A a \in Attempts: Working(a)' => attempt'[a].dialog \in Dialogs
    BY <1>3, <2>1 DEF Inv, Boot
  <2>5. \A a \in Attempts: Founds(a)' => dialog'[attempt'[a].dialog].page = "pending"
    BY <1>3, <1>5, <2>1 DEF Inv, Boot, Founds
  <2>6. \A a \in Attempts: Working(a)' /\ ~Founds(a)' => ~First(attempt[a].dialog)'
    BY <1>3, <1>5, <2>1 DEF Inv, Boot, First
  <2>7. \A d, e \in Dialogs: First(d)' /\ First(e)' => d = e
    BY <2>2 DEF Inv, Boot
  <2>8. \A a, b \in Attempts: Founds(a)' /\ Founds(b)' => a = b
    BY <2>1 DEF Inv, Boot
  <2>9. \A a \in Attempts: attempt'[a].stage \in {"memory", "insert"} => account' < Whole
    BY <1>1, <1>3 DEF Inv, Boot
  <2>10. session' => ~needsBootstrap'
    BY <1>1 DEF Inv, Boot
  <2> QED
    BY <1>1, <2>3, <2>4, <2>5, <2>6, <2>7, <2>8, <2>9, <2>10 DEF Boot
<1>10. ScreenHeld'
  <2>1. \A a \in Attempts, d \in Dialogs, form \in Forms: Holds(a, d, form)' = Holds(a, d, form)
    BY <1>3 DEF Holds
  <2>2. \A d \in Dialogs: dialog[d].countdown \in Nat
    BY CapTypes DEF Inv, Types, ScreenType, DialogType, Waits
  <2> QED
    BY <1>5, <2>1, <2>2 DEF Inv, ScreenHeld, Forms
<1>11. LockInv'
  <2>1. PastCheck' = PastCheck
    BY <1>3 DEF PastCheck
  <2>2. CASE ~IsLocked(failed, age')
    BY <1>1, <2>2 DEF LockInv
  <2>3. CASE IsLocked(failed, age')
    <3>1. failed \in Nat /\ age \in Waits \union {None} /\ MaxFailed \in Nat
      BY CapTypes, SignInAssumption DEF Inv, Types, RowType
    <3>2. age # None
      BY <1>1, <2>3 DEF IsLocked, RemainingLock
    <3>3. IsLocked(failed, age)
      BY <1>1, <2>3, <3>1, <3>2, LockWanes
    <3> QED
      BY <1>1, <2>1, <2>3, <3>3 DEF Inv, LockInv
  <2> QED
    BY <2>2, <2>3
<1>12. overrun' \in Nat
  BY <1>1 DEF Inv, Types
<1> QED
  BY <1>1, <1>6, <1>7, <1>8, <1>9, <1>10, <1>11, <1>12, MemoryAges
  DEF Inv, Types, ProcessType

----------------------------------------------------------------------------
(* The screens.                                                              *)

\* A thread that is none becomes another that is not past the check, or ends.
LEMMA LockKept ==
  ASSUME Inv, UNCHANGED <<failed, age, overrun>>, NEW a \in Attempts, NEW x,
         attempt' = [attempt EXCEPT ![a] = x], x.stage \notin Past
  PROVE  LockInv'
<1>1. \A b \in Attempts: attempt'[b] = IF b = a THEN x ELSE attempt[b]
  BY DEF Inv, Types, ScreenType
<1>2. PastCheck' \subseteq PastCheck
  BY <1>1 DEF PastCheck
<1> QED
  BY <1>2, PastShrinks

\* What Boot says of screens and threads, and which steps keep it.
LEMMA ScreenFacts ==
  ASSUME Inv
  PROVE  /\ dialog \in [Dialogs -> DialogType] /\ attempt \in [Attempts -> AttemptType]
         /\ \A d \in Dialogs: dialog[d].open => up
         /\ \A d \in Dialogs: First(d) => dialog[d].open
         /\ \A a \in Attempts: Working(a) => up /\ attempt[a].dialog \in Dialogs
<1>1. \A d \in Dialogs: dialog[d].open => up
  BY IdleFacts DEF Inv, Boot
<1>2. \A d \in Dialogs: First(d) => dialog[d].open
  BY IdleFacts DEF Inv, Boot, First
<1> QED
  BY <1>1, <1>2 DEF Inv, Boot, Types, ScreenType

LEMMA SignOutKeeps ==
  ASSUME Inv, NEW d \in Dialogs, SignOut(d)
  PROVE  Inv'
<1> USE ScreenFacts
<1>1. /\ session /\ session' = FALSE /\ needsBootstrap' = needsBootstrap
      /\ Unused(d)
      /\ UNCHANGED <<account, totp, failed, age, up, loaded, attempt, guard, spent, overrun>>
  BY DEF SignOut, Present, rows, codes
<1>2. dialog' = [dialog EXCEPT ![d] = Fresh("credentials")]
  BY <1>1 DEF SignOut, Present, Inv, Boot
<1>3. \A e \in Dialogs: dialog'[e] = IF e = d THEN Fresh("credentials") ELSE dialog[e]
  BY <1>2
<1>4. ~First(d) /\ dialog[d] = Closed /\ \A e \in Dialogs: First(e)' = First(e)
  BY <1>1, <1>3, IdleFacts DEF Unused, First
<1>5. up
  BY <1>1 DEF Inv, Boot
<1>6. ScreenType'
  BY <1>1, <1>2, ConstantTypes DEF ScreenType
<1>7. \A a \in Attempts: Working(a)' = Working(a) /\ Founds(a)' = Founds(a)
                         /\ attempt[a].dialog # d
  BY <1>1 DEF Working, Founds, Unused
<1>8. Boot'
  <2>1. \A a \in Attempts: Working(a) =>
          attempt[a].dialog \in Dialogs /\ dialog'[attempt[a].dialog] = dialog[attempt[a].dialog]
    BY <1>3, <1>7
  <2>2. \A a \in Attempts: Founds(a) => dialog[attempt[a].dialog].page = "pending" /\ Working(a)
    BY DEF Inv, Boot, Founds
  <2>3. \A e \in Dialogs: ~dialog'[e].open => dialog'[e] = Closed
    BY <1>3, IdleFacts DEF Inv, Boot
  <2> QED
    BY <1>1, <1>4, <1>5, <1>7, <2>1, <2>2, <2>3 DEF Inv, Boot
<1>9. ScreenHeld'
  <2>1. \A a \in Attempts, e \in Dialogs, form \in Forms: Holds(a, e, form)' = Holds(a, e, form)
    BY <1>1 DEF Holds
  <2> QED
    BY <1>3, <2>1, IdleFacts DEF Inv, ScreenHeld, Forms
<1>10. LockInv'
  BY <1>1, PastShrinks DEF PastCheck
<1>11. AllEarning' /\ Remembered' /\ Types'
  BY <1>1, <1>6 DEF Inv, AllEarning, Remembered, Types, RowType, ProcessType, CodeType
<1> QED
  BY <1>8, <1>9, <1>10, <1>11 DEF Inv

\* A screen turns a page without a thread.
LEMMA PageKeeps ==
  ASSUME Inv, NEW d \in Dialogs, ShowPhrase(d) \/ BackToCredentials(d)
  PROVE  Inv'
<1> USE ScreenFacts
<1>1. PICK page \in {"oath", "credentials"} :
        /\ dialog' = [dialog EXCEPT ![d].page = page]
        /\ dialog[d].open /\ dialog[d].page # "pending"
        /\ First(d) <=> page = "oath"
        /\ UNCHANGED <<account, totp, failed, age, up, loaded, session, needsBootstrap, attempt,
                       guard, spent, overrun>>
  BY DEF ShowPhrase, BackToCredentials, First, rows, process, codes
<1>2. \A e \in Dialogs: /\ dialog'[e] = IF e = d THEN [dialog[d] EXCEPT !.page = page] ELSE dialog[e]
                        /\ dialog'[e].open = dialog[e].open
                        /\ dialog'[e].lockActive = dialog[e].lockActive
                        /\ dialog'[e].countdown = dialog[e].countdown
                        /\ dialog'[e].page = IF e = d THEN page ELSE dialog[e].page
  BY <1>1 DEF DialogType
<1>3. \A e \in Dialogs: First(e)' = First(e)
  BY <1>1, <1>2 DEF First
<1>4. \A a \in Attempts: Working(a)' = Working(a) /\ Founds(a)' = Founds(a)
  BY <1>1 DEF Working, Founds
<1>5. \A a \in Attempts: Founds(a) => attempt[a].dialog # d
  BY <1>1 DEF Inv, Boot
<1>6. Boot'
  <2>1. \A e \in Dialogs: ~dialog'[e].open => dialog'[e] = Closed
    BY <1>1, <1>2 DEF Inv, Boot
  <2>2. \A a \in Attempts: Founds(a) => dialog'[attempt[a].dialog].page = "pending"
    BY <1>2, <1>5 DEF Inv, Boot, Founds, Working
  <2> QED
    BY <1>1, <1>3, <1>4, <2>1, <2>2 DEF Inv, Boot
<1>7. ScreenHeld'
  <2>1. \A a \in Attempts, e \in Dialogs, form \in Forms: Holds(a, e, form)' = Holds(a, e, form)
    BY <1>1 DEF Holds
  <2> QED
    BY <1>2, <2>1 DEF Inv, ScreenHeld, Forms
<1>8. LockInv'
  BY <1>1, PastShrinks DEF PastCheck
<1>9. ScreenType'
  BY <1>1 DEF ScreenType, DialogType
<1>10. AllEarning' /\ Remembered' /\ Types'
  BY <1>1, <1>9 DEF Inv, AllEarning, Remembered, Types, RowType, ProcessType, CodeType
<1> QED
  BY <1>6, <1>7, <1>8, <1>10 DEF Inv

LEMMA ConfirmKeeps ==
  ASSUME Inv, NEW d \in Dialogs, NEW a \in Attempts, ConfirmPhrase(d, a)
  PROVE  Inv'
<1> USE ScreenFacts
<1> DEFINE x == [Idle EXCEPT !.stage = "guard", !.dialog = d, !.form = "identity"]
<1>1. /\ dialog[d].open /\ dialog[d].page = "oath" /\ attempt[a].stage = "idle"
      /\ dialog' = [dialog EXCEPT ![d].page = "pending"]
      /\ attempt' = [attempt EXCEPT ![a] = x]
      /\ UNCHANGED <<account, totp, failed, age, up, loaded, session, needsBootstrap,
                     guard, spent, overrun>>
  BY DEF ConfirmPhrase, rows, process, codes
<1>2. /\ x \in AttemptType /\ x.stage = "guard" /\ x.dialog = d /\ x.form = "identity"
      /\ x.result.kind = "none"
  BY ConstantTypes, IdleFacts DEF AttemptType, Stages, Forms
<1>3. Earning(x, totp) /\ Serving(x)
  BY <1>2 DEF Earning, Serving, BootStages, LoginStages
<1> HIDE DEF x
<1>4. \A e \in Dialogs: /\ dialog'[e].open = dialog[e].open
                        /\ dialog'[e].lockActive = dialog[e].lockActive
                        /\ dialog'[e].countdown = dialog[e].countdown
                        /\ dialog'[e].page = IF e = d THEN "pending" ELSE dialog[e].page
                        /\ e # d => dialog'[e] = dialog[e]
  BY <1>1 DEF DialogType
<1>5. \A b \in Attempts: attempt'[b] = IF b = a THEN x ELSE attempt[b]
  BY <1>1
<1>6. First(d) /\ \A e \in Dialogs: First(e)' = First(e)
  BY <1>1, <1>4 DEF First
<1>7. \A b \in Attempts: ~Founds(b) /\ Working(b)' = (b = a \/ Working(b)) /\ Founds(b)' = (b = a)
  <2>1. ASSUME NEW b \in Attempts, Founds(b) PROVE FALSE
    <3>1. attempt[b].dialog \in Dialogs /\ dialog[attempt[b].dialog].page = "pending"
      BY <2>1 DEF Inv, Boot, Founds
    <3>2. First(attempt[b].dialog)
      BY <3>1 DEF First
    <3>3. attempt[b].dialog = d
      BY <1>6, <3>1, <3>2 DEF Inv, Boot
    <3> QED
      BY <1>1, <3>1, <3>3
  <2> QED
    BY <1>2, <1>5, <2>1 DEF Working, Founds
<1>8. ~Working(a)
  BY <1>1 DEF Working
<1>9. Boot'
  <2>1. \A e \in Dialogs: ~dialog'[e].open => dialog'[e] = Closed
    BY <1>1, <1>4 DEF Inv, Boot
  <2>2. \A b \in Attempts: Working(b)' => attempt'[b].dialog \in Dialogs
    BY <1>2, <1>5, <1>7 DEF Inv, Boot
  <2>3. \A b \in Attempts: Founds(b)' => dialog'[attempt'[b].dialog].page = "pending"
    BY <1>2, <1>4, <1>5, <1>7
  <2>4. \A b \in Attempts: Working(b)' /\ ~Founds(b)' => ~First(attempt[b].dialog)'
    <3> SUFFICES ASSUME NEW b \in Attempts, b # a, Working(b), ~Founds(b)
                 PROVE  ~First(attempt[b].dialog)'
      BY <1>7
    <3>1. attempt'[b] = attempt[b] /\ attempt[b].dialog \in Dialogs /\ ~First(attempt[b].dialog)
      BY <1>5 DEF Inv, Boot
    <3>2. attempt[b].dialog # d
      BY <1>6, <3>1
    <3> QED
      BY <1>4, <3>1, <3>2 DEF First
  <2>5. \A e, f \in Dialogs: First(e)' /\ First(f)' => e = f
    BY <1>6 DEF Inv, Boot
  <2>6. \A b \in Attempts: attempt'[b].stage \in {"memory", "insert"} => account' < Whole
    BY <1>1, <1>2, <1>5 DEF Inv, Boot
  <2> QED
    BY ZenonT(60), <1>1, <1>7, <2>1, <2>2, <2>3, <2>4, <2>5, <2>6 DEF Inv, Boot
<1>10. ScreenHeld'
  <2>1. \A b \in Attempts, e \in Dialogs, form \in Forms: Holds(b, e, form) => Holds(b, e, form)'
    BY <1>1, <1>5 DEF Holds
  <2>2. Holds(a, d, "identity")'
    BY <1>2, <1>5 DEF Holds
  <2> QED
    BY <1>4, <2>1, <2>2 DEF Inv, ScreenHeld, Forms
<1>11. LockInv'
  BY <1>1, <1>2, LockKept DEF Past
<1>12. ScreenType'
  BY <1>1, <1>2 DEF ScreenType, DialogType
<1>13. AllEarning' /\ Remembered' /\ Types'
  BY <1>1, <1>3, <1>5, <1>12 DEF Inv, AllEarning, Remembered, Types, RowType, ProcessType, CodeType
<1> QED
  BY <1>9, <1>10, <1>11, <1>13 DEF Inv

\* The creation of the account ends, well or not: no thread is left to it.
LEMMA FoundedKeeps ==
  ASSUME Inv, NEW a \in Attempts, NotCreated(a) \/ \E d \in Dialogs: Created(a, d)
  PROVE  Inv'
<1> USE ScreenFacts
<1> DEFINE D == attempt[a].dialog
<1>1. /\ attempt[a].stage = "answer" /\ attempt[a].form = "identity"
      /\ attempt' = [attempt EXCEPT ![a] = Idle]
      /\ UNCHANGED <<account, totp, failed, age, up, loaded, session, guard, spent, overrun>>
      /\ needsBootstrap' \in BOOLEAN /\ (needsBootstrap' => needsBootstrap)
  <2>1. CASE NotCreated(a)
    BY <2>1 DEF NotCreated, rows, process, codes, Inv, Types, ProcessType
  <2>2. CASE \E d \in Dialogs: Created(a, d)
    BY <2>2, AttemptFacts DEF Created, rows, codes, Serving
  <2> QED
    BY <2>1, <2>2
<1>2. Founds(a) /\ Working(a) /\ up /\ D \in Dialogs /\ dialog[D].page = "pending" /\ First(D)
  BY <1>1 DEF Founds, Working, Inv, Boot, First
<1>3. \A b \in Attempts: Founds(b) => b = a
  BY <1>2 DEF Inv, Boot
<1>4. \A e \in Dialogs: First(e) => e = D
  BY <1>2 DEF Inv, Boot
<1>5. \A b \in Attempts: attempt'[b] = IF b = a THEN Idle ELSE attempt[b]
  BY <1>1
<1>6. \A b \in Attempts: Working(b)' = (b # a /\ Working(b)) /\ ~Founds(b)'
  BY <1>3, <1>5, IdleFacts DEF Working, Founds
<1> DEFINE Left(e) == /\ First(e)' => First(e)
                      /\ dialog'[e].page # "pending"
                      /\ ~dialog'[e].open => dialog'[e] = Closed
                      /\ dialog'[e].lockActive => dialog[e].lockActive
                      /\ dialog'[e].lockActive => dialog'[e].countdown = dialog[e].countdown
<1>7. dialog' \in [Dialogs -> DialogType] /\ \A e \in Dialogs: Left(e)
  <2>1. CASE NotCreated(a)
    <3>1. dialog' = [dialog EXCEPT ![D].page = "identity"]
      BY <2>1 DEF NotCreated
    <3>2. \A e \in Dialogs: /\ dialog'[e].open = dialog[e].open
                            /\ dialog'[e].lockActive = dialog[e].lockActive
                            /\ dialog'[e].countdown = dialog[e].countdown
                            /\ dialog'[e].page = IF e = D THEN "identity" ELSE dialog[e].page
                            /\ e # D => dialog'[e] = dialog[e]
      BY <1>2, <3>1 DEF DialogType
    <3>3. dialog' \in [Dialogs -> DialogType]
      BY <3>1 DEF DialogType
    <3>4. \A e \in Dialogs: First(e)' => First(e)
      BY <1>2, <3>2 DEF First
    <3>5. \A e \in Dialogs: dialog'[e].page # "pending"
      BY <1>4, <3>2 DEF First
    <3>6. \A e \in Dialogs: ~dialog'[e].open => dialog'[e] = Closed
      BY <1>2, <3>2 DEF Inv, Boot
    <3> QED
      BY <3>2, <3>3, <3>4, <3>5, <3>6
  <2>2. ASSUME NEW d \in Dialogs, Created(a, d)
        PROVE  dialog' \in [Dialogs -> DialogType] /\ \A e \in Dialogs: Left(e)
    <3>1. dialog' = [dialog EXCEPT ![D] = Closed, ![d] = Fresh("credentials")]
      BY <2>2 DEF Created
    <3>2. \A e \in Dialogs: dialog'[e] = IF e = d THEN Fresh("credentials")
                                         ELSE IF e = D THEN Closed ELSE dialog[e]
      BY <1>2, <3>1
    <3>3. dialog' \in [Dialogs -> DialogType]
      BY <1>2, <3>1, ConstantTypes
    <3>4. \A e \in Dialogs: (First(e)' => First(e)) /\ dialog'[e].page # "pending"
      BY <1>4, <3>2, IdleFacts DEF First
    <3>5. \A e \in Dialogs: ~dialog'[e].open => dialog'[e] = Closed
      BY <3>2, IdleFacts DEF Inv, Boot
    <3>6. \A e \in Dialogs: dialog'[e].lockActive => dialog'[e] = dialog[e]
      BY <3>2, IdleFacts
    <3>7. \A e \in Dialogs: dialog'[e].lockActive =>
            dialog[e].lockActive /\ dialog'[e].countdown = dialog[e].countdown
      BY <3>6, Zenon
    <3> QED
      BY <3>3, <3>4, <3>5, <3>7
  <2> QED
    BY <2>1, <2>2
<1>8. Boot'
  <2>1. needsBootstrap' => ~session'
    BY <1>1 DEF Inv, Boot
  <2>2. \A b \in Attempts: Working(b)' => attempt'[b] = attempt[b] /\ attempt[b].dialog \in Dialogs
                                          /\ ~First(attempt[b].dialog)
    BY <1>3, <1>5, <1>6 DEF Inv, Boot
  <2>3. \A b \in Attempts: Working(b)' => attempt'[b].dialog \in Dialogs
                                          /\ ~First(attempt[b].dialog)'
    BY <1>7, <2>2 DEF First
  <2>4. \A e, f \in Dialogs: First(e)' /\ First(f)' => e = f
    BY <1>4, <1>7
  <2>5. \A b \in Attempts: attempt'[b].stage \in {"memory", "insert"} => account' < Whole
    BY <1>1, <1>5, IdleFacts DEF Inv, Boot
  <2> QED
    BY <1>1, <1>2, <1>6, <1>7, <2>1, <2>3, <2>4, <2>5 DEF Boot
<1>9. ScreenHeld'
  <2>1. \A b \in Attempts, e \in Dialogs: Holds(b, e, "credentials") => Holds(b, e, "credentials")'
    BY <1>1, <1>5 DEF Holds
  <2> QED
    BY <1>7, <2>1 DEF Inv, ScreenHeld
<1>10. LockInv'
  BY <1>1, IdleFacts, LockKept DEF Past
<1>11. ScreenType'
  BY <1>1, <1>7, ConstantTypes DEF ScreenType
<1>12. AllEarning'
  BY <1>1, <1>5, IdleFacts DEF Inv, AllEarning, Types, RowType
<1>13. Remembered' /\ Types'
  BY <1>1, <1>11 DEF Inv, Remembered, Types, RowType, ProcessType, CodeType
<1> QED
  BY <1>8, <1>9, <1>10, <1>12, <1>13 DEF Inv

\* A form is submitted: a thread that has checked nothing.
Submitted(d, a, x, active) ==
  /\ dialog[d].open /\ ~First(d) /\ attempt[a].stage = "idle"
  /\ x.stage = "check" /\ x.dialog = d /\ x.form # "identity" /\ x.off = ~totp
  /\ x.result.kind = "none"
  /\ active => x.form = "credentials" \/ dialog[d].lockActive
  /\ attempt' = [attempt EXCEPT ![a] = x]
  /\ dialog' = [dialog EXCEPT ![d].lockActive = active]
  /\ UNCHANGED <<account, totp, failed, age, up, loaded, session, needsBootstrap,
                 guard, spent, overrun>>

LEMMA SubmittedKeeps ==
  ASSUME Inv, NEW d \in Dialogs, NEW a \in Attempts, NEW x \in AttemptType,
         NEW active \in BOOLEAN, Submitted(d, a, x, active)
  PROVE  Inv'
<1> USE ScreenFacts
<1> USE DEF Submitted
<1>2. Earning(x, totp) /\ Serving(x)
  BY DEF Earning, Serving, BootStages, LoginStages
<1>3. \A b \in Attempts: attempt'[b] = IF b = a THEN x ELSE attempt[b]
  OBVIOUS
<1>4. \A e \in Dialogs: /\ dialog'[e].open = dialog[e].open
                        /\ dialog'[e].lockActive = IF e = d THEN active ELSE dialog[e].lockActive
                        /\ dialog'[e].countdown = dialog[e].countdown
                        /\ dialog'[e].page = dialog[e].page
                        /\ e # d => dialog'[e] = dialog[e]
  BY DEF DialogType
<1>5. \A e \in Dialogs: First(e)' = First(e)
  BY <1>4 DEF First
<1>6. \A b \in Attempts: Working(b)' = (b = a \/ Working(b)) /\ Founds(b)' = Founds(b)
  BY <1>3 DEF Working, Founds
<1>7. Boot'
  <2>1. up
    OBVIOUS
  <2>2. \A e \in Dialogs: ~dialog'[e].open => dialog'[e] = Closed
    BY <1>4 DEF Inv, Boot
  <2>3. \A b \in Attempts: Working(b)' => attempt'[b].dialog \in Dialogs
    BY <1>3, <1>6
  <2>4. \A b \in Attempts: Founds(b)' => dialog'[attempt'[b].dialog].page = "pending"
    BY <1>3, <1>4, <1>6 DEF Inv, Boot, Founds, Working
  <2>5. \A b \in Attempts: Working(b)' /\ ~Founds(b)' => ~First(attempt'[b].dialog)
    BY <1>3, <1>6 DEF Inv, Boot
  <2>6. \A b \in Attempts: Working(b)' /\ ~Founds(b)' => ~First(attempt[b].dialog)'
    BY <1>4, <2>3, <2>5 DEF First
  <2>7. \A b \in Attempts: attempt'[b].stage \in {"memory", "insert"} => account' < Whole
    BY <1>3 DEF Inv, Boot
  <2>8. \A e, f \in Dialogs: First(e)' /\ First(f)' => e = f
    BY <1>5 DEF Inv, Boot
  <2>9. \A b, c \in Attempts: Founds(b)' /\ Founds(c)' => b = c
    BY <1>6 DEF Inv, Boot
  <2> QED
    BY <2>1, <2>2, <2>3, <2>4, <2>6, <2>7, <2>8, <2>9 DEF Inv, Boot
<1>8. ScreenHeld'
  <2>1. \A b \in Attempts, e \in Dialogs, form \in Forms: Holds(b, e, form) => Holds(b, e, form)'
    BY <1>3 DEF Holds
  <2>2. x.form = "credentials" => Holds(a, d, "credentials")'
    BY <1>3 DEF Holds
  <2> QED
    BY <1>4, <2>1, <2>2 DEF Inv, ScreenHeld, Forms
<1>9. LockInv'
  BY LockKept DEF Past
<1>10. ScreenType'
  BY DEF ScreenType, DialogType
<1>11. AllEarning' /\ Remembered' /\ Types'
  BY <1>2, <1>3, <1>10
  DEF Inv, AllEarning, Remembered, Types, RowType, ProcessType, CodeType
<1> QED
  BY <1>7, <1>8, <1>9, <1>11 DEF Inv

LEMMA SubmitKeeps ==
  ASSUME Inv, NEW d \in Dialogs, NEW a \in Attempts, NEW right \in BOOLEAN,
         Submit(d, a, right)
  PROVE  Inv'
<1> DEFINE off == ~totp
           x == [Idle EXCEPT !.stage = "check", !.dialog = d, !.right = right, !.off = off]
<1>1. off \in BOOLEAN /\ off = ~totp /\ Idle.form = "credentials"
  BY DEF Idle
<1>2. /\ dialog[d].open /\ dialog[d].page = "credentials" /\ attempt[a].stage = "idle"
      /\ attempt' = [attempt EXCEPT ![a] = x]
      /\ dialog' = [dialog EXCEPT ![d].lockActive = TRUE]
      /\ UNCHANGED <<account, totp, failed, age, up, loaded, session, needsBootstrap,
                     guard, spent, overrun>>
  BY DEF Submit, rows, process, codes
<1> HIDE DEF off
<1>3. /\ x \in AttemptType /\ x.stage = "check" /\ x.dialog = d /\ x.form = "credentials"
      /\ x.off = off /\ x.result.kind = "none"
  BY <1>1, ConstantTypes, IdleFacts DEF AttemptType, Stages
<1> HIDE DEF x
<1>4. Submitted(d, a, x, TRUE)
  BY <1>1, <1>2, <1>3 DEF Submitted, First
<1> QED
  BY <1>3, <1>4, SubmittedKeeps

LEMMA SubmitCodeKeeps ==
  ASSUME Inv, NEW d \in Dialogs, NEW a \in Attempts, NEW right \in BOOLEAN,
         NEW c \in InTime \union {Wrong}, SubmitCode(d, a, right, c)
  PROVE  Inv'
<1> DEFINE off == ~totp
           active == dialog[d].lockActive
           x == [Idle EXCEPT !.stage = "check", !.dialog = d, !.form = "totp",
                             !.right = right, !.code = c, !.off = off]
<1>1. off \in BOOLEAN /\ off = ~totp
  OBVIOUS
<1>2. /\ dialog[d].open /\ dialog[d].page = "totp" /\ attempt[a].stage = "idle"
      /\ attempt' = [attempt EXCEPT ![a] = x]
      /\ UNCHANGED <<account, totp, failed, age, up, loaded, session, needsBootstrap, dialog,
                     guard, spent, overrun>>
  BY DEF SubmitCode, rows, process, codes
<1> HIDE DEF off
<1>3. /\ x \in AttemptType /\ x.stage = "check" /\ x.dialog = d /\ x.form = "totp"
      /\ x.off = off /\ x.result.kind = "none"
  BY ZenonT(60), <1>1, ConstantTypes, IdleFacts DEF AttemptType, Stages, Forms
<1>4. dialog' = [dialog EXCEPT ![d].lockActive = active] /\ active \in BOOLEAN
      /\ (active => dialog[d].lockActive)
  BY <1>2, ScreenFacts DEF DialogType
<1> HIDE DEF x, active
<1>5. Submitted(d, a, x, active)
  BY <1>1, <1>2, <1>3, <1>4 DEF Submitted, First
<1> QED
  BY <1>3, <1>4, <1>5, SubmittedKeeps

\* What the answer makes of the screen: it is held by a countdown, or as before
\* by another form.
LEMMA ShownFacts ==
  ASSUME NEW screen \in DialogType, NEW form \in Forms, NEW result \in [kind: Kinds, wait: Waits],
         screen.open, screen.page \notin {"identity", "oath", "pending"}
  PROVE  LET shown == Shown(screen, form, result) IN
         /\ shown \in DialogType
         /\ shown.page \notin {"identity", "oath", "pending"}
         /\ ~shown.open => shown = Closed
         /\ shown.lockActive =>
              \/ shown.countdown > 0
              \/ form # "credentials" /\ screen.lockActive /\ shown.countdown = screen.countdown
<1> DEFINE s == IF form = "credentials" THEN [screen EXCEPT !.lockActive = FALSE] ELSE screen
           held == form # "credentials" /\ screen.lockActive
<1>1. /\ s \in DialogType /\ s.page = screen.page /\ s.open /\ s.countdown = screen.countdown
      /\ s.lockActive => held
  BY DEF DialogType
<1>2. Shown(screen, form, result) =
        IF result.kind = "success" THEN Closed
        ELSE IF result.kind = "code" THEN [s EXCEPT !.page = "totp"]
        ELSE IF result.wait > 0 THEN Countdown(s, result.wait)
        ELSE s
  BY DEF Shown
<1>3. held => form # "credentials" /\ screen.lockActive
  OBVIOUS
<1> HIDE DEF s, held
<1>4. CASE result.kind = "success"
  <2>1. Shown(screen, form, result) = Closed
    BY <1>2, <1>4
  <2> QED
    BY <2>1, ConstantTypes, IdleFacts
<1>5. CASE result.kind # "success" /\ result.kind = "code"
  <2>1. Shown(screen, form, result) = [s EXCEPT !.page = "totp"]
    BY <1>2, <1>5
  <2>2. LET t == [s EXCEPT !.page = "totp"] IN
        t \in DialogType /\ t.page = "totp" /\ t.open /\ t.countdown = s.countdown
        /\ t.lockActive = s.lockActive
    BY <1>1 DEF DialogType
  <2> QED
    BY <1>1, <1>3, <2>1, <2>2
<1>6. CASE result.kind \notin {"success", "code"} /\ result.wait > 0
  <2>1. Shown(screen, form, result) = Countdown(s, result.wait)
    BY <1>2, <1>6
  <2> DEFINE on == result.wait > 0
             t == [s EXCEPT !.countdown = result.wait, !.lockActive = on]
  <2>2. Countdown(s, result.wait) = t /\ on \in BOOLEAN
    BY DEF Countdown
  <2> HIDE DEF on
  <2>3. t \in DialogType /\ t.page = s.page /\ t.open /\ t.countdown = result.wait
    BY <1>1, <2>2 DEF DialogType
  <2> QED
    BY <1>1, <1>6, <2>1, <2>2, <2>3
<1>7. CASE result.kind \notin {"success", "code"} /\ ~(result.wait > 0)
  <2>1. Shown(screen, form, result) = s
    BY <1>2, <1>7
  <2> QED
    BY <1>1, <1>3, <2>1
<1> QED
  BY <1>4, <1>5, <1>6, <1>7

LEMMA DeliverKeeps ==
  ASSUME Inv, NEW a \in Attempts, Deliver(a)
  PROVE  Inv'
<1> USE ScreenFacts
<1> DEFINE r == attempt[a]
           D == r.dialog
<1>1. /\ r.stage = "answer" /\ r.form # "identity"
      /\ dialog' = [dialog EXCEPT ![D] = IF dialog[D].open THEN Shown(dialog[D], r.form, r.result)
                                         ELSE dialog[D]]
      /\ session' = (session \/ r.result.kind = "success")
      /\ needsBootstrap' = (needsBootstrap /\ r.result.kind # "success")
      /\ attempt' = [attempt EXCEPT ![a] = Idle]
      /\ UNCHANGED <<account, totp, failed, age, up, loaded, guard, spent, overrun>>
  BY DEF Deliver, rows, codes
<1>2. /\ r \in AttemptType /\ Working(a) /\ ~Founds(a) /\ up /\ D \in Dialogs /\ ~First(D)
  BY <1>1, AttemptFacts DEF Working, Founds, Inv, Boot
<1>3. \A b \in Attempts: attempt'[b] = IF b = a THEN Idle ELSE attempt[b]
  BY <1>1
<1>4. \A e \in Dialogs: e # D => dialog'[e] = dialog[e]
  BY <1>1
<1>5. /\ dialog'[D] \in DialogType
      /\ dialog'[D].page \notin {"identity", "oath", "pending"}
      /\ ~dialog'[D].open => dialog'[D] = Closed
      /\ dialog'[D].lockActive =>
           \/ dialog'[D].countdown > 0
           \/ r.form # "credentials" /\ dialog[D].lockActive
              /\ dialog'[D].countdown = dialog[D].countdown
  <2>1. dialog[D] \in DialogType /\ dialog[D].page \notin {"identity", "oath", "pending"}
        /\ r.form \in Forms /\ r.result \in [kind: Kinds, wait: Waits]
    BY <1>2 DEF First, AttemptType
  <2>2. CASE dialog[D].open
    <3>1. dialog'[D] = Shown(dialog[D], r.form, r.result)
      BY <1>1, <1>2, <2>2
    <3> QED
      BY <2>1, <2>2, <3>1, ShownFacts DEF First
  <2>3. CASE ~dialog[D].open
    <3>1. dialog'[D] = dialog[D] /\ dialog[D] = Closed
      BY <1>1, <1>2, <2>3 DEF Inv, Boot
    <3> QED
      BY <3>1, <2>1, IdleFacts DEF First
  <2> QED
    BY <2>2, <2>3
<1>6. \A e \in Dialogs: First(e)' = First(e)
  <2>1. \A e \in Dialogs: e # D => First(e)' = First(e)
    BY <1>4 DEF First
  <2> QED
    BY <1>2, <1>5, <2>1 DEF First
<1>7. \A b \in Attempts: Working(b)' = (b # a /\ Working(b)) /\ Founds(b)' = Founds(b)
  BY <1>2, <1>3, IdleFacts DEF Working, Founds
<1>8. Boot'
  <2>1. session' => ~needsBootstrap'
    BY <1>1 DEF Inv, Boot
  <2>2. \A e \in Dialogs: ~dialog'[e].open => dialog'[e] = Closed
    BY <1>4, <1>5 DEF Inv, Boot
  <2>3. \A b \in Attempts: Working(b)' => attempt'[b] = attempt[b] /\ attempt[b].dialog \in Dialogs
    BY <1>3, <1>7 DEF Inv, Boot
  <2>4. \A b \in Attempts: Founds(b)' => dialog'[attempt'[b].dialog].page = "pending"
    <3> SUFFICES ASSUME NEW b \in Attempts, Founds(b)
                 PROVE  dialog'[attempt'[b].dialog].page = "pending"
      BY <1>7
    <3>1. b # a /\ dialog[attempt[b].dialog].page = "pending" /\ attempt[b].dialog \in Dialogs
      BY <1>2 DEF Inv, Boot, Founds
    <3>2. attempt[b].dialog # D
      BY <1>2, <3>1 DEF First
    <3> QED
      BY <1>3, <1>4, <3>1, <3>2
  <2>5. \A b \in Attempts: Working(b)' /\ ~Founds(b)' => ~First(attempt[b].dialog)'
    BY <1>6, <1>7, <2>3 DEF Inv, Boot, First
  <2>6. \A d, e \in Dialogs: First(d)' /\ First(e)' => d = e
    BY <1>6 DEF Inv, Boot
  <2>7. \A b, c \in Attempts: Founds(b)' /\ Founds(c)' => b = c
    BY <1>7 DEF Inv, Boot
  <2>8. \A b \in Attempts: attempt'[b].stage \in {"memory", "insert"} => account' < Whole
    BY <1>1, <1>3, IdleFacts DEF Inv, Boot
  <2>9. \A b \in Attempts: Working(b)' => attempt'[b].dialog \in Dialogs
    BY <2>3
  <2> QED
    BY <1>1, <1>2, <2>1, <2>2, <2>4, <2>5, <2>6, <2>7, <2>8, <2>9 DEF Boot
<1>9. ScreenHeld'
  <2>1. \A b \in Attempts, e \in Dialogs, form \in Forms:
          b # a /\ Holds(b, e, form) => Holds(b, e, form)'
    BY <1>1, <1>3 DEF Holds
  <2>2. \A e \in Dialogs: e # D => ~Holds(a, e, "credentials") /\ ~Holds(a, e, "identity")
    BY DEF Holds
  <2>3. r.form # "credentials" => ~Holds(a, D, "credentials")
    BY DEF Holds
  <2>4. ASSUME NEW e \in Dialogs
        PROVE  /\ dialog'[e].lockActive =>
                    dialog'[e].countdown > 0 \/ \E b \in Attempts: Holds(b, e, "credentials")'
               /\ dialog'[e].page = "pending" => \E b \in Attempts: Holds(b, e, "identity")'
    <3>1. CASE e = D
      BY <1>5, <2>1, <2>3, <3>1 DEF Inv, ScreenHeld, Forms
    <3>2. CASE e # D
      BY <1>4, <2>1, <2>2, <3>2 DEF Inv, ScreenHeld, Forms
    <3> QED
      BY <3>1, <3>2
  <2> QED
    BY <2>4 DEF ScreenHeld
<1>10. LockInv'
  BY <1>1, IdleFacts, LockKept DEF Past
<1>11. ScreenType'
  <2>1. dialog' = [dialog EXCEPT ![D] = dialog'[D]]
    BY <1>1, <1>2
  <2>2. dialog' \in [Dialogs -> DialogType]
    BY <1>5, <2>1
  <2> QED
    BY <1>1, <2>2, ConstantTypes DEF ScreenType
<1>12. AllEarning'
  BY <1>1, <1>3, IdleFacts DEF Inv, AllEarning, Types, RowType
<1>13. session' \in BOOLEAN /\ needsBootstrap' \in BOOLEAN
  BY <1>1
<1>14. Remembered' /\ Types'
  BY <1>1, <1>11, <1>13 DEF Inv, Remembered, Types, RowType, ProcessType, CodeType
<1> QED
  BY <1>8, <1>9, <1>10, <1>12, <1>14 DEF Inv

----------------------------------------------------------------------------
(* The theorems.                                                             *)

LEMMA StutterKeeps ==
  ASSUME Inv, UNCHANGED vars
  PROVE  Inv'
<1>1. UNCHANGED <<account, totp, failed, age, up, loaded, session, needsBootstrap, dialog, attempt,
                 guard, spent, overrun>>
  BY DEF vars, rows, process, codes
<1>2. Types' /\ AllEarning' /\ Remembered' /\ PastCheck' = PastCheck
  BY <1>1 DEF Inv, Types, RowType, ProcessType, ScreenType, CodeType, AllEarning, Remembered, PastCheck
<1>3. Boot' /\ ScreenHeld'
  BY <1>1, MarksKeep
<1> QED
  BY <1>1, <1>2, <1>3, PastShrinks DEF Inv

LEMMA InvHolds == Spec => []Inv
<1>1. ASSUME Inv, [Next]_vars
      PROVE  Inv'
  <2>1. CASE UNCHANGED vars
    BY <1>1, <2>1, StutterKeeps
  <2>2. CASE Tick
    BY <1>1, <2>2, TickKeeps
  <2>3. CASE Stop
    BY <1>1, <2>3, StopKeeps
  <2>4. CASE EnableTotp \/ DisableTotp
    BY <1>1, <2>4, FactorKeeps
  <2>5. ASSUME NEW d \in Dialogs,
               Start(d) \/ SignOut(d) \/ BackToCredentials(d) \/ ShowPhrase(d)
        PROVE  Inv'
    BY <1>1, <2>5, StartKeeps, SignOutKeeps, PageKeeps
  <2>6. ASSUME NEW d \in Dialogs, NEW a \in Attempts, ConfirmPhrase(d, a)
        PROVE  Inv'
    BY <1>1, <2>6, ConfirmKeeps
  <2>7. ASSUME NEW d \in Dialogs, NEW a \in Attempts, NEW right \in BOOLEAN,
               \/ Submit(d, a, right)
               \/ \E c \in InTime \union {Wrong}: SubmitCode(d, a, right, c)
        PROVE  Inv'
    BY <1>1, <2>7, SubmitKeeps, SubmitCodeKeeps
  <2>8. ASSUME NEW a \in Attempts, Thread(a) \/ Fails(a)
        PROVE  Inv'
    BY <1>1, <2>8, QuietThreads, CodeThread, CountingThread DEF Thread
  <2>9. ASSUME NEW a \in Attempts, Screen(a)
        PROVE  Inv'
    BY <1>1, <2>9, DeliverKeeps, FoundedKeeps DEF Screen
  <2> QED
    BY <1>1, <2>1, <2>2, <2>3, <2>4, <2>5, <2>6, <2>7, <2>8, <2>9 DEF Next, User
<1> QED
  BY InitInv, <1>1, PTL DEF Spec

\* Rows, screens, threads and remembered codes keep their types.
THEOREM SignTypeCorrect == Spec => []TypeOK
<1>1. Inv => TypeOK
  BY TypesAreTypeOK DEF Inv
<1> QED
  BY <1>1, InvHolds, PTL

\* While the account is locked, the only failures still recorded are of
\* attempts that had passed the check before, one each (auth_policy_service
\* get_state, record_failed_attempt), for any number of attempts at once.
THEOREM LockThatHolds == Spec => []LockHolds
<1>1. Inv => LockHolds
  <2> SUFFICES ASSUME Inv PROVE LockHolds
    OBVIOUS
  <2>1. /\ Cardinality(Attempts) \in Nat /\ Cardinality(Attempts) # 0
        /\ Cardinality(PastCheck) \in Nat /\ overrun \in Nat
    BY SignInAssumption, FS_CardinalityType, FS_EmptySet, FS_Subset DEF PastCheck, Inv, Types
  <2> QED
    BY <2>1 DEF Inv, LockInv, LockHolds
<1> QED
  BY <1>1, InvHolds, PTL

\* A sign-in succeeds with the right password, and with an accepted code unless
\* the second factor was off at some time of the attempt (login_flow,
\* login_dialog core, totp_service verify_login_totp).
THEOREM SignInIsEarned == Spec => []SignInEarned
<1>1. Inv => SignInEarned
  BY DEF Inv, AllEarning, Earning, Earned, SignInEarned
<1> QED
  BY <1>1, InvHolds, PTL

\* A screen that takes no input is held by an attempt under way, by a countdown
\* or by the creation of the account (login_dialog core, lock_state,
\* bootstrap_flow), for any number of screens and threads.
THEOREM ScreensAreHeld == Spec => []ScreenHeld
<1>1. Inv => ScreenHeld
  BY DEF Inv
<1> QED
  BY <1>1, InvHolds, PTL

\* No process accepts a code twice while it is in time (totp_service
\* reject_replay_and_record), for any skew and any memory that covers it.
THEOREM CodesOpenOnce == Spec => CodeOpensOnce
<1>1. ASSUME Inv, NEW a \in Attempts, Accepts(a)
      PROVE  attempt[a].code \notin spent
  BY <1>1 DEF Inv, Remembered, Accepts
<1>2. Inv => \A a \in Attempts: Accepts(a) /\ attempt'[a].accepted => attempt[a].code \notin spent
  BY <1>1
<1> QED
  BY <1>2, InvHolds, PTL DEF CodeOpensOnce

-----------------------------------------------------------------------------
(* RateLimit: the limit of an address.                                     *)

\* The attempt that came d before the last one.
At(H, d) == H[Len(H) - d]
Places(H) == 0..Len(H) - 1
Rows == [attempts : Int, first_attempt_at : Int, locked_until : Int]

\* The counter of a row knows no more than its own window: the attempts before those it
\* counts are not later than its start, and those near the last one are few.
RowOK(H, row) ==
  /\ row \in Rows /\ row.attempts >= 1 /\ Len(H) > 0
  /\ row.locked_until = IF row.attempts >= max_attempts THEN At(H, 0) + lock_duration_secs ELSE -1
  /\ \A d \in Places(H) : d >= row.attempts - 1 => At(H, d) <= row.first_attempt_at
  /\ \A d \in Places(H) : At(H, 0) - At(H, d) < window_duration_secs =>
       IF row.attempts <= max_attempts
       THEN d <= row.attempts - 1 \/ d <= row.attempts + max_attempts - 3
       ELSE d = 0

Few(H) == \A d \in Places(H) : At(H, 0) - At(H, d) < window_duration_secs => d <= Run - 2
Good(H, row, prom, now) ==
  /\ H \in Seq(Nat) /\ prom \in Int
  /\ \A d \in Places(H) : At(H, d) <= At(H, 0)
  /\ Len(H) > 0 => At(H, 0) <= now
  /\ Few(H)
  /\ row # Gone => RowOK(H, row)
  /\ row = Gone /\ Len(H) > 0 => At(H, 0) + lock_duration_secs <= now
  /\ prom > now => row # Gone /\ row.locked_until >= prom

\* A call that is under way began after the last attempt that was counted, and what it
\* read is still so.
Calling(x, H, row, now) ==
  x.step \in {"read", "write"} =>
    /\ x.begun \in Nat /\ x.begun <= now
    /\ Len(H) > 0 => At(H, 0) <= x.begun
    /\ row = Gone /\ Len(H) > 0 => At(H, 0) + lock_duration_secs <= x.begun
    /\ x.step = "write" => x.seen = row /\ ~IsBlocked(row, x.begun)

LimitInv ==
  /\ instant \in Nat
  /\ caller = [c \in Callers |-> caller[c]]
  /\ ~raced => /\ Good(hits, address, promised, instant)
               /\ \A c \in Callers : Calling(caller[c], hits, address, instant)

-----------------------------------------------------------------------------

LEMMA PolicyIs ==
  /\ max_attempts \in Nat /\ max_attempts >= 1
  /\ window_duration_secs \in Nat /\ window_duration_secs >= 1
  /\ lock_duration_secs \in Nat /\ lock_duration_secs >= window_duration_secs
  /\ Run \in Nat /\ Run >= 2
  /\ Run - 2 >= max_attempts - 1 /\ Run - 2 >= max_attempts + max_attempts - 3
BY PolicyAssumption DEF Run

LEMMA Added ==
  ASSUME NEW H \in Seq(Nat), NEW t \in Nat
  PROVE  LET X == Latest(Append(H, t)) IN
         /\ X \in Seq(Nat) /\ Len(X) >= 1 /\ At(X, 0) = t
         /\ \A d \in Places(X) : d # 0 => d - 1 \in Places(H) /\ At(X, d) = At(H, d - 1)
<1>1. PICK n \in Nat : n = Len(H)
  BY LenProperties
<1>2. PICK A \in Seq(Nat) : A = Append(H, t)
  BY AppendProperties
<1>3. Len(A) = n + 1 /\ A[n + 1] = t /\ \A i \in 1..n : A[i] = H[i]
  BY <1>1, <1>2, AppendProperties
<1>4. PICK X : X = Latest(A)
  OBVIOUS
<1>5. PICK m \in Nat : /\ m = Len(X) /\ m >= 1 /\ m <= n + 1 /\ X \in Seq(Nat)
                       /\ \A i \in 1..m : X[i] = A[i + (n + 1 - m)]
  <2>1. CASE n + 1 > Run
    <3>1. X = Tail(A) /\ A # <<>> /\ n >= 1
      <4>1. X = Tail(A)
        BY <1>3, <1>4, <2>1 DEF Latest
      <4>2. n >= 1
        BY <2>1, PolicyIs
      <4>3. A # <<>>
        BY <1>3, EmptySeq
      <4> QED
        BY <4>1, <4>2, <4>3
    <3>2. X \in Seq(Nat) /\ Len(X) = n /\ \A i \in 1..n : X[i] = A[i + 1]
      BY <1>3, <3>1, HeadTailProperties
    <3> QED
      BY <3>1, <3>2
  <2>2. CASE ~(n + 1 > Run)
    <3>1. X = A
      BY <1>3, <1>4, <2>2 DEF Latest
    <3> QED
      BY <1>3, <3>1
  <2> QED
    BY <2>1, <2>2
<1>6. At(X, 0) = t
  <2>1. m \in 1..m /\ m + (n + 1 - m) = n + 1 /\ m - 0 = m
    BY <1>5
  <2>2. X[m] = A[m + (n + 1 - m)]
    BY <1>5, <2>1
  <2> QED
    BY <1>3, <1>5, <2>1, <2>2 DEF At
<1>7. ASSUME NEW d \in Places(X), d # 0
      PROVE  d - 1 \in Places(H) /\ At(X, d) = At(H, d - 1)
  <2>1. d \in 1..m - 1
    BY <1>5, <1>7 DEF Places
  <2>2. d - 1 \in 0..n - 1 /\ m - d \in 1..m /\ n - (d - 1) \in 1..n
        /\ (m - d) + (n + 1 - m) = n - (d - 1)
    BY <1>5, <2>1
  <2>3. X[m - d] = A[n - (d - 1)]
    BY <1>5, <2>2
  <2>4. A[n - (d - 1)] = H[n - (d - 1)]
    BY <1>3, <2>2
  <2> QED
    BY <1>1, <1>5, <2>2, <2>3, <2>4 DEF At, Places
<1> QED
  BY <1>2, <1>4, <1>5, <1>6, <1>7

\* One more attempt that met no lock.
LEMMA Counted_ ==
  ASSUME NEW H, NEW row, NEW prom, NEW now, Good(H, row, prom, now),
         NEW t \in Nat, ~IsBlocked(row, t),
         Len(H) > 0 => At(H, 0) <= t,
         row = Gone /\ Len(H) > 0 => At(H, 0) + lock_duration_secs <= t,
         NEW X, X = Latest(Append(H, t))
  PROVE  /\ X \in Seq(Nat) /\ Len(X) > 0 /\ At(X, 0) = t
         /\ \A d \in Places(X) : At(X, d) <= At(X, 0)
         /\ RowOK(X, Limited(row, t))
<1>1. H \in Seq(Nat) /\ Len(H) \in Nat /\ \A d \in Places(H) : At(H, d) <= At(H, 0)
  BY LenProperties DEF Good
<1>2. /\ X \in Seq(Nat) /\ Len(X) >= 1 /\ At(X, 0) = t
      /\ \A d \in Places(X) : d # 0 => d - 1 \in Places(H) /\ At(X, d) = At(H, d - 1)
  BY <1>1, Added
<1>3. \A d \in Places(H) : Len(H) > 0 /\ At(H, d) \in Nat
  <2> SUFFICES ASSUME NEW d \in Places(H) PROVE Len(H) > 0 /\ At(H, d) \in Nat
    OBVIOUS
  <2>1. PICK n \in Nat : n = Len(H)
    BY <1>1
  <2>2. n > 0 /\ n - d \in 1..n
    BY <2>1 DEF Places
  <2>3. H[n - d] \in Nat
    BY <1>1, <2>1, <2>2, ElementOfSeq
  <2> QED
    BY <2>1, <2>2, <2>3 DEF At
<1>4. \A d \in Places(H) : At(H, d) <= At(H, 0) /\ At(H, 0) <= t /\ 0 \in Places(H)
  <2>1. Len(H) > 0 => 0 \in Places(H)
    BY <1>1 DEF Places
  <2> QED
    BY <1>1, <1>3, <2>1
<1>5. \A d \in Places(X) : At(X, d) <= At(X, 0)
  <2> SUFFICES ASSUME NEW d \in Places(X) PROVE At(X, d) <= t
    BY <1>2
  <2>1. CASE d = 0
    BY <1>2, <2>1
  <2>2. CASE d # 0
    <3>1. d - 1 \in Places(H) /\ At(X, d) = At(H, d - 1)
      BY <1>2, <2>2
    <3>2. At(H, d - 1) <= At(H, 0) /\ At(H, 0) <= t /\ At(H, d - 1) \in Nat /\ At(H, 0) \in Nat
      BY <1>3, <1>4, <3>1
    <3> QED
      BY <3>1, <3>2
  <2> QED
    BY <2>1, <2>2
\* When the lock of the last attempt is over, no attempt is near.
<1>6. ASSUME Len(H) > 0 => At(H, 0) + lock_duration_secs <= t, NEW d \in Places(X), d # 0
      PROVE  ~(t - At(X, d) < window_duration_secs)
  <2>1. d - 1 \in Places(H) /\ At(X, d) = At(H, d - 1)
    BY <1>2, <1>6
  <2>2. /\ At(H, d - 1) <= At(H, 0) /\ At(H, d - 1) \in Nat /\ At(H, 0) \in Nat
        /\ At(H, 0) + lock_duration_secs <= t
    BY <1>3, <1>4, <1>6, <2>1
  <2> QED
    BY <2>1, <2>2, PolicyIs
<1>7. PICK a \in Int, f \in Int, l \in Int :
        /\ Limited(row, t) = [attempts |-> a, first_attempt_at |-> f, locked_until |-> l]
        /\ l = IF a >= max_attempts THEN t + lock_duration_secs ELSE -1
        /\ \/ (row = Gone \/ row.first_attempt_at < t - window_duration_secs) /\ a = 1 /\ f = t
           \/ /\ row # Gone /\ ~(row.first_attempt_at < t - window_duration_secs)
              /\ a = row.attempts + 1 /\ f = row.first_attempt_at
  <2>1. PICK count : count = Recount(row, t)
    OBVIOUS
  <2>2. PICK a, f : a = count.attempts /\ f = count.first_attempt_at
    OBVIOUS
  <2>3. /\ \/ (row = Gone \/ row.first_attempt_at < t - window_duration_secs) /\ a = 1 /\ f = t
           \/ /\ row # Gone /\ ~(row.first_attempt_at < t - window_duration_secs)
              /\ a = row.attempts + 1 /\ f = row.first_attempt_at
    BY <2>1, <2>2 DEF Recount
  <2>4. row # Gone => row.attempts \in Int /\ row.first_attempt_at \in Int
    BY DEF Good, RowOK, Rows
  <2>5. a \in Int /\ f \in Int
    BY <2>3, <2>4
  <2>6. PICK l : l = IF a >= max_attempts THEN t + lock_duration_secs ELSE -1
    OBVIOUS
  <2>7. l \in Int
    BY <2>6, PolicyIs
  <2>8. Limited(row, t) = [attempts |-> a, first_attempt_at |-> f, locked_until |-> l]
    BY <2>1, <2>2, <2>6 DEF Limited
  <2> QED
    BY <2>3, <2>5, <2>6, <2>7, <2>8
<1>8. PICK r : r = Limited(row, t) /\ r \in Rows /\ r.attempts = a /\ r.first_attempt_at = f
               /\ r.locked_until = l
  BY <1>7 DEF Rows
<1>9. ASSUME row # Gone
      PROVE  /\ row.attempts \in Int /\ row.attempts >= 1 /\ row.first_attempt_at \in Int
             /\ Len(H) > 0
             /\ \A d \in Places(H) : d >= row.attempts - 1 => At(H, d) <= row.first_attempt_at
             /\ \A d \in Places(H) : At(H, 0) - At(H, d) < window_duration_secs =>
                  IF row.attempts <= max_attempts
                  THEN d <= row.attempts - 1 \/ d <= row.attempts + max_attempts - 3
                  ELSE d = 0
             /\ row.attempts >= max_attempts => At(H, 0) + lock_duration_secs <= t
  <2>1. RowOK(H, row)
    BY <1>9 DEF Good
  <2>2. ASSUME row.attempts >= max_attempts PROVE At(H, 0) + lock_duration_secs <= t
    <3>1. row.locked_until = At(H, 0) + lock_duration_secs
      BY <2>1, <2>2 DEF RowOK
    <3>2. ~(row.locked_until > t) /\ row.locked_until \in Int
      BY <1>9, <2>1 DEF IsBlocked, RowOK, Rows
    <3> QED
      BY <3>1, <3>2
  <2> QED
    BY <2>1, <2>2 DEF RowOK, Rows
<1>10. \A d \in Places(X) : d >= a - 1 => At(X, d) <= f
  <2> SUFFICES ASSUME NEW d \in Places(X), d >= a - 1 PROVE At(X, d) <= f
    OBVIOUS
  <2>1. CASE a = 1 /\ f = t
    BY <1>2, <1>5, <2>1
  <2>2. CASE row # Gone /\ a = row.attempts + 1 /\ f = row.first_attempt_at
    <3>1. d \in Nat /\ d # 0 /\ d - 1 >= row.attempts - 1
      BY <1>9, <2>2 DEF Places
    <3>2. d - 1 \in Places(H) /\ At(X, d) = At(H, d - 1)
      BY <1>2, <3>1
    <3> QED
      BY <1>9, <2>2, <3>1, <3>2
  <2> QED
    BY <1>7, <2>1, <2>2
<1>11. ASSUME NEW d \in Places(X), t - At(X, d) < window_duration_secs
       PROVE  IF a <= max_attempts THEN d <= a - 1 \/ d <= a + max_attempts - 3 ELSE d = 0
  <2>1. d \in Nat
    BY DEF Places
  <2>2. CASE d = 0
    <3>1. a >= 1
      BY <1>7, <1>9
    <3> QED
      BY <2>2, <3>1
  <2>3. CASE d # 0
    <3>1. /\ d - 1 \in Places(H) /\ At(X, d) = At(H, d - 1) /\ Len(H) > 0
          /\ At(H, d - 1) \in Nat /\ At(H, 0) \in Nat /\ At(H, 0) <= t
      BY <1>2, <1>3, <1>4, <2>3
    <3>2. row # Gone /\ ~(row.attempts >= max_attempts)
      BY <1>6, <1>9, <1>11, <2>3
    <3>3. row.attempts \in Int /\ row.attempts >= 1 /\ row.attempts < max_attempts
      BY <1>9, <3>2, PolicyIs
    <3>4. CASE row.first_attempt_at < t - window_duration_secs
      <4>1. a = 1 /\ row.first_attempt_at \in Int
        BY <1>7, <1>9, <3>2, <3>4
      <4>2. d - 1 < row.attempts - 1
        <5> SUFFICES ASSUME d - 1 >= row.attempts - 1 PROVE FALSE
          BY <2>1, <3>3
        <5>1. At(H, d - 1) <= row.first_attempt_at
          BY <1>9, <3>1, <3>2
        <5> QED
          BY <1>11, <3>1, <3>4, <4>1, <5>1, PolicyIs
      <4> QED
        BY <2>1, <3>3, <4>1, <4>2, PolicyIs
    <3>5. CASE ~(row.first_attempt_at < t - window_duration_secs)
      <4>1. a = row.attempts + 1
        BY <1>7, <3>2, <3>5
      <4>2. At(H, 0) - At(H, d - 1) < window_duration_secs
        BY <1>11, <3>1, PolicyIs
      <4>3. d - 1 <= row.attempts - 1 \/ d - 1 <= row.attempts + max_attempts - 3
        BY <1>9, <3>1, <3>2, <3>3, <4>2, PolicyIs
      <4> QED
        BY <2>1, <3>3, <4>1, <4>3, PolicyIs
    <3> QED
      BY <3>4, <3>5
  <2> QED
    BY <2>2, <2>3
<1>12. a >= 1
  BY <1>7, <1>9
<1>13. RowOK(X, r)
  BY <1>2, <1>7, <1>8, <1>10, <1>11, <1>12 DEF RowOK
<1> QED
  BY <1>2, <1>5, <1>8, <1>13

LEMMA RowIsFew ==
  ASSUME NEW H, NEW row, RowOK(H, row)
  PROVE  Few(H)
<1> SUFFICES ASSUME NEW d \in Places(H), At(H, 0) - At(H, d) < window_duration_secs
             PROVE  d <= Run - 2
  BY DEF Few
<1>1. d \in Int /\ row.attempts \in Int
  BY DEF RowOK, Rows, Places
<1>2. IF row.attempts <= max_attempts
      THEN d <= row.attempts - 1 \/ d <= row.attempts + max_attempts - 3
      ELSE d = 0
  BY DEF RowOK
<1> QED
  BY <1>1, <1>2, PolicyIs

-----------------------------------------------------------------------------
(* The steps. *)

LEMMA WriteKeeps ==
  ASSUME LimitInv, NEW c \in Callers, WriteEntry(c)
  PROVE  LimitInv'
<1>1. /\ caller[c].step = "write" /\ raced' = (raced \/ Others(c)) /\ instant' = instant
      /\ caller' = [caller EXCEPT ![c] = Resting]
  BY DEF WriteEntry, EndCall
<1>2. /\ instant \in Nat /\ caller' = [d \in Callers |-> caller'[d]] /\ caller'[c] = Resting
      /\ \A d \in Callers \ {c} : caller'[d] = caller[d]
  BY <1>1 DEF LimitInv
<1> SUFFICES ASSUME ~raced, ~Others(c)
             PROVE  /\ Good(hits', address', promised', instant)
                    /\ \A d \in Callers : Calling(caller'[d], hits', address', instant)
  BY <1>1, <1>2 DEF LimitInv
<1>3. \A d \in Callers : Calling(caller'[d], hits', address', instant)
  BY <1>2 DEF Others, Calling, Resting
<1>4. Good(hits, address, promised, instant) /\ Calling(caller[c], hits, address, instant)
  BY DEF LimitInv
<1>5. PICK t \in Nat : t = caller[c].begun
  BY <1>1, <1>4 DEF Calling
<1>6. /\ t <= instant
      /\ (Len(hits) > 0 => At(hits, 0) <= t)
      /\ (address = Gone /\ Len(hits) > 0 => At(hits, 0) + lock_duration_secs <= t)
      /\ caller[c].seen = address
      /\ ~IsBlocked(address, t)
  BY <1>1, <1>4, <1>5 DEF Calling
<1>7. PICK r, X : r = Limited(address, t) /\ X = Latest(Append(hits, t))
  OBVIOUS
<1>8. /\ X \in Seq(Nat) /\ Len(X) > 0 /\ At(X, 0) = t
      /\ \A d \in Places(X) : At(X, d) <= At(X, 0)
      /\ RowOK(X, r)
  <2> HIDE DEF Good, RowOK, Places, Calling
  <2>1. Good(hits, address, promised, instant)
    BY <1>4
  <2> QED
    BY <1>6, <1>7, <2>1, Counted_
<1>9. Few(X) /\ r # Gone /\ r.locked_until \in Int
  BY <1>8, RowIsFew, GoneIsNoRow DEF RowOK, Rows
<1>10. CASE UNCHANGED <<address, hits, promised>>
  BY <1>3, <1>4, <1>10
<1>11. CASE ~UNCHANGED <<address, hits, promised>>
  <2>1. /\ address' = r /\ hits' = X
        /\ promised' = IF r.locked_until > promised THEN r.locked_until ELSE promised
    BY <1>1, <1>5, <1>6, <1>7, <1>11 DEF WriteEntry, Told
  <2>2. promised \in Int
    BY <1>4 DEF Good
  <2>3. promised' \in Int
    BY <1>9, <2>1, <2>2
  <2>4. ASSUME promised' > instant PROVE r.locked_until >= promised'
    <3>1. CASE r.locked_until > promised
      BY <1>9, <2>1, <3>1
    <3>2. CASE ~(r.locked_until > promised)
      <4>1. promised > instant
        BY <2>1, <2>4, <3>2
      <4>2. address # Gone /\ address.locked_until >= promised
        BY <1>4, <4>1 DEF Good
      <4>3. address.locked_until \in Int
        BY <1>4, <4>2 DEF Good, RowOK, Rows
      <4>4. address.locked_until > t
        BY <1>2, <1>6, <2>2, <4>1, <4>2, <4>3
      <4> QED
        BY <1>6, <4>2, <4>4 DEF IsBlocked
    <3> QED
      BY <3>1, <3>2
  <2>5. Good(X, r, promised', instant)
    BY <1>6, <1>8, <1>9, <2>3, <2>4 DEF Good
  <2> QED
    BY <1>3, <2>1, <2>5
<1> QED
  BY <1>10, <1>11

LEMMA LimitStep ==
  ASSUME LimitInv, [LimitNext]_limitVars
  PROVE  LimitInv'
<1>1. CASE Pass
  <2>1. /\ instant' = instant + 1 /\ instant \in Nat
        /\ UNCHANGED <<address, caller, hits, promised, raced>>
    BY <1>1 DEF Pass, LimitInv
  <2> SUFFICES ASSUME ~raced
               PROVE  /\ Good(hits, address, promised, instant + 1)
                      /\ \A c \in Callers : Calling(caller[c], hits, address, instant + 1)
    BY <2>1 DEF LimitInv
  <2>2. Good(hits, address, promised, instant) /\ \A c \in Callers : Calling(caller[c], hits, address, instant)
    BY DEF LimitInv
  <2>3. \A c \in Callers : Calling(caller[c], hits, address, instant + 1)
    BY <2>1, <2>2 DEF Calling
  <2>4. Len(hits) > 0 => At(hits, 0) \in Nat
    <3>1. hits \in Seq(Nat)
      BY <2>2 DEF Good
    <3>2. PICK n \in Nat : n = Len(hits)
      BY <3>1, LenProperties
    <3>3. n > 0 => hits[n] \in Nat
      BY <3>1, <3>2, ElementOfSeq
    <3>4. n - 0 = n
      OBVIOUS
    <3> QED
      BY <3>2, <3>3, <3>4 DEF At
  <2>5. Good(hits, address, promised, instant + 1)
    <3>1. Len(hits) > 0 => At(hits, 0) <= instant + 1
      BY <2>1, <2>2, <2>4 DEF Good
    <3>2. address = Gone /\ Len(hits) > 0 => At(hits, 0) + lock_duration_secs <= instant + 1
      BY <2>1, <2>2, <2>4, PolicyIs DEF Good
    <3>3. promised > instant + 1 => promised > instant
      BY <2>1, <2>2 DEF Good
    <3> QED
      BY <2>2, <3>1, <3>2, <3>3 DEF Good
  <2> QED
    BY <2>3, <2>5
<1>2. CASE \E c \in Callers : record_failed_attempt(c)
  <2>1. PICK c \in Callers : record_failed_attempt(c)
    BY <1>2
  <2>2. UNCHANGED <<instant, address, hits, promised, raced>> /\ instant \in Nat
    BY <2>1 DEF record_failed_attempt, LimitInv
  <2>3. CASE UNCHANGED caller
    BY <2>2, <2>3 DEF LimitInv
  <2>4. CASE caller' = [caller EXCEPT ![c] = [step |-> "read", begun |-> instant]]
    <3>1. PICK x : x = [step |-> "read", begun |-> instant]
      OBVIOUS
    <3>2. x.step = "read" /\ x.begun = instant
      BY <3>1
    <3>3. /\ caller' = [d \in Callers |-> caller'[d]] /\ caller'[c] = x
          /\ \A d \in Callers \ {c} : caller'[d] = caller[d]
      BY <2>4, <3>1 DEF LimitInv
    <3>4. ~raced => Calling(x, hits, address, instant)
      BY <2>2, <3>2 DEF LimitInv, Good, Calling
    <3> QED
      BY <2>2, <3>3, <3>4 DEF LimitInv
  <2> QED
    BY <2>1, <2>3, <2>4 DEF record_failed_attempt
<1>3. CASE \E c \in Callers : ReadEntry(c)
  <2>1. PICK c \in Callers : ReadEntry(c)
    BY <1>3
  <2>2. UNCHANGED <<instant, address, hits, promised, raced>> /\ caller[c].step = "read"
    BY <2>1 DEF ReadEntry
  <2>3. PICK x : /\ caller' = [caller EXCEPT ![c] = x]
                 /\ \/ x = Resting
                    \/ ~IsBlocked(address, caller[c].begun) /\ x = Attempt(caller[c].begun, address)
    BY <2>1 DEF ReadEntry, EndCall
  <2>4. /\ caller' = [d \in Callers |-> caller'[d]] /\ caller'[c] = x
        /\ \A d \in Callers \ {c} : caller'[d] = caller[d]
    BY <2>3 DEF LimitInv
  <2>5. ~raced => Calling(x, hits, address, instant)
    <3>1. CASE x = Resting
      BY <3>1 DEF Resting, Calling
    <3>2. CASE ~IsBlocked(address, caller[c].begun) /\ x = Attempt(caller[c].begun, address)
      <4>1. x.step = "write" /\ x.begun = caller[c].begun /\ x.seen = address
        BY <3>2 DEF Attempt
      <4>2. ~raced => Calling(caller[c], hits, address, instant)
        BY DEF LimitInv
      <4> QED
        BY <2>2, <3>2, <4>1, <4>2 DEF Calling
    <3> QED
      BY <2>3, <3>1, <3>2
  <2> QED
    BY <2>2, <2>4, <2>5 DEF LimitInv
<1>4. CASE \E c \in Callers : WriteEntry(c)
  BY <1>4, WriteKeeps
<1>5. CASE \E c \in Callers : reset_on_success(c)
  <2>1. PICK c \in Callers :
          /\ caller[c].step = "idle" /\ address' = Gone /\ hits' = <<>> /\ promised' = 0
          /\ raced' = Others(c) /\ UNCHANGED <<instant, caller>>
    BY <1>5 DEF reset_on_success
  <2>2. instant \in Nat /\ caller = [d \in Callers |-> caller[d]]
    BY DEF LimitInv
  <2>3. ~raced' => \A d \in Callers : caller[d].step \notin {"read", "write"}
    BY <2>1 DEF Others
  <2>4. Len(<<>>) = 0 /\ <<>> \in Seq(Nat)
    BY EmptySeq
  <2>5. Good(<<>>, Gone, 0, instant)
    BY <2>2, <2>4 DEF Good, Few, Places
  <2> QED
    BY <2>1, <2>2, <2>3, <2>5 DEF LimitInv, Calling
<1>6. CASE cleanup_expired
  <2>1. /\ address # Gone /\ address.locked_until # -1 /\ address.locked_until < instant
        /\ address' = Gone /\ UNCHANGED <<instant, caller, hits, promised>>
        /\ raced' = (raced \/ \E c \in Callers : caller[c].step \in {"read", "write"})
    BY <1>6 DEF cleanup_expired
  <2> SUFFICES ASSUME ~raced, \A c \in Callers : caller[c].step \notin {"read", "write"}
               PROVE  Good(hits, Gone, promised, instant)
    BY <2>1 DEF LimitInv, Calling
  <2>2. Good(hits, address, promised, instant) /\ RowOK(hits, address)
    BY <2>1 DEF LimitInv, Good
  <2>3. /\ address.locked_until \in Int /\ instant \in Nat /\ promised \in Int
        /\ address.locked_until = At(hits, 0) + lock_duration_secs
    BY <2>1, <2>2 DEF RowOK, Rows, Good, LimitInv
  <2>4. ~(promised > instant)
    BY <2>1, <2>2, <2>3 DEF Good
  <2>5. At(hits, 0) + lock_duration_secs <= instant
    BY <2>1, <2>3
  <2> QED
    BY <2>2, <2>4, <2>5 DEF Good
<1>7. CASE UNCHANGED limitVars
  <2>1. UNCHANGED <<instant, address, caller, hits, promised, raced>>
    BY <1>7 DEF limitVars
  <2> QED
    BY <2>1 DEF LimitInv
<1> QED
  BY <1>1, <1>2, <1>3, <1>4, <1>5, <1>6, <1>7 DEF LimitNext

LEMMA LimitStarts == LimitInit => LimitInv
<1> SUFFICES ASSUME LimitInit PROVE LimitInv
  OBVIOUS
<1>1. Len(<<>>) = 0 /\ <<>> \in Seq(Nat)
  BY EmptySeq
<1>2. Good(<<>>, Gone, 0, 0)
  BY <1>1 DEF Good, Few, Places
<1>3. \A c \in Callers : caller[c].step = "idle"
  BY DEF LimitInit, Resting
<1> QED
  BY <1>2, <1>3 DEF LimitInit, LimitInv, Calling

LEMMA LimitHolds == LimitInv => AddressHeld
<1> SUFFICES ASSUME LimitInv, ~raced PROVE AddressHeld
  BY DEF AddressHeld
<1>1. Good(hits, address, promised, instant) /\ instant \in Nat
  BY DEF LimitInv
<1>2. ASSUME Len(hits) = Run PROVE hits[Run] - hits[1] >= window_duration_secs
  <2>1. hits \in Seq(Nat) /\ Few(hits)
    BY <1>1 DEF Good
  <2>2. hits[Run] \in Nat /\ hits[1] \in Nat
    BY <1>2, <2>1, PolicyIs, ElementOfSeq
  <2>3. Run - 1 \in Places(hits) /\ 0 \in Places(hits)
    BY <1>2, PolicyIs DEF Places
  <2>4. At(hits, 0) = hits[Run] /\ At(hits, Run - 1) = hits[1]
    <3>1. Run - 0 = Run /\ Run - (Run - 1) = 1
      BY PolicyIs
    <3> QED
      BY <1>2, <3>1 DEF At
  <2>5. ~(Run - 1 <= Run - 2)
    BY PolicyIs
  <2>6. ~(At(hits, 0) - At(hits, Run - 1) < window_duration_secs)
    BY <2>1, <2>3, <2>5 DEF Few
  <2> QED
    BY <2>2, <2>4, <2>6, PolicyIs
<1>3. ASSUME promised > instant PROVE check_combined_rate_limit
  <2>1. address # Gone /\ address.locked_until >= promised /\ RowOK(hits, address)
    BY <1>1, <1>3 DEF Good
  <2>2. address.locked_until \in Int /\ promised \in Int
    BY <1>1, <2>1 DEF RowOK, Rows, Good
  <2>3. address.locked_until > instant
    BY <1>1, <1>3, <2>1, <2>2
  <2> QED
    BY <2>1, <2>3 DEF check_combined_rate_limit, IsBlocked
<1> QED
  BY <1>2, <1>3 DEF AddressHeld

THEOREM AddressLimit == LimitSpec => []AddressHeld
<1>1. LimitInit => LimitInv
  BY LimitStarts
<1>2. LimitInv /\ [LimitNext]_limitVars => LimitInv'
  BY LimitStep
<1>3. LimitInv => AddressHeld
  BY LimitHolds
<1> QED
  BY <1>1, <1>2, <1>3, PTL DEF LimitSpec

=============================================================================
