----------------------------- MODULE RateLimit -----------------------------
(***************************************************************************)
(* The limit on sign-in attempts of one network address                    *)
(* (ip_rate_limit_repository.rs) and the service that joins it to the      *)
(* limit of the user name (ip_rate_limit_service.rs).  The core library    *)
(* offers both; the desktop application calls neither.                     *)
(*                                                                         *)
(* An address has at most one row.  An attempt is counted by a SELECT and, *)
(* after it, an UPDATE or an INSERT: calls for one address may come        *)
(* between.  Of the counter of the user name, which is in SignIn, only its *)
(* errors matter here.                                                     *)
(***************************************************************************)
EXTENDS Integers, Sequences

CONSTANTS
    Callers,            \* calls of the service that may be under way at once
    max_attempts, lock_duration_secs, window_duration_secs,
    Gone,               \* no row, no time
    MaxInstant          \* bound on the clock

ASSUME PolicyAssumption ==
    /\ max_attempts \in Nat \ {0}
    /\ window_duration_secs \in Nat \ {0}
    /\ lock_duration_secs \in Nat /\ lock_duration_secs >= window_duration_secs
    /\ Gone \notin Int
ASSUME ClockAssumption == MaxInstant \in Nat
ASSUME GoneIsNoRow ==
    Gone \notin [attempts : Int, first_attempt_at : Int, locked_until : Int]

VARIABLES
    instant,    \* the clock
    address,    \* the row of the address in login_attempts_ip
    caller,     \* the calls
    hits,       \* the times of the last attempts that met no lock, none once raced
    promised,   \* the latest time until which an answer said the address is blocked
    raced       \* calls for the address overlapped since its last reset

limitVars == <<instant, address, caller, hits, promised, raced>>

Resting == [step |-> "idle"]
Attempt(begun, seen) == [step |-> "write", begun |-> begun, seen |-> seen]

\* The longest run of attempts that matters: two, when the first one locks.
Run == IF max_attempts = 1 THEN 2 ELSE 2 * max_attempts - 1
Latest(times) == IF Len(times) > Run THEN Tail(times) ELSE times

-----------------------------------------------------------------------------

IsBlocked(row, t) == row # Gone /\ row.locked_until > t

\* A window that is over starts again with this attempt.
Recount(row, t) ==
    IF row = Gone \/ row.first_attempt_at < t - window_duration_secs
    THEN [attempts |-> 1, first_attempt_at |-> t]
    ELSE [attempts |-> row.attempts + 1, first_attempt_at |-> row.first_attempt_at]

\* No lock is a time before every other.
Limited_OffByOne(row, t) ==
    LET count == Recount(row, t)
    IN  [attempts |-> count.attempts, first_attempt_at |-> count.first_attempt_at,
         locked_until |-> IF count.attempts > max_attempts THEN t + lock_duration_secs ELSE -1]
Limited(row, t) ==
    LET count == Recount(row, t)
    IN  [attempts |-> count.attempts, first_attempt_at |-> count.first_attempt_at,
         locked_until |-> IF count.attempts >= max_attempts THEN t + lock_duration_secs ELSE -1]

-----------------------------------------------------------------------------

LimitInit ==
    /\ instant = 0
    /\ address = Gone
    /\ caller = [c \in Callers |-> Resting]
    /\ hits = <<>>
    /\ promised = 0
    /\ raced = FALSE

Others(c) == \E d \in Callers \ {c} : caller[d].step \in {"read", "write"}
EndCall(c) == caller' = [caller EXCEPT ![c] = Resting]

Pass ==
    /\ instant < MaxInstant
    /\ instant' = instant + 1
    /\ UNCHANGED <<address, caller, hits, promised, raced>>

\* record_failed_attempt of the service: the user name first; its error is the answer.
record_failed_attempt(c) ==
    /\ caller[c].step = "idle"
    /\ \/ caller' = [caller EXCEPT ![c] = [step |-> "read", begun |-> instant]]
       \/ UNCHANGED caller
    /\ UNCHANGED <<instant, address, hits, promised, raced>>

\* record_attempt: the row; an address that is blocked is answered at once.
ReadEntry(c) ==
    /\ caller[c].step = "read"
    /\ IF IsBlocked(address, caller[c].begun)
       THEN EndCall(c)
       ELSE \/ caller' = [caller EXCEPT ![c] = Attempt(caller[c].begun, address)]
            \/ EndCall(c)     \* storage error
    /\ UNCHANGED <<instant, address, hits, promised, raced>>

\* Then the statement: an UPDATE finds the row or does nothing, an INSERT finds
\* none or fails.
Told(c, row) ==
    /\ hits' = IF raced' THEN <<>> ELSE Latest(Append(hits, caller[c].begun))
    /\ promised' = IF raced' THEN 0
                   ELSE IF row.locked_until > promised THEN row.locked_until ELSE promised
WriteEntry(c) ==
    LET row == Limited(caller[c].seen, caller[c].begun)
    IN  /\ caller[c].step = "write"
        /\ raced' = (raced \/ Others(c))
        /\ \/ /\ caller[c].seen # Gone
              /\ address' = IF address = Gone THEN Gone ELSE row
              /\ Told(c, row)
           \/ /\ caller[c].seen = Gone /\ address = Gone
              /\ address' = row
              /\ Told(c, row)
           \/ UNCHANGED <<address, hits, promised>>     \* a row in the way, a storage error
        /\ EndCall(c)
        /\ UNCHANGED instant

\* reset_on_success: the user name, then the row; an error of the first leaves the row.
reset_on_success(c) ==
    /\ caller[c].step = "idle"
    /\ address' = Gone /\ hits' = <<>> /\ promised' = 0
    /\ raced' = Others(c)
    /\ UNCHANGED <<instant, caller>>

\* Rows whose lock is over; a row that never had a lock stays.
cleanup_expired ==
    /\ address # Gone /\ address.locked_until # -1 /\ address.locked_until < instant
    /\ address' = Gone
    /\ raced' = (raced \/ \E c \in Callers : caller[c].step \in {"read", "write"})
    /\ UNCHANGED <<instant, caller, hits, promised>>

\* CombinedRateLimitPolicy::is_locked, of a user name that is not locked itself.
check_combined_rate_limit == IsBlocked(address, instant)

LimitNext ==
    \/ Pass
    \/ \E c \in Callers : \/ record_failed_attempt(c) \/ ReadEntry(c) \/ WriteEntry(c)
                          \/ reset_on_success(c)
    \/ cleanup_expired

LimitSpec == LimitInit /\ [][LimitNext]_limitVars

-----------------------------------------------------------------------------
(* Properties. *)

\* While calls for the address do not overlap: no window, wherever it begins,
\* holds Run attempts, though the counter restarts with each window of its own,
\* and an address said to be blocked is found so by every check until the time
\* said, whatever expires or is cleaned up meanwhile
\* (ip_rate_limit_repository.rs:138).
AddressHeld ==
    ~raced =>
        /\ Len(hits) = Run => hits[Run] - hits[1] >= window_duration_secs
        /\ promised > instant => check_combined_rate_limit

=============================================================================
