---------------------------- MODULE SecretPromise ----------------------------
(* What a user is promised about secrets: a secret says what was last saved  *)
(* in it, whichever vault it is in, also in the trash and once it came back; *)
(* only what is in the trash is destroyed, and nothing is destroyed twice.   *)
CONSTANTS
  Secrets,
  Texts,      \* what a secret can say
  Nothing     \* what one that is not kept says

VARIABLES
  state,      \* where each secret is in its life
  text        \* what each secret says

promise == <<state, text>>

Init ==
  /\ state \in [Secrets -> {"absent", "live", "trashed", "purged"}]
  /\ text \in [Secrets -> Texts \union {Nothing}]

\* Only a save changes what a secret says, and only of a live or new one.
Save(s) ==
  /\ state[s] \in {"absent", "live"}
  /\ state' = [state EXCEPT ![s] = "live"]
  /\ \E new \in Texts : text' = [text EXCEPT ![s] = new]

\* One secret, or all those of a vault, change their place in life together.
Advance(S, from, to) ==
  /\ \A s \in S : state[s] = from
  /\ state' = [s \in Secrets |-> IF s \in S THEN to ELSE state[s]]

Trash(S) == Advance(S, "live", "trashed") /\ UNCHANGED text

Restore(S) == Advance(S, "trashed", "live") /\ UNCHANGED text

Purge(S) ==
  /\ Advance(S, "trashed", "purged")
  /\ text' = [s \in Secrets |-> IF s \in S THEN Nothing ELSE text[s]]

Next ==
  \/ \E s \in Secrets : Save(s)
  \/ \E S \in SUBSET Secrets : Trash(S) \/ Restore(S) \/ Purge(S)

Spec == Init /\ [][Next]_promise
=============================================================================
