---------------------------- MODULE AccountAccess ---------------------------
(***************************************************************************)
(* What the owner of an account is promised, whatever the key hierarchy    *)
(* underneath: one password is in force, it opens a set of vaults and it   *)
(* reads the second factor if there is one.  Changing the password changes *)
(* nothing else; vaults are only gained by creating them and only lost     *)
(* when their owner takes a share back.                                    *)
(***************************************************************************)
CONSTANTS Passwords, Vaults, SharedVaults

VARIABLES
  password,      \* the password that signs in after a restart
  opens,         \* vaults whose key it yields, in the trash or not
  secondFactor   \* does the key it yields read the TOTP secret?

vars == <<password, opens, secondFactor>>

Init ==
  /\ password \in Passwords
  /\ opens \in SUBSET Vaults
  /\ secondFactor \in BOOLEAN

ChangePassword ==
  /\ password' \in Passwords
  /\ UNCHANGED <<opens, secondFactor>>

CreateVault(v) ==
  /\ v \notin opens
  /\ opens' = opens \union {v}
  /\ UNCHANGED <<password, secondFactor>>

LoseShare(v) ==
  /\ v \in SharedVaults
  /\ opens' = opens \ {v}
  /\ UNCHANGED <<password, secondFactor>>

SetSecondFactor ==
  /\ secondFactor' \in BOOLEAN
  /\ UNCHANGED <<password, opens>>

Next ==
  \/ ChangePassword
  \/ \E v \in Vaults : CreateVault(v) \/ LoseShare(v)
  \/ SetSecondFactor

Spec == Init /\ [][Next]_vars
=============================================================================
