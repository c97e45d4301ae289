--------------------------- MODULE MCAccountRekey ---------------------------
(* Instances of AccountRekey for TLC: interchangeable threads, vaults,       *)
(* passwords and keys.                                                       *)
EXTENDS AccountRekey, TLC

Symmetry ==
  Permutations(Rekeyers) \union Permutations(Writers)
    \union Permutations(Vaults \ SharedVaults) \union Permutations(Passwords)
    \union Permutations(Keys)
=============================================================================
