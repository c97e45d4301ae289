-------------------------- MODULE MCSecretLifecycle --------------------------
(* Instances of SecretLifecycle for TLC: interchangeable secrets, texts and  *)
(* threads; vaults are told apart by their names.                            *)
EXTENDS SecretLifecycle, TLC

\* A vault of the user before one of others that the user administers, the
\* other way round, two of the user's own.
V1 == {1}
V2 == {2}
V12 == {1, 2}

Symmetry ==
  Permutations(Secrets) \union Permutations(Texts) \union Permutations(Savers)
=============================================================================
