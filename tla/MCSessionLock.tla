---------------------------- MODULE MCSessionLock ---------------------------
(* Instances of SessionLock for TLC.                                         *)
EXTENDS SessionLock, TLC

Symmetry ==
  Permutations(Windows) \union Permutations(Keys)
    \union Permutations(Updaters) \union Permutations(Changers)
=============================================================================
