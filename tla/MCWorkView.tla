----------------------------- MODULE MCWorkView -----------------------------
(* A small instance of WorkView for TLC: an account without a vault, or with *)
(* two; a third vault can be created.                                        *)
EXTENDS WorkView

CONSTANTS v1, v2, v3

MCVaults == {v1, v2, v3}
MCStored == {<<>>, <<v1, v2>>}

=============================================================================
