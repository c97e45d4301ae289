---------------------------- MODULE ProfileParts ---------------------------
(***************************************************************************)
(* What surrounds the vaults, side by side: UpdateCheck, UrlCheck,         *)
(* CsvImport, the two halves of the profile page, ProfileForm and          *)
(* TwoFactor, and VaultAccess, with what several of them promise together. *)
(***************************************************************************)
EXTENDS UpdateCheck, UrlCheck, CsvImport, ProfileForm, TwoFactor, VaultAccess

\* A check that is shown is alive, its result is of what is on screen, and what was
\* contacted was agreed to and public.
ChecksTrue == CheckingIsAlive /\ ResultOfText /\ OnlyPublic

\* What vouches for someone is earned: the address of an account changes with the
\* password, its second factor with a code of the very secret that is stored, and
\* the vault service answers by the rights the tables gave while it ran.
AccountEarned == EmailEarned /\ StoredWasProved /\ AccessEarned

\* With nothing under way and nothing overlapped, the profile page shows what is
\* stored, in the form and in the section of the second factor.
PageTrue == FormTrue /\ TwoFactorShown

\* Whatever the user waits for ends: a check for updates, a check of a URL, an
\* import and its progress dialog.
ProfileEnds == CheckEnds /\ UrlEnds /\ ImportEnds

=============================================================================
