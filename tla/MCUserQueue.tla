----------------------------- MODULE MCUserQueue -----------------------------
(***************************************************************************)
(* Four access keys compete for three places.                              *)
(***************************************************************************)
EXTENDS UserQueue

=============================================================================
