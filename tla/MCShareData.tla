----------------------------- MODULE MCShareData -----------------------------
(***************************************************************************)
(* Clients of different accounts share data with two parties.              *)
(***************************************************************************)
EXTENDS ShareData, TLC

CONSTANTS c1, c2, c3

\* Accounts: each client its own, or c1 and c2 the same.
OwnUid(c) == c
SharedUid(c) == IF c = c2 THEN c1 ELSE c

Symmetry == Permutations(Clients) \cup Permutations(Parties)
=============================================================================
