----------------------------- MODULE MCQueryData -----------------------------
(***************************************************************************)
(* Clients who share and one who queries, with two parties.                *)
(***************************************************************************)
EXTENDS QueryData, TLC

CONSTANTS c1, c2, c3

OwnUid(c) == c

Symmetry == Permutations(Clients) \cup Permutations(Parties)
=============================================================================
