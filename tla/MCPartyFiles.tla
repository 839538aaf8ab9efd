---------------------------- MODULE MCPartyFiles ----------------------------
(***************************************************************************)
(* Handlers of the parties in a few sessions, with directories of their    *)
(* own or with one for all.                                                *)
(***************************************************************************)
EXTENDS PartyFiles, TLC

Symmetry == Permutations(Parties)
=============================================================================
