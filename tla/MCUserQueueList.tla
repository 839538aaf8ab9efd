--------------------------- MODULE MCUserQueueList ---------------------------
(***************************************************************************)
(* Four access keys, three places, and objects for a full list and for the *)
(* one the tail may still refer to.                                        *)
(***************************************************************************)
EXTENDS UserQueueList

=============================================================================
