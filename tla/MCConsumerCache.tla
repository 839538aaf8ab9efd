--------------------------- MODULE MCConsumerCache ---------------------------
(***************************************************************************)
(* Two browsers, two shares, and queries that may fail.                    *)
(***************************************************************************)
EXTENDS ConsumerCache

=============================================================================
