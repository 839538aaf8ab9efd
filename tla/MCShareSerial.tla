---------------------------- MODULE MCShareSerial ----------------------------
(***************************************************************************)
(* Clients of different accounts, of sessions that may have overlapped.    *)
(***************************************************************************)
EXTENDS MCShareData, ShareSerial

=============================================================================
