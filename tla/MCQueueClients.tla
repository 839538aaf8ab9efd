--------------------------- MODULE MCQueueClients ---------------------------
(***************************************************************************)
(* Clients of one queue, the first of them the data consumer.              *)
(***************************************************************************)
EXTENDS QueueClients

=============================================================================
