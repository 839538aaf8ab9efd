----------------------------- MODULE ShareSerial -----------------------------
(***************************************************************************)
(* Sharing with lost connections and servers that die, and a history       *)
(* variable: have the parties ever had work of two sessions at a time?     *)
(***************************************************************************)
EXTENDS ShareData

VARIABLE overlapped

serialVars == <<shareVars, overlapped>>

Busy(c) == \E p \in Parties : handler[p][c] \in Alive

SerialInit == ShareInit /\ overlapped = FALSE

SerialNext ==
  /\ ShareNext
  /\ overlapped' = (overlapped \/ \E c, d \in Clients : c # d /\ Busy(c)' /\ Busy(d)')

SerialSpec == SerialInit /\ [][SerialNext]_serialVars /\ Fairness

\* Lost POSTs, dead parties and restarts of the server do no harm to what was
\* recorded, as long as the handlers of one session have ended before those of
\* the next begin: the unrecorded share which a dead party keeps in its file is
\* overwritten by the next provider of that index, and no rollback to a file
\* that holds it reaches below the index.
SerialSessionsKeepShares == ~overlapped => RecordedSharesPresent
=============================================================================
