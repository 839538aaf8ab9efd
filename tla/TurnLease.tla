------------------------------ MODULE TurnLease ------------------------------
(***************************************************************************)
(* What the user queue of the coordination server promises to the rest of  *)
(* the system, without the queue: at any moment at most one user has the   *)
(* turn, it proves it with a computation key, and a key that has lost the  *)
(* turn never gets it back.                                                *)
(***************************************************************************)
EXTENDS Naturals

CONSTANTS Holders,  \* those who may be given the turn
          NoTurn    \* nobody has it

VARIABLES turn,     \* who has the turn, with the key that proves it
          granted   \* how many keys were ever handed out

leaseVars == <<turn, granted>>

LeaseTypeOK == /\ turn \in [holder : Holders, key : 1 .. granted] \cup {NoTurn}
               /\ granted \in Nat

LeaseInit == turn = NoTurn /\ granted = 0

\* The turn goes to h, straight from its last holder or when nobody had it,
\* and always under a key that was never used before.
Grant(h) == /\ granted' = granted + 1
            /\ turn' = [holder |-> h, key |-> granted']

End == turn' = NoTurn /\ UNCHANGED granted

LeaseNext == End \/ \E h \in Holders : Grant(h)

LeaseSpec == LeaseInit /\ [][LeaseNext]_leaseVars
=============================================================================
