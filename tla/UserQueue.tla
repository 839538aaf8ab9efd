------------------------------ MODULE UserQueue ------------------------------
(***************************************************************************)
(* The queue of users waiting for their turn at the MPC parties, kept in   *)
(* memory by the coordination server (coordination_server/user_queue.py).  *)
(* Every handler that touches it is an "async def" without an await in     *)
(* between, so each operation below is one step of the event loop.         *)
(*                                                                         *)
(* The linked list of User objects is the sequence users; UserQueueList    *)
(* has the pointers and implements this module.  Only the age of a turn,   *)
(* now - _time_at_queue_head, is ever used, so users carry the age.        *)
(***************************************************************************)
EXTENDS Naturals, Sequences

CONSTANTS AccessKeys,   \* names under which users enter the queue
          MaxSize,      \* settings.user_queue_size
          HeadTimeout,  \* settings.user_queue_head_timeout
          MaxKeys,      \* bound: how many computation keys are handed out
          None          \* Python's None

ASSUME QueueAssumption == /\ MaxSize \in Nat \ {0}
                          /\ HeadTimeout \in Nat
                          /\ MaxKeys \in Nat
                          /\ None \notin Nat

VARIABLES users,           \* users_head, users_tail, users_len and User.next
          user_positions,  \* access key -> position, None when not a key of it
          issued           \* how many computation keys were handed out

queueVars == <<users, user_positions, issued>>

\* A computation key is named by the order in which it was drawn: the tokens
\* of secrets.token_urlsafe never repeat.
User == [access_key : AccessKeys,
         computation_key : Nat \cup {None},
         age : (0 .. HeadTimeout + 1) \cup {None}]

QueueTypeOK == /\ users \in Seq(User)
               /\ user_positions \in [AccessKeys -> Nat \cup {None}]
               /\ issued \in Nat

-----------------------------------------------------------------------------
NewUser(ak) == [access_key |-> ak, computation_key |-> None, age |-> None]

Pop(us) == Tail(us)

\* Mutant: the priority user takes the head itself.
InsertFirst(us, u) == <<u>> \o us

\* A priority user goes behind the user whose turn it is, before all others.
InsertSecond(us, u) ==
  [i \in 1 .. Len(us) + 1 |-> IF us = <<>> \/ i = 2 THEN u
                              ELSE IF i = 1 THEN us[1] ELSE us[i - 1]]

\* A later user with the same access key overwrites an earlier one.
PositionMap(us) ==
  [ak \in AccessKeys |->
     IF \E i \in DOMAIN us : us[i].access_key = ak
     THEN (CHOOSE i \in DOMAIN us :
             /\ us[i].access_key = ak
             /\ \A j \in DOMAIN us : us[j].access_key = ak => j <= i) - 1
     ELSE None]

NeedsHeadData(us) == us # <<>> /\ us[1].age = None

\* Mutant: one key for all.
SetQueueHeadSameKey(us) ==
  /\ users' = IF NeedsHeadData(us)
              THEN [us EXCEPT ![1] = [@ EXCEPT !.age = 0, !.computation_key = 1]]
              ELSE us
  /\ issued' = IF NeedsHeadData(us) THEN issued + 1 ELSE issued

\* The list becomes us; a user who has just come to its head gets a new key
\* and its time starts to run.
SetQueueHeadData(us) ==
  /\ users' = IF NeedsHeadData(us)
              THEN [us EXCEPT ![1] = [@ EXCEPT !.age = 0, !.computation_key = issued + 1]]
              ELSE us
  /\ issued' = IF NeedsHeadData(us) THEN issued + 1 ELSE issued

-----------------------------------------------------------------------------
\* Mutant: full one user too late.
AddResultLate(ak) == IF Len(users) > MaxSize THEN "QUEUE_IS_FULL"
                     ELSE IF user_positions[ak] # None THEN "ALREADY_IN_QUEUE"
                     ELSE "SUCCEEDED"

\* Mutant: the dictionary is not asked.
AddResultUnchecked(ak) == IF Len(users) = MaxSize THEN "QUEUE_IS_FULL" ELSE "SUCCEEDED"

AddResult(ak) == IF Len(users) = MaxSize THEN "QUEUE_IS_FULL"
                 ELSE IF user_positions[ak] # None THEN "ALREADY_IN_QUEUE"
                 ELSE "SUCCEEDED"

\* Bound: no user enters that could not be given a key.
KeysLeft == issued + Len(users) < MaxKeys

add_user(ak) ==
  /\ KeysLeft /\ AddResult(ak) = "SUCCEEDED"
  /\ SetQueueHeadData(Append(users, NewUser(ak)))
  /\ user_positions' = [user_positions EXCEPT ![ak] = Len(users)]

\* Mutant: the others keep their positions.
add_priority_user_no_shift(ak) ==
  /\ KeysLeft /\ AddResult(ak) = "SUCCEEDED"
  /\ SetQueueHeadData(InsertSecond(users, NewUser(ak)))
  /\ user_positions' = [user_positions EXCEPT ![ak] = IF users = <<>> THEN 0 ELSE 1]

add_priority_user(ak) ==
  /\ KeysLeft /\ AddResult(ak) = "SUCCEEDED"
  /\ SetQueueHeadData(InsertSecond(users, NewUser(ak)))
  /\ user_positions' =
       [a \in AccessKeys |->
          IF a = ak THEN IF users = <<>> THEN 0 ELSE 1
          ELSE IF user_positions[a] \notin {None, 0} THEN user_positions[a] + 1
          ELSE user_positions[a]]

\* Mutants: a turn that lasts one unit less, or one more.
HeadExpiresEarly == users # <<>> /\ users[1].age # None /\ users[1].age >= HeadTimeout
HeadExpiresLate == users # <<>> /\ users[1].age # None /\ users[1].age > HeadTimeout + 1

HeadExpired == /\ users # <<>>
               /\ users[1].age # None
               /\ users[1].age > HeadTimeout

\* Mutant: the next user's turn begins only when it asks.
PopHeadOnly == /\ users' = Pop(users) /\ UNCHANGED issued
               /\ user_positions' = PositionMap(Pop(users))

PopHead == /\ SetQueueHeadData(Pop(users))
           /\ user_positions' = PositionMap(Pop(users))

\* Mutant: the head stays until it finishes.
timeout_head_user_missing == UNCHANGED queueVars

timeout_head_user == IF HeadExpired THEN PopHead ELSE UNCHANGED queueVars

\* The two reads that first evict a user whose turn has lasted too long.
validate_computation_key == timeout_head_user

get_computation_key(ak) ==
  \/ HeadExpired /\ timeout_head_user
  \/ /\ ~HeadExpired
     /\ IF user_positions[ak] = 0 THEN SetQueueHeadData(users)
                                  ELSE UNCHANGED <<users, issued>>
     /\ UNCHANGED user_positions

\* What the reads return; a handler takes them after the eviction.
KeyOf(ak) == IF user_positions[ak] = 0 THEN users[1].computation_key ELSE None
KeyIsValid(ak, key) == user_positions[ak] = 0 /\ users[1].computation_key = key

\* Mutant: whoever calls ends the turn of the head.
finish_computation_unchecked(ak, key) == users # <<>> /\ PopHead

finish_computation(ak, key) == KeyIsValid(ak, key) /\ PopHead

Tick == /\ users # <<>> /\ ~HeadExpired /\ users[1].age # None
        /\ users' = [users EXCEPT ![1] = [@ EXCEPT !.age = users[1].age + 1]]
        /\ UNCHANGED <<user_positions, issued>>

\* A restarted server begins with an empty queue; no old token is drawn again.
Restart == /\ users' = <<>>
           /\ user_positions' = [ak \in AccessKeys |-> None]
           /\ UNCHANGED issued

-----------------------------------------------------------------------------
QueueInit == /\ users = <<>>
             /\ user_positions = [ak \in AccessKeys |-> None]
             /\ issued = 0

QueueNext == \/ \E ak \in AccessKeys : \/ add_user(ak)
                                       \/ add_priority_user(ak)
                                       \/ get_computation_key(ak)
                                       \/ \E key \in 1 .. issued : finish_computation(ak, key)
             \/ validate_computation_key
             \/ Tick
             \/ Restart

QueueSpec == QueueInit /\ [][QueueNext]_queueVars

-----------------------------------------------------------------------------
(***************************************************************************)
(* Properties.                                                             *)
(***************************************************************************)

\* Nobody waits twice: the list never holds two users of one access key,
\* although add_user only asks the dictionary, under a lock it gives up.
NoDuplicates == \A i, j \in DOMAIN users :
                  users[i].access_key = users[j].access_key => i = j

\* The dictionary that add, pop and shift each maintain in their own way
\* always says what the list says.
PositionsAgree == user_positions = PositionMap(users)

\* The queue never holds more than user_queue_size users: nothing between the
\* check under the read lock and the insertion lets a second one in.
Bounded == Len(users) <= MaxSize

\* The user at the head, and no other, has a running turn; its key is the last
\* one that was drawn, so that every older key has lost its force.
OnlyHeadHasTurn ==
  \A i \in DOMAIN users :
    /\ users[i].age # None <=> i = 1
    /\ users[i].computation_key = IF i = 1 THEN issued ELSE None

QueueInv == /\ NoDuplicates
            /\ PositionsAgree
            /\ Bounded
            /\ OnlyHeadHasTurn

\* No step lets one waiting user overtake another, and the user whose turn it
\* is keeps the head until it leaves: a priority user passes all but the head.
Index(us, ak) == CHOOSE i \in DOMAIN us : us[i].access_key = ak
Waiting(us) == {us[i].access_key : i \in DOMAIN us}
OrderKept ==
  \A a, b \in Waiting(users) \cap Waiting(users') :
    /\ Index(users, a) < Index(users, b) => Index(users', a) < Index(users', b)
    /\ Index(users, a) = 1 => Index(users', a) = 1
NobodyOvertakes == [][OrderKept]_queueVars

\* get_computation_key calls _set_queue_head_data_if_needed under the read lock,
\* which it may share with other readers: it never finds anything to set.
ReadLockReads ==
  [][\A ak \in AccessKeys :
       ~HeadExpired /\ get_computation_key(ak) => UNCHANGED queueVars]_queueVars

\* The queue implements the lease: one holder at a time, each under a key that
\* was never used before.
Turn == IF users = <<>> THEN None
        ELSE [holder |-> users[1].access_key, key |-> users[1].computation_key]
Lease == INSTANCE TurnLease WITH Holders <- AccessKeys, NoTurn <- None,
                                 turn <- Turn, granted <- issued
ImplementsTurnLease == Lease!LeaseSpec
=============================================================================
