-------------------------- MODULE QueueClientsProofs --------------------------
(***************************************************************************)
(* Proofs about the clients of the queue, for any clients, priorities,     *)
(* timeouts and deaths.                                                    *)
(***************************************************************************)
EXTENDS QueueClients, UserQueueProofs, FiniteSetTheorems

\* A client polls again before its turn could have timed out.
Punctual == PollDuration <= HeadTimeout

\* The queue has a place for everybody.
Roomy == IsFiniteSet(AccessKeys) /\ Cardinality(AccessKeys) <= MaxSize

Outstanding == {"request", "compute", "finish"}

\* The tokens of clients are no newer than the last one drawn.
HeldInv == \A c \in AccessKeys : held[c] # None => held[c] <= issued

\* Who has yet to enter is not in the queue.
NewcomersInv == \A c \in AccessKeys : pc[c] = "add" => user_positions[c] = None

\* The turn of a client that does not know of it has lasted no longer than the
\* client has waited since it entered or polled.
FreshInv == \A c \in AccessKeys :
              pc[c] = "poll" /\ user_positions[c] = 0 => users[1].age <= since[c]

ClientsInv == /\ IInv /\ ClientsTypeOK /\ HeldInv /\ NewcomersInv
              /\ Punctual => FreshInv /\ ReadyMeansKey
              /\ Punctual /\ Roomy => WaitersAreQueued

-----------------------------------------------------------------------------
(***************************************************************************)
(* What the operations of the queue mean for those who are in it.          *)
(***************************************************************************)

LEMMA WhoIsHead ==
  ASSUME IInv, users # <<>>
  PROVE  /\ users[1] \in User /\ users[1].access_key \in AccessKeys
         /\ users[1].age \in Nat /\ users[1].computation_key = issued
         /\ \A a \in AccessKeys : user_positions[a] = 0 <=> a = users[1].access_key
<1>1. 1 \in 1 .. Len(users) /\ users[1] \in User
  BY ListOK, EmptySeq, ElementOfSeq
<1>2. users[1].age # None /\ users[1].computation_key = issued
  BY <1>1, ListOK DEF IInv, QueueInv, OnlyHeadHasTurn
<1>3. users[1].access_key \in AccessKeys /\ users[1].age \in Nat
  BY <1>1, <1>2, QueueAssumption DEF User
<1>4. ASSUME NEW a \in AccessKeys
      PROVE  user_positions[a] = 0 <=> a = users[1].access_key
  <2>1. users[1].access_key = a => user_positions[a] = 0
    BY <1>1, ListOK, PositionOf
  <2>2. user_positions[a] = 0 => users[1].access_key = a
    BY ListOK, PositionMeans, QueueAssumption
  <2> QED BY <2>1, <2>2
<1> QED BY <1>1, <1>2, <1>3, <1>4

LEMMA SomebodyIsHead ==
  ASSUME IInv, NEW a \in AccessKeys, user_positions[a] = 0
  PROVE  users # <<>>
<1>1. 1 \in 1 .. Len(users)
  BY ListOK, PositionMeans, QueueAssumption
<1> QED BY <1>1, EmptySeq

\* The users of the list are those who have a position.
ListedAreWaiting == Waiting(users) = {a \in AccessKeys : user_positions[a] # None}

LEMMA WaitingIs == IInv => ListedAreWaiting
<1> SUFFICES ASSUME IInv PROVE ListedAreWaiting
  OBVIOUS
<1>1. ASSUME NEW a \in AccessKeys
      PROVE  a \in Waiting(users) <=> user_positions[a] # None
  BY ListOK, PositionMeans DEF Waiting
<1>2. Waiting(users) \subseteq AccessKeys
  <2>1. ASSUME NEW i \in DOMAIN users PROVE users[i].access_key \in AccessKeys
    <3>1. users[i] \in User
      BY ListOK, ElementOfSeq
    <3> QED BY <3>1 DEF User
  <2> QED BY <2>1 DEF Waiting
<1> QED BY <1>1, <1>2 DEF ListedAreWaiting

\* The head leaves, everybody else stays, and the turn of the next one begins.
LEMMA PopEffect ==
  ASSUME IInv, users # <<>>, PopHead
  PROVE  /\ \A a \in AccessKeys :
              user_positions'[a] # None <=> user_positions[a] # None /\ user_positions[a] # 0
         /\ users' # <<>> => users'[1].age = 0
         /\ \A a \in AccessKeys : user_positions'[a] # None => users' # <<>>
         /\ issued' \in Nat /\ issued' >= issued
<1> DEFINE us == Pop(users)
<1>1. /\ us \in Seq(User)
      /\ Len(us) = Len(users) - 1
      /\ \A i \in 1 .. Len(us) : us[i] = users[i + 1]
  BY ListOK, HeadTailProperties DEF Pop
<1>2. SetQueueHeadData(us) /\ user_positions' = PositionMap(us)
  BY DEF PopHead
<1> HIDE DEF us
<1>3. Distinct(us)
  <2> SUFFICES ASSUME NEW i \in 1 .. Len(us), NEW j \in 1 .. Len(us),
                      us[i].access_key = us[j].access_key
               PROVE  i = j
    BY DEF Distinct
  <2>1. i + 1 = j + 1
    BY <1>1, ListOK DEF Distinct
  <2> QED BY <2>1
<1>4. ASSUME NEW a \in AccessKeys
      PROVE  user_positions'[a] # None <=> user_positions[a] # None /\ user_positions[a] # 0
  <2>1. user_positions'[a] # None <=> \E i \in 1 .. Len(us) : us[i].access_key = a
    BY <1>1, <1>2, <1>3, PositionMeans
  <2>2. ASSUME NEW i \in 1 .. Len(us), us[i].access_key = a
        PROVE  user_positions[a] # None /\ user_positions[a] # 0
    <3>1. i + 1 \in 1 .. Len(users) /\ users[i + 1].access_key = a
      BY <1>1, <2>2, ListOK
    <3>2. user_positions[a] = (i + 1) - 1
      BY <3>1, ListOK, PositionOf
    <3> QED BY <3>2, <1>1, ListOK, QueueAssumption
  <2>3. ASSUME user_positions[a] # None, user_positions[a] # 0
        PROVE  \E i \in 1 .. Len(us) : us[i].access_key = a
    <3>1. user_positions[a] + 1 \in 1 .. Len(users) /\ users[user_positions[a] + 1].access_key = a
      BY <2>3, ListOK, PositionMeans
    <3>2. user_positions[a] \in Nat
      BY <2>3 DEF IInv, QueueTypeOK
    <3>3. user_positions[a] \in 1 .. Len(us)
      BY <3>1, <3>2, <2>3, <1>1, ListOK
    <3> QED BY <3>1, <3>3, <1>1
  <2> QED BY <2>1, <2>2, <2>3
<1>5. us # <<>> => us[1].age = None
  <2> SUFFICES ASSUME us # <<>> PROVE us[1].age = None
    OBVIOUS
  <2>1. 1 \in 1 .. Len(us)
    BY <1>1, EmptySeq
  <2>2. us[1] = users[2] /\ 2 \in 1 .. Len(users)
    BY <1>1, <2>1, ListOK
  <2> QED BY <2>2, ListOK DEF Ready
<1>6. /\ users' = IF us # <<>> THEN [us EXCEPT ![1] = [@ EXCEPT !.age = 0, !.computation_key = issued + 1]]
                  ELSE us
      /\ issued' = IF us # <<>> THEN issued + 1 ELSE issued
  BY <1>2, <1>5 DEF SetQueueHeadData, NeedsHeadData
<1>7. users' # <<>> => users'[1].age = 0
  <2> SUFFICES ASSUME us # <<>> PROVE users'[1].age = 0
    BY <1>6
  <2>1. 1 \in DOMAIN us /\ us[1] \in User
    BY <1>1, EmptySeq, LenProperties, ElementOfSeq
  <2> QED BY <1>6, <2>1 DEF User
<1>8. issued' \in Nat /\ issued' >= issued
  BY <1>6, ListOK
<1>9. ASSUME NEW a \in AccessKeys, user_positions'[a] # None PROVE users' # <<>>
  <2>1. \E i \in 1 .. Len(us) : us[i].access_key = a
    BY <1>1, <1>2, <1>3, <1>9, PositionMeans
  <2>2. us # <<>> /\ 1 \in DOMAIN us
    BY <1>1, <2>1, EmptySeq, LenProperties
  <2>3. 1 \in DOMAIN users'
    BY <1>6, <2>2
  <2> QED BY <2>3
<1> QED BY <1>4, <1>7, <1>8, <1>9

\* A user who enters takes nobody's place at the head.
LEMMA AddEffect ==
  ASSUME IInv, NEW c \in AccessKeys, add_user(c) \/ add_priority_user(c)
  PROVE  /\ user_positions'[c] # None
         /\ user_positions'[c] = 0 => users'[1].age = 0
         /\ \A a \in AccessKeys \ {c} :
              /\ user_positions'[a] = None <=> user_positions[a] = None
              /\ user_positions'[a] = 0 => user_positions[a] = 0 /\ users'[1].age = users[1].age
         /\ issued' \in Nat /\ issued' >= issued
<1> DEFINE us == IF add_user(c) THEN Append(users, NewUser(c)) ELSE InsertSecond(users, NewUser(c))
<1>0. /\ NewUser(c) \in User /\ NewUser(c).age = None
      /\ user_positions \in [AccessKeys -> Nat \cup {None}] /\ None \notin Nat
  BY QueueAssumption DEF NewUser, User, IInv, QueueTypeOK
<1>1. /\ us \in Seq(User) /\ us # <<>>
      /\ users # <<>> => us[1] = users[1]
      /\ users = <<>> => us[1] = NewUser(c)
  <2>1. CASE add_user(c)
    <3>1. /\ us \in Seq(User)
          /\ Len(us) = Len(users) + 1
          /\ \A i \in 1 .. Len(users) : us[i] = users[i]
          /\ us[Len(users) + 1] = NewUser(c)
      BY <1>0, <2>1, ListOK, AppendProperties
    <3> QED BY <3>1, ListOK, EmptySeq
  <2>2. CASE ~add_user(c)
    <3>1. us = InsertSecond(users, NewUser(c))
      BY <2>2
    <3>2. us \in Seq(User) /\ Len(us) = Len(users) + 1
      <4>1. /\ InsertSecond(users, NewUser(c)) \in Seq(User)
            /\ Len(InsertSecond(users, NewUser(c))) = Len(users) + 1
        BY <1>0, InsertedSecond
      <4> HIDE DEF us
      <4> QED BY <3>1, <4>1
    <3>3. us[1] = IF users = <<>> THEN NewUser(c) ELSE users[1]
      BY <3>1, ListOK, EmptySeq DEF InsertSecond
    <3> QED BY <3>2, <3>3, ListOK, EmptySeq
  <2> QED BY <2>1, <2>2
<1>2. SetQueueHeadData(us)
  BY DEF add_user, add_priority_user
<1>3. /\ user_positions'[c] = IF users = <<>> THEN 0 ELSE user_positions'[c]
      /\ user_positions'[c] \in Nat
      /\ users # <<>> => user_positions'[c] # 0
  <2>1. CASE add_user(c)
    BY <1>0, <2>1, ListOK, EmptySeq DEF add_user
  <2>2. CASE add_priority_user(c)
    BY <1>0, <2>2, ListOK, EmptySeq DEF add_priority_user
  <2> QED BY <2>1, <2>2
<1>4. ASSUME NEW a \in AccessKeys \ {c}
      PROVE  /\ user_positions'[a] = None <=> user_positions[a] = None
             /\ user_positions'[a] = 0 => user_positions[a] = 0
  <2>1. CASE add_user(c)
    BY <1>0, <2>1 DEF add_user
  <2>2. CASE add_priority_user(c)
    BY <1>0, <2>2 DEF add_priority_user
  <2> QED BY <2>1, <2>2
<1> HIDE DEF us
<1>5. 1 \in DOMAIN us /\ us[1] \in User
  BY <1>1, EmptySeq, LenProperties, ElementOfSeq
<1>6. /\ users = <<>> => users'[1].age = 0
      /\ users # <<>> => users'[1] = users[1]
      /\ issued' \in Nat /\ issued' >= issued
  <2>1. users # <<>> => us[1].age # None
    BY <1>1, WhoIsHead, QueueAssumption
  <2>2. users = <<>> => users' = [us EXCEPT ![1] = [@ EXCEPT !.age = 0, !.computation_key = issued + 1]]
    BY <1>0, <1>1, <1>2 DEF SetQueueHeadData, NeedsHeadData
  <2>3. users # <<>> => users' = us
    BY <2>1, <1>2 DEF SetQueueHeadData, NeedsHeadData
  <2>4. issued' \in Nat /\ issued' >= issued
    BY <1>2, ListOK DEF SetQueueHeadData
  <2>5. users = <<>> => users'[1].age = 0
    BY <1>5, <2>2 DEF User
  <2> QED BY <1>1, <2>3, <2>4, <2>5
<1>7. ASSUME NEW a \in AccessKeys, user_positions[a] = 0 PROVE users # <<>>
  BY <1>7, SomebodyIsHead
<1> QED BY <1>0, <1>3, <1>4, <1>6, <1>7

-----------------------------------------------------------------------------
(***************************************************************************)
(* The clients.                                                            *)
(***************************************************************************)
LEMMA ClientsStart == ClientsInit => ClientsInv
<1> SUFFICES ASSUME ClientsInit PROVE ClientsInv
  OBVIOUS
<1>1. IInv
  BY InitInv DEF ClientsInit
<1>2. QueueTypeOK
  BY <1>1 DEF IInv
<1>3. ClientsTypeOK
  BY <1>2, ClientsAssumption DEF ClientsInit, ClientsTypeOK, Stage
<1> QED BY <1>1, <1>3 DEF ClientsInit, ClientsInv, HeldInv, NewcomersInv, FreshInv, ReadyMeansKey,
             WaitersAreQueued, Outstanding, QueueInit

\* A client that is about to enter finds a place.
LEMMA RoomToEnter ==
  ASSUME IInv, Roomy, NEW c \in AccessKeys, user_positions[c] = None
  PROVE  AddResult(c) = "SUCCEEDED"
<1> DEFINE names == [i \in 1 .. Len(users) |-> users[i].access_key]
<1>1. ASSUME NEW i \in 1 .. Len(users) PROVE users[i].access_key \in AccessKeys \ {c}
  <2>1. users[i] \in User
    BY ListOK, ElementOfSeq
  <2>2. users[i].access_key # c
    BY ListOK, PositionMeans
  <2> QED BY <2>1, <2>2 DEF User
<1>2. names \in Injection(1 .. Len(users), AccessKeys \ {c})
  BY <1>1, ListOK DEF Distinct, Injection, IsInjective
<1>3. IsFiniteSet(AccessKeys \ {c}) /\ Cardinality(AccessKeys \ {c}) = Cardinality(AccessKeys) - 1
  BY FS_RemoveElement DEF Roomy
<1>4. Cardinality(1 .. Len(users)) <= Cardinality(AccessKeys \ {c})
  BY <1>2, <1>3, FS_Injection
<1>5. Cardinality(1 .. Len(users)) = Len(users)
  <2>1. 1 \in Int /\ Len(users) \in Int /\ Len(users) >= 0
    BY ListOK
  <2>2. Cardinality(1 .. Len(users)) = IF 1 > Len(users) THEN 0 ELSE Len(users) - 1 + 1
    BY <2>1, FS_Interval
  <2> QED BY <2>1, <2>2
<1>6. Cardinality(AccessKeys) \in Nat
  BY FS_CardinalityType DEF Roomy
<1>7. Len(users) # MaxSize
  BY <1>3, <1>4, <1>5, <1>6, ListOK, QueueAssumption DEF Roomy
<1> QED BY <1>7 DEF AddResult

LEMMA EnterStep ==
  ASSUME ClientsInv, NEW c \in AccessKeys, EnterQueue(c)
  PROVE  ClientsInv'
<1>0. /\ pc[c] = "add" /\ pc' = [pc EXCEPT ![c] = "poll"] /\ held' = held
      /\ since' = [since EXCEPT ![c] = 0]
      /\ user_positions[c] = None
  BY DEF EnterQueue, Goto, ClientsInv, NewcomersInv
<1>1. /\ pc \in [AccessKeys -> Stage] /\ held \in [AccessKeys -> Nat \cup {None}]
      /\ since \in [AccessKeys -> 0 .. PollDuration] /\ issued \in Nat /\ IInv
      /\ PollDuration \in Nat /\ None \notin Nat
  BY ClientsAssumption, QueueAssumption, ListOK DEF ClientsInv, ClientsTypeOK
<1>2. CASE AddResult(c) # "SUCCEEDED" /\ UNCHANGED queueVars
  <2>1. IInv'
    BY <1>1, <1>2, StayKeepsInv
  <2>2. ~Roomy
    BY <1>0, <1>1, <1>2, RoomToEnter
  <2> QED BY <1>0, <1>1, <1>2, <2>1, <2>2
          DEF ClientsInv, ClientsTypeOK, Stage, HeldInv, NewcomersInv, FreshInv, ReadyMeansKey,
              Outstanding, queueVars, IInv
<1>3. CASE add_user(c) \/ add_priority_user(c)
  <2>1. IInv'
    BY <1>1, <1>3, AddUserKeepsInv, AddPriorityUserKeepsInv
  <2>2. /\ user_positions'[c] # None
        /\ user_positions'[c] = 0 => users'[1].age = 0
        /\ \A a \in AccessKeys \ {c} :
             /\ user_positions'[a] = None <=> user_positions[a] = None
             /\ user_positions'[a] = 0 => user_positions[a] = 0 /\ users'[1].age = users[1].age
        /\ issued' \in Nat /\ issued' >= issued
    BY <1>1, <1>3, AddEffect
  <2>3. QueueTypeOK'
    BY <2>1 DEF IInv
  <2>4. ClientsTypeOK'
    BY <1>0, <1>1, <2>3 DEF ClientsTypeOK, Stage
  <2>5. HeldInv'
    BY <1>0, <1>1, <2>2 DEF ClientsInv, HeldInv
  <2>6. NewcomersInv'
    BY <1>0, <1>1, <2>2 DEF ClientsInv, NewcomersInv
  <2>7. FreshInv => FreshInv'
    BY <1>0, <1>1, <2>2 DEF FreshInv
  <2>8. ReadyMeansKey => ReadyMeansKey'
    BY <1>0, <1>1 DEF ReadyMeansKey
  <2>9. WaitersAreQueued => WaitersAreQueued'
    BY <1>0, <1>1, <2>2 DEF WaitersAreQueued
  <2> QED BY <2>1, <2>4, <2>5, <2>6, <2>7, <2>8, <2>9 DEF ClientsInv
<1> QED BY <1>2, <1>3 DEF EnterQueue

\* Who is evicted because its turn has timed out does not wait for it: the
\* client knows of its turn.
LEMMA EvictedKnows ==
  ASSUME ClientsInv, Punctual, HeadExpired, NEW c \in AccessKeys, pc[c] = "poll"
  PROVE  user_positions[c] # 0
<1>1. since[c] \in 0 .. PollDuration /\ users[1].age \in Nat
  BY WhoIsHead DEF ClientsInv, ClientsTypeOK, HeadExpired
<1> QED BY <1>1, ClientsAssumption, QueueAssumption
        DEF ClientsInv, FreshInv, Punctual, HeadExpired

\* The head leaves: what remains true of the clients.
LEMMA PopClients ==
  ASSUME ClientsInv, users # <<>>, PopHead,
         since' \in [AccessKeys -> 0 .. PollDuration],
         pc' \in [AccessKeys -> Stage],
         held' \in [AccessKeys -> Nat \cup {None}],
         \A d \in AccessKeys : held'[d] \in {held[d], None},
         \A d \in AccessKeys : pc'[d] # pc[d] => pc'[d] \in Outstanding \cup {"done"},
         Punctual => /\ held' = held
                     /\ \A d \in AccessKeys : pc'[d] # pc[d] => pc[d] \in Outstanding
                     /\ \A d \in AccessKeys : pc[d] = "poll" => user_positions[d] # 0
  PROVE  ClientsInv'
<1>1. /\ held \in [AccessKeys -> Nat \cup {None}] /\ issued \in Nat /\ IInv /\ None \notin Nat
      /\ PollDuration \in Nat
  BY ClientsAssumption, QueueAssumption, ListOK DEF ClientsInv, ClientsTypeOK
<1>2. IInv'
  BY <1>1, PopKeepsInv
<1>3. QueueTypeOK'
  BY <1>2 DEF IInv
<1>4. /\ \A a \in AccessKeys :
           user_positions'[a] # None <=> user_positions[a] # None /\ user_positions[a] # 0
      /\ users' # <<>> => users'[1].age = 0
      /\ \A a \in AccessKeys : user_positions'[a] # None => users' # <<>>
      /\ issued' \in Nat /\ issued' >= issued
  BY <1>1, PopEffect
<1>5. ClientsTypeOK'
  BY <1>1, <1>3 DEF ClientsTypeOK
<1>6. HeldInv'
  BY <1>1, <1>4 DEF ClientsInv, HeldInv
<1>7. NewcomersInv'
  BY <1>4 DEF ClientsInv, NewcomersInv, Outstanding
<1>8. FreshInv'
  BY <1>1, <1>4 DEF FreshInv
<1>9. Punctual => ReadyMeansKey'
  BY DEF ClientsInv, ReadyMeansKey, Outstanding
<1>10. Punctual /\ Roomy => WaitersAreQueued'
  BY <1>4 DEF ClientsInv, WaitersAreQueued, Outstanding
<1> QED BY <1>2, <1>5, <1>6, <1>7, <1>8, <1>9, <1>10 DEF ClientsInv

\* The queue stays as it is.
LEMMA StayClients ==
  ASSUME ClientsInv, UNCHANGED queueVars,
         since' \in [AccessKeys -> 0 .. PollDuration],
         pc' \in [AccessKeys -> Stage],
         held' \in [AccessKeys -> Nat \cup {None}],
         \A d \in AccessKeys : held'[d] \in {held[d], issued},
         \A d \in AccessKeys : pc'[d] \in {"add", "poll"} =>
           pc'[d] = pc[d] /\ (since'[d] = since[d] \/ user_positions[d] # 0),
         \A d \in AccessKeys : pc'[d] \in Outstanding => held'[d] # None \/ pc[d] \in Outstanding
  PROVE  ClientsInv'
<1>1. /\ held \in [AccessKeys -> Nat \cup {None}] /\ issued \in Nat /\ IInv /\ None \notin Nat
      /\ UNCHANGED <<users, user_positions, issued>>
  BY QueueAssumption, ListOK DEF ClientsInv, ClientsTypeOK, queueVars
<1>2. IInv'
  BY <1>1, StayKeepsInv
<1>3. QueueTypeOK'
  BY <1>2 DEF IInv
<1>4. ClientsTypeOK'
  BY <1>3 DEF ClientsTypeOK
<1>5. HeldInv'
  BY <1>1 DEF ClientsInv, HeldInv
<1>6. NewcomersInv'
  BY <1>1 DEF ClientsInv, NewcomersInv
<1>7. FreshInv => FreshInv'
  BY <1>1 DEF FreshInv
<1>8. ReadyMeansKey => ReadyMeansKey'
  BY <1>1 DEF ReadyMeansKey, Outstanding
<1>9. WaitersAreQueued => WaitersAreQueued'
  BY <1>1 DEF WaitersAreQueued
<1> QED BY <1>2, <1>4, <1>5, <1>6, <1>7, <1>8, <1>9 DEF ClientsInv

LEMMA PollStep ==
  ASSUME ClientsInv, NEW c \in AccessKeys, Poll(c)
  PROVE  ClientsInv'
<1>1. /\ held \in [AccessKeys -> Nat \cup {None}] /\ issued \in Nat /\ IInv /\ None \notin Nat
      /\ PollDuration \in Nat /\ pc \in [AccessKeys -> Stage] /\ pc[c] = "poll"
      /\ since \in [AccessKeys -> 0 .. PollDuration] /\ since' = [since EXCEPT ![c] = 0]
      /\ user_positions[c] # 0 => pc' = pc /\ held' = held
      /\ user_positions[c] = 0 => /\ pc' = [pc EXCEPT ![c] = "request"]
                                  /\ held' = [held EXCEPT ![c] = KeyOf(c)']
  BY ClientsAssumption, QueueAssumption, ListOK DEF ClientsInv, ClientsTypeOK, Poll, Goto
<1>2. CASE HeadExpired /\ timeout_head_user
  <2>1. users # <<>> /\ PopHead
    BY <1>2 DEF timeout_head_user, HeadExpired
  <2>2. user_positions[c] = 0 => KeyOf(c)' = None
    BY <1>1, <2>1, PopEffect DEF KeyOf
  <2>3. Punctual => \A d \in AccessKeys : pc[d] = "poll" => user_positions[d] # 0
    BY <1>2, EvictedKnows
  <2>4. pc' \in [AccessKeys -> Stage] /\ since' \in [AccessKeys -> 0 .. PollDuration]
    BY <1>1 DEF Stage
  <2>5. /\ held' \in [AccessKeys -> Nat \cup {None}]
        /\ \A d \in AccessKeys : held'[d] \in {held[d], None}
    BY <1>1, <2>2
  <2>6. \A d \in AccessKeys : pc'[d] # pc[d] => pc'[d] \in Outstanding \cup {"done"}
    BY <1>1 DEF Outstanding
  <2>7. Punctual => pc' = pc /\ held' = held
    BY <1>1, <2>3
  <2> QED BY <2>1, <2>3, <2>4, <2>5, <2>6, <2>7, PopClients
<1>3. CASE ~HeadExpired
  <2>1. UNCHANGED queueVars
    BY <1>1, <1>3, GetKeyReads DEF Poll
  <2>2. user_positions[c] = 0 => KeyOf(c)' = issued
    BY <1>1, <2>1, SomebodyIsHead, WhoIsHead DEF KeyOf, queueVars
  <2>3. pc' \in [AccessKeys -> Stage] /\ since' \in [AccessKeys -> 0 .. PollDuration]
    BY <1>1 DEF Stage
  <2>4. /\ held' \in [AccessKeys -> Nat \cup {None}]
        /\ \A d \in AccessKeys : held'[d] \in {held[d], issued}
    BY <1>1, <2>2
  <2>5. \A d \in AccessKeys : pc'[d] \in {"add", "poll"} =>
          pc'[d] = pc[d] /\ (since'[d] = since[d] \/ user_positions[d] # 0)
    BY <1>1
  <2>6. \A d \in AccessKeys : pc'[d] \in Outstanding => held'[d] # None \/ pc[d] \in Outstanding
    BY <1>1, <2>2 DEF Outstanding
  <2> QED BY <2>1, <2>3, <2>4, <2>5, <2>6, StayClients
<1> QED BY <1>2, <1>3 DEF Poll, get_computation_key

\* A client past its wait goes on, whether its request evicts a head or not.
LEMMA OutstandingStep ==
  ASSUME ClientsInv, NEW c \in AccessKeys, NEW stage \in Outstanding \cup {"done"},
         pc[c] \in Outstanding, Goto(c, stage), UNCHANGED <<held, since>>,
         \/ UNCHANGED queueVars
         \/ HeadExpired /\ PopHead
         \/ user_positions[c] = 0 /\ PopHead
  PROVE  ClientsInv'
<1>1. /\ held' = held /\ held \in [AccessKeys -> Nat \cup {None}]
      /\ since' = since /\ since \in [AccessKeys -> 0 .. PollDuration]
      /\ pc \in [AccessKeys -> Stage] /\ pc' = [pc EXCEPT ![c] = stage] /\ stage \in Stage /\ IInv
  BY DEF ClientsInv, ClientsTypeOK, Goto, Outstanding, Stage
<1>2. pc' \in [AccessKeys -> Stage]
  BY <1>1
<1>3. \A d \in AccessKeys : pc'[d] # pc[d] => pc[d] \in Outstanding /\ pc'[d] = stage
  BY <1>1
<1>4. CASE UNCHANGED queueVars
  <2>1. \A d \in AccessKeys : pc'[d] \in {"add", "poll"} => pc'[d] = pc[d]
    BY <1>3 DEF Outstanding
  <2>2. \A d \in AccessKeys : pc'[d] \in Outstanding => pc[d] \in Outstanding
    BY <1>3
  <2> QED BY <1>1, <1>2, <1>4, <2>1, <2>2, StayClients
<1>5. CASE PopHead /\ (HeadExpired \/ user_positions[c] = 0)
  <2>1. users # <<>>
    BY <1>1, <1>5, SomebodyIsHead DEF HeadExpired
  <2>2. ASSUME Punctual, NEW d \in AccessKeys, pc[d] = "poll" PROVE user_positions[d] # 0
    <3>1. CASE HeadExpired
      BY <2>2, <3>1, EvictedKnows
    <3>2. CASE user_positions[c] = 0
      BY <1>1, <2>1, <2>2, <3>2, WhoIsHead DEF Outstanding
    <3> QED BY <1>5, <3>1, <3>2
  <2> QED BY <1>1, <1>2, <1>3, <1>5, <2>1, <2>2, PopClients
<1> QED BY <1>4, <1>5

LEMMA CrashStep ==
  ASSUME ClientsInv, NEW c \in AccessKeys, Crash(c)
  PROVE  ClientsInv'
<1>1. /\ held' = held /\ held \in [AccessKeys -> Nat \cup {None}]
      /\ since' = since /\ since \in [AccessKeys -> 0 .. PollDuration]
      /\ pc \in [AccessKeys -> Stage] /\ pc' = [pc EXCEPT ![c] = "crashed"]
      /\ UNCHANGED queueVars
  BY DEF ClientsInv, ClientsTypeOK, Crash, Goto
<1>2. pc' \in [AccessKeys -> Stage]
  BY <1>1 DEF Stage
<1>3. \A d \in AccessKeys : pc'[d] \in {"add", "poll"} \cup Outstanding => pc'[d] = pc[d]
  BY <1>1 DEF Outstanding
<1>4. \A d \in AccessKeys : pc'[d] \in Outstanding => pc[d] \in Outstanding
  BY <1>3
<1> QED BY <1>1, <1>2, <1>3, <1>4, StayClients

LEMMA TimeStep ==
  ASSUME ClientsInv, TimePasses
  PROVE  ClientsInv'
<1>1. /\ IInv /\ users # <<>> /\ users[1] \in User /\ users[1].age \in Nat
      /\ held \in [AccessKeys -> Nat \cup {None}] /\ pc \in [AccessKeys -> Stage]
      /\ since \in [AccessKeys -> 0 .. PollDuration] /\ PollDuration \in Nat
  BY WhoIsHead, ClientsAssumption DEF ClientsInv, ClientsTypeOK, TimePasses, Tick
<1>2. IInv'
  BY <1>1, TickKeepsInv DEF TimePasses
<1>3. QueueTypeOK'
  BY <1>2 DEF IInv
<1>4. /\ UNCHANGED <<pc, held, user_positions, issued>>
      /\ \A c \in AccessKeys : since'[c] = IF pc[c] = "poll" THEN since[c] + 1 ELSE since[c]
      /\ since' \in [AccessKeys -> 0 .. PollDuration]
  BY <1>1 DEF TimePasses, Tick
<1>5. users'[1].age = users[1].age + 1
  <2>1. users' = [users EXCEPT ![1] = [users[1] EXCEPT !.age = users[1].age + 1]]
    BY DEF TimePasses, Tick
  <2>2. 1 \in DOMAIN users
    BY <1>1, ListOK, EmptySeq
  <2> QED BY <1>1, <2>1, <2>2 DEF User
<1>6. ClientsTypeOK'
  BY <1>1, <1>3, <1>4 DEF ClientsTypeOK
<1>7. FreshInv => FreshInv'
  BY <1>1, <1>4, <1>5 DEF FreshInv
<1> QED BY <1>2, <1>4, <1>6, <1>7
        DEF ClientsInv, HeldInv, NewcomersInv, ReadyMeansKey, WaitersAreQueued

-----------------------------------------------------------------------------
(***************************************************************************)
(* Renaming tokens by their rank.                                          *)
(***************************************************************************)

\* The rank of a token among finitely many grows with the token.
Ranked(live, token) == Cardinality({t \in live : t <= token})

LEMMA RanksGrow ==
  ASSUME NEW n \in Nat, NEW live \in SUBSET (0 .. n), NEW a \in live, NEW b \in live
  PROVE  /\ Ranked(live, a) \in Nat
         /\ a <= b => Ranked(live, a) <= Ranked(live, b)
         /\ a < b => Ranked(live, a) < Ranked(live, b)
<1> DEFINE Below(x) == {t \in live : t <= x}
<1>1. IsFiniteSet(0 .. n)
  BY FS_Interval
<1>2. ASSUME NEW x \in live PROVE IsFiniteSet(Below(x)) /\ Cardinality(Below(x)) \in Nat
  <2>1. Below(x) \in SUBSET (0 .. n)
    OBVIOUS
  <2> HIDE DEF Below
  <2> QED BY <1>1, <2>1, FS_Subset, FS_CardinalityType
<1>3. a <= b => Below(a) \in SUBSET Below(b)
  <2>1. \A t \in live : t \in Int /\ (t <= a /\ a <= b => t <= b)
    OBVIOUS
  <2> QED BY <2>1
<1>4. a < b => b \in Below(b) /\ b \notin Below(a)
  OBVIOUS
<1>5. a <= b => /\ Cardinality(Below(a)) <= Cardinality(Below(b))
                /\ Cardinality(Below(b)) = Cardinality(Below(a)) => Below(b) = Below(a)
  <2> HIDE DEF Below
  <2> QED BY <1>2, <1>3, FS_Subset
<1>6. a < b => a <= b /\ Below(a) # Below(b)
  BY <1>4
<1> HIDE DEF Below
<1>7. Ranked(live, a) = Cardinality(Below(a)) /\ Ranked(live, b) = Cardinality(Below(b))
  BY DEF Below, Ranked
<1> QED BY <1>2, <1>5, <1>6, <1>7

LEMMA RenameEffect ==
  ASSUME IInv, NEW kept \in [AccessKeys -> Nat \cup {None}],
         \A c \in AccessKeys : kept[c] # None => kept[c] <= issued,
         Rename(kept), UNCHANGED user_positions
  PROVE  /\ IInv'
         /\ Len(users') = Len(users) /\ DOMAIN users' = 1 .. Len(users)
         /\ \A i \in 1 .. Len(users) : /\ users'[i].access_key = users[i].access_key
                                       /\ users'[i].age = users[i].age
         /\ held' \in [AccessKeys -> Nat \cup {None}]
         /\ \A c \in AccessKeys : /\ held'[c] = None <=> kept[c] = None
                                  /\ held'[c] # None => held'[c] <= issued'
                                  /\ held'[c] = issued' <=> kept[c] = issued
<1> DEFINE live == ({kept[c] : c \in AccessKeys} \cup {issued}
                      \cup {users[i].computation_key : i \in DOMAIN users}) \ {None}
           Rank(token) == IF token = None THEN None ELSE Cardinality({t \in live : t <= token})
<1>1. /\ issued \in Nat /\ users \in Seq(User) /\ DOMAIN users = 1 .. Len(users)
      /\ Len(users) \in Nat /\ None \notin Nat
  BY ListOK, QueueAssumption
<1>2. \A i \in 1 .. Len(users) : /\ users[i] \in User
                                 /\ users[i].computation_key = IF i = 1 THEN issued ELSE None
  BY <1>1, ElementOfSeq DEF IInv, QueueInv, OnlyHeadHasTurn
<1>3. live \in SUBSET (0 .. issued) /\ issued \in live
  BY <1>1, <1>2
<1>4. /\ held' = [c \in AccessKeys |-> Rank(kept[c])]
      /\ issued' = Rank(issued)
      /\ users' = [i \in DOMAIN users |-> [users[i] EXCEPT !.computation_key = Rank(@)]]
  BY DEF Rename
<1>5. ASSUME NEW t \in live
      PROVE  /\ Rank(t) \in Nat /\ Rank(t) <= Rank(issued)
             /\ t # issued => Rank(t) < Rank(issued)
  <2>1. Rank(t) = Ranked(live, t) /\ Rank(issued) = Ranked(live, issued)
    BY <1>1, <1>3 DEF Ranked
  <2>2. t <= issued /\ (t # issued => t < issued) /\ t \in Nat
    BY <1>1, <1>3
  <2> HIDE DEF live, Rank
  <2> QED BY <1>1, <1>3, <2>1, <2>2, RanksGrow
<1>6. Rank(None) = None
  OBVIOUS
<1>7. \A c \in AccessKeys : kept[c] # None => kept[c] \in live
  OBVIOUS
<1> HIDE DEF live, Rank
<1>8. /\ held' \in [AccessKeys -> Nat \cup {None}]
      /\ \A c \in AccessKeys : /\ held'[c] = None <=> kept[c] = None
                               /\ held'[c] # None => held'[c] <= issued'
                               /\ held'[c] = issued' <=> kept[c] = issued
  BY <1>1, <1>3, <1>4, <1>5, <1>6, <1>7
<1>9. issued' \in Nat
  BY <1>3, <1>4, <1>5
<1>10. \A i \in 1 .. Len(users) :
         /\ users'[i] \in User
         /\ users'[i].access_key = users[i].access_key /\ users'[i].age = users[i].age
         /\ users'[i].computation_key = IF i = 1 THEN issued' ELSE None
  BY <1>1, <1>2, <1>4, <1>6, <1>9 DEF User
<1>11. users' \in Seq(User) /\ Len(users') = Len(users) /\ DOMAIN users' = 1 .. Len(users)
  <2>1. users' \in [1 .. Len(users) -> User]
    BY <1>1, <1>4, <1>10
  <2> QED BY <1>1, <2>1, SeqDef, LenProperties
<1>12. PositionMap(users') = PositionMap(users)
  BY <1>1, <1>10, <1>11, ListOK, SameNamesSameMap
<1>13. IInv'
  <2>1. NoDuplicates'
    BY <1>1, <1>10, <1>11 DEF IInv, QueueInv, NoDuplicates
  <2>2. OnlyHeadHasTurn'
    BY <1>1, <1>10, <1>11 DEF IInv, QueueInv, OnlyHeadHasTurn
  <2>3. PositionsAgree'
    BY <1>12 DEF IInv, QueueInv, PositionsAgree, PositionMap
  <2>4. QueueTypeOK' /\ Bounded'
    BY <1>9, <1>11 DEF IInv, QueueInv, QueueTypeOK, Bounded
  <2> QED BY <2>1, <2>2, <2>3, <2>4 DEF IInv, QueueInv
<1> QED BY <1>8, <1>10, <1>11, <1>13

LEMMA AgainStep ==
  ASSUME ClientsInv, NEW c \in AccessKeys, ComeAgain(c)
  PROVE  ClientsInv'
<1> DEFINE kept == [held EXCEPT ![c] = None]
<1>1. /\ held \in [AccessKeys -> Nat \cup {None}] /\ issued \in Nat /\ IInv
      /\ pc \in [AccessKeys -> Stage] /\ pc' = [pc EXCEPT ![c] = "add"]
      /\ since \in [AccessKeys -> 0 .. PollDuration]
      /\ UNCHANGED <<user_positions, since>> /\ Rename(kept) /\ user_positions[c] = None
  BY ListOK DEF ClientsInv, ClientsTypeOK, ComeAgain, Goto
<1>2. /\ kept \in [AccessKeys -> Nat \cup {None}]
      /\ \A d \in AccessKeys : kept[d] # None => kept[d] <= issued
      /\ \A d \in AccessKeys \ {c} : kept[d] = held[d]
  BY <1>1 DEF ClientsInv, HeldInv
<1> HIDE DEF kept
<1>3. /\ IInv'
      /\ Len(users') = Len(users)
      /\ \A i \in 1 .. Len(users) : users'[i].age = users[i].age
      /\ held' \in [AccessKeys -> Nat \cup {None}]
      /\ \A d \in AccessKeys : /\ held'[d] = None <=> kept[d] = None
                               /\ held'[d] # None => held'[d] <= issued'
  BY <1>1, <1>2, RenameEffect
<1>4. QueueTypeOK'
  BY <1>3 DEF IInv
<1>5. ClientsTypeOK'
  BY <1>1, <1>3, <1>4 DEF ClientsTypeOK, Stage
<1>6. HeldInv'
  BY <1>3 DEF HeldInv
<1>7. NewcomersInv'
  BY <1>1 DEF ClientsInv, NewcomersInv
<1>8. FreshInv => FreshInv'
  <2> SUFFICES ASSUME FreshInv, NEW d \in AccessKeys, pc'[d] = "poll", user_positions'[d] = 0
               PROVE  users'[1].age <= since'[d]
    BY DEF FreshInv
  <2>1. pc[d] = "poll" /\ user_positions[d] = 0 /\ users[1].age <= since[d]
    BY <1>1 DEF FreshInv
  <2>2. 1 \in 1 .. Len(users)
    BY <1>1, <2>1, SomebodyIsHead, ListOK, EmptySeq
  <2> QED BY <1>1, <1>3, <2>1, <2>2
<1>9. ReadyMeansKey => ReadyMeansKey'
  BY <1>1, <1>2, <1>3 DEF ReadyMeansKey
<1>10. WaitersAreQueued => WaitersAreQueued'
  BY <1>1 DEF WaitersAreQueued
<1> QED BY <1>3, <1>5, <1>6, <1>7, <1>8, <1>9, <1>10 DEF ClientsInv

-----------------------------------------------------------------------------
\* Every step of every client keeps the invariant.
LEMMA ClientsStep == ClientsInv /\ [ClientsNext]_vars => ClientsInv'
<1> SUFFICES ASSUME ClientsInv, [ClientsNext]_vars PROVE ClientsInv'
  OBVIOUS
<1>1. ASSUME NEW c \in AccessKeys, EnterQueue(c) PROVE ClientsInv'
  BY <1>1, EnterStep
<1>2. ASSUME NEW c \in AccessKeys, Poll(c) PROVE ClientsInv'
  BY <1>2, PollStep
<1>3. ASSUME NEW c \in AccessKeys, RequestComputation(c) PROVE ClientsInv'
  <2>1. PICK stage \in {"compute", "finish"} : Goto(c, stage)
    BY <1>3 DEF RequestComputation
  <2>2. /\ pc[c] \in Outstanding /\ UNCHANGED <<held, since>>
        /\ UNCHANGED queueVars \/ (HeadExpired /\ PopHead)
    BY <1>3 DEF RequestComputation, Outstanding, validate_computation_key, timeout_head_user
  <2>3. stage \in Outstanding \cup {"done"}
    BY DEF Outstanding
  <2> QED BY <2>1, <2>2, <2>3, OutstandingStep
<1>4. ASSUME NEW c \in AccessKeys, ComputationEnds(c) PROVE ClientsInv'
  <2>1. /\ pc[c] \in Outstanding /\ Goto(c, "finish") /\ "finish" \in Outstanding \cup {"done"}
        /\ UNCHANGED <<held, since>> /\ UNCHANGED queueVars
    BY <1>4 DEF ComputationEnds, Outstanding, queueVars
  <2> QED BY <2>1, OutstandingStep
<1>5. ASSUME NEW c \in AccessKeys, MarkFinished(c) PROVE ClientsInv'
  <2>1. /\ pc[c] \in Outstanding /\ Goto(c, "done") /\ "done" \in Outstanding \cup {"done"}
        /\ UNCHANGED <<held, since>>
        /\ UNCHANGED queueVars \/ (user_positions[c] = 0 /\ PopHead)
    BY <1>5 DEF MarkFinished, Outstanding, finish_computation, KeyIsValid
  <2> QED BY <2>1, OutstandingStep
<1>6. ASSUME NEW c \in AccessKeys, ComeAgain(c) PROVE ClientsInv'
  BY <1>6, AgainStep
<1>7. ASSUME NEW c \in AccessKeys, Crash(c) PROVE ClientsInv'
  BY <1>7, CrashStep
<1>8. CASE TimePasses
  BY <1>8, TimeStep
<1>9. CASE UNCHANGED vars
  <2>1. UNCHANGED queueVars /\ UNCHANGED <<pc, held, since>>
    BY <1>9 DEF vars, queueVars
  <2>2. /\ pc \in [AccessKeys -> Stage] /\ held \in [AccessKeys -> Nat \cup {None}]
        /\ since \in [AccessKeys -> 0 .. PollDuration]
    BY DEF ClientsInv, ClientsTypeOK
  <2> QED BY <2>1, <2>2, StayClients
<1> QED BY <1>1, <1>2, <1>3, <1>4, <1>5, <1>6, <1>7, <1>8, <1>9 DEF ClientsNext, Step

LEMMA ClientsAlways == ClientsSpec => []ClientsInv
<1>1. ClientsInit => ClientsInv
  BY ClientsStart
<1> QED BY <1>1, ClientsStep, PTL DEF ClientsSpec

\* The state of clients and queue has its type, and the queue keeps all of its
\* own invariants, however clients act, die, come again and are renamed.
THEOREM ClientsTypeCorrect == ClientsSpec => [](ClientsTypeOK /\ QueueInv)
<1>1. ClientsInv => ClientsTypeOK /\ QueueInv
  BY DEF ClientsInv, IInv
<1> QED BY <1>1, ClientsAlways, PTL

\* A client that is told that the servers are ready has a key, if clients poll
\* before their turn could time out.
THEOREM ReadyCorrect ==
  ASSUME Punctual
  PROVE  ClientsSpec => []ReadyMeansKey
<1>1. ClientsInv => ReadyMeansKey
  BY DEF ClientsInv
<1> QED BY <1>1, ClientsAlways, PTL

\* If besides there is a place for everybody, a client that waits for its turn
\* is in the queue: nobody is evicted who does not know of its turn.
THEOREM WaitersCorrect ==
  ASSUME Punctual, Roomy
  PROVE  ClientsSpec => []WaitersAreQueued
<1>1. ClientsInv => WaitersAreQueued
  BY DEF ClientsInv
<1> QED BY <1>1, ClientsAlways, PTL

-----------------------------------------------------------------------------
Harmless ==
  \A c \in AccessKeys :
    pc[c] = "finish" /\ pc'[c] = "done" =>
      /\ Waiting(users') = IF KeyIsValid(c, held[c]) THEN Waiting(users) \ {c}
                           ELSE Waiting(users)
      /\ \A d \in AccessKeys \ {c} : KeyIsValid(d, held[d]) => KeyIsValid(d, held[d])'

LEMMA FinishIsHarmless ==
  ASSUME ClientsInv, ListedAreWaiting', ClientsNext
  PROVE  Harmless
<1> SUFFICES ASSUME NEW c \in AccessKeys, pc[c] = "finish", pc'[c] = "done"
             PROVE  /\ Waiting(users') = IF KeyIsValid(c, held[c]) THEN Waiting(users) \ {c}
                                         ELSE Waiting(users)
                    /\ \A d \in AccessKeys \ {c} : KeyIsValid(d, held[d]) => KeyIsValid(d, held[d])'
  BY DEF Harmless
<1>1. IInv /\ pc \in [AccessKeys -> Stage]
  BY DEF ClientsInv, ClientsTypeOK
<1>2. MarkFinished(c)
  <2>1. ASSUME NEW d \in AccessKeys, Step(d) \/ ComeAgain(d) \/ Crash(d) PROVE MarkFinished(c)
    BY <1>1, <2>1 DEF Step, EnterQueue, Poll, RequestComputation, ComputationEnds, MarkFinished,
                      ComeAgain, Crash, Goto
  <2> QED BY <2>1 DEF ClientsNext, TimePasses
<1>3. CASE KeyIsValid(c, held[c]) /\ PopHead
  <2>1. user_positions[c] = 0 /\ users # <<>>
    BY <1>1, <1>3, SomebodyIsHead DEF KeyIsValid
  <2>2. \A a \in AccessKeys : user_positions[a] = 0 <=> a = c
    BY <1>1, <2>1, WhoIsHead
  <2>3. \A a \in AccessKeys :
          user_positions'[a] # None <=> user_positions[a] # None /\ user_positions[a] # 0
    BY <1>1, <1>3, <2>1, PopEffect
  <2>4. Waiting(users) = {a \in AccessKeys : user_positions[a] # None}
    BY <1>1, WaitingIs DEF ListedAreWaiting
  <2>5. Waiting(users') = {a \in AccessKeys : user_positions'[a] # None}
    BY DEF ListedAreWaiting, Waiting
  <2>6. Waiting(users') = Waiting(users) \ {c}
    BY <2>2, <2>3, <2>4, <2>5
  <2>7. \A d \in AccessKeys \ {c} : ~KeyIsValid(d, held[d])
    BY <2>2 DEF KeyIsValid
  <2> QED BY <1>3, <2>6, <2>7
<1>4. CASE ~KeyIsValid(c, held[c]) /\ UNCHANGED queueVars
  BY <1>2, <1>4 DEF MarkFinished, queueVars, KeyIsValid, Waiting
<1> QED BY <1>2, <1>3, <1>4 DEF MarkFinished, finish_computation

\* A client that reports the end of its computation takes the turn from nobody
\* else, even if its own has timed out before: with a key that is no longer
\* valid nothing changes, and with a valid one only the client itself leaves.
THEOREM LateFinishCorrect == ClientsSpec => LateFinishIsHarmless
<1>1. ClientsInv /\ ListedAreWaiting' /\ [ClientsNext]_vars => [Harmless]_vars
  BY FinishIsHarmless
<1>2. [Harmless]_vars <=> 
        [\A c \in AccessKeys :
           pc[c] = "finish" /\ pc'[c] = "done" =>
             /\ Waiting(users') = IF KeyIsValid(c, held[c]) THEN Waiting(users) \ {c}
                                  ELSE Waiting(users)
             /\ \A d \in AccessKeys \ {c} : KeyIsValid(d, held[d]) => KeyIsValid(d, held[d])']_vars
  BY DEF Harmless
<1>3. ClientsInv => ListedAreWaiting
  BY WaitingIs DEF ClientsInv
<1> QED BY <1>1, <1>2, <1>3, ClientsAlways, PTL DEF ClientsSpec, LateFinishIsHarmless

\* Renaming tokens by their rank, which keeps their number bounded, makes no
\* difference to anybody: the other clients' keys are as valid as before.
LEMMA RenamingIsInvisible ==
  ASSUME ClientsInv, NEW c \in AccessKeys, ComeAgain(c), NEW d \in AccessKeys \ {c}
  PROVE  KeyIsValid(d, held[d])' <=> KeyIsValid(d, held[d])
<1> DEFINE kept == [held EXCEPT ![c] = None]
<1>1. /\ held \in [AccessKeys -> Nat \cup {None}] /\ IInv
      /\ UNCHANGED user_positions /\ Rename(kept)
  BY DEF ClientsInv, ClientsTypeOK, ComeAgain
<1>2. /\ kept \in [AccessKeys -> Nat \cup {None}]
      /\ \A e \in AccessKeys : kept[e] # None => kept[e] <= issued
      /\ kept[d] = held[d]
  BY <1>1 DEF ClientsInv, HeldInv
<1> HIDE DEF kept
<1>3. IInv' /\ DOMAIN users' = 1 .. Len(users) /\ (held'[d] = issued' <=> kept[d] = issued)
  BY <1>1, <1>2, RenameEffect
<1>4. user_positions[d] = 0 =>
        users[1].computation_key = issued /\ users'[1].computation_key = issued'
  <2> SUFFICES ASSUME user_positions[d] = 0
               PROVE  users[1].computation_key = issued /\ users'[1].computation_key = issued'
    OBVIOUS
  <2>1. 1 \in 1 .. Len(users)
    BY <1>1, ListOK, PositionMeans, QueueAssumption
  <2>2. DOMAIN users = 1 .. Len(users)
    BY <1>1, ListOK
  <2> QED BY <1>1, <1>3, <2>1, <2>2 DEF IInv, QueueInv, OnlyHeadHasTurn
<1> QED BY <1>1, <1>2, <1>3, <1>4 DEF KeyIsValid
=============================================================================
