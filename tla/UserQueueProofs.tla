--------------------------- MODULE UserQueueProofs ---------------------------
(***************************************************************************)
(* Proofs about UserQueue for any access keys, queue size and timeout: its *)
(* invariants are inductive together, and it implements TurnLease.         *)
(*                                                                         *)
(* Every operation first makes a list us out of users and then lets the    *)
(* head of us have its turn.  NextList says what us must be for the        *)
(* invariants to hold again; each action is then a matter of its list.     *)
(***************************************************************************)
EXTENDS UserQueue, SequenceTheorems, TLAPS

\* What NoDuplicates says, of any list.
Distinct(us) == \A i, j \in 1 .. Len(us) :
                  us[i].access_key = us[j].access_key => i = j

\* A list at whose head is the last key drawn, or a user who is to get one.
Ready(us) == \A i \in 1 .. Len(us) :
               \/ us[i].age = None /\ us[i].computation_key = None
               \/ i = 1 /\ us[i].age # None /\ us[i].computation_key = issued

IInv == QueueTypeOK /\ QueueInv

-----------------------------------------------------------------------------
\* _build_position_map on a list without duplicates: who is at place i has
\* position i - 1, who is in no place has none.
LEMMA PositionOf ==
  ASSUME NEW us \in Seq(User), Distinct(us), NEW ak \in AccessKeys
  PROVE  /\ \A i \in 1 .. Len(us) :
              us[i].access_key = ak => PositionMap(us)[ak] = i - 1
         /\ (\A i \in 1 .. Len(us) : us[i].access_key # ak)
              => PositionMap(us)[ak] = None
<1>1. DOMAIN us = 1 .. Len(us) /\ Len(us) \in Nat
  BY LenProperties
<1>2. ASSUME NEW i \in 1 .. Len(us), us[i].access_key = ak
      PROVE  PositionMap(us)[ak] = i - 1
  <2> DEFINE Last(k) == /\ us[k].access_key = ak
                        /\ \A j \in DOMAIN us : us[j].access_key = ak => j <= k
  <2>1. \A k \in DOMAIN us : Last(k) <=> k = i
    BY <1>1, <1>2 DEF Distinct
  <2>2. (CHOOSE k \in DOMAIN us : Last(k)) = i
    BY <1>1, <2>1
  <2>3. PositionMap(us)[ak] = (CHOOSE k \in DOMAIN us : Last(k)) - 1
    BY <1>1, <1>2 DEF PositionMap
  <2> QED BY <2>2, <2>3
<1>3. ASSUME \A i \in 1 .. Len(us) : us[i].access_key # ak
      PROVE  PositionMap(us)[ak] = None
  BY <1>1, <1>3 DEF PositionMap
<1> QED BY <1>2, <1>3

\* The position map is a function from the access keys to positions.
LEMMA PositionMapType ==
  ASSUME NEW us \in Seq(User), Distinct(us)
  PROVE  PositionMap(us) \in [AccessKeys -> Nat \cup {None}]
<1>1. \A ak \in AccessKeys : PositionMap(us)[ak] \in Nat \cup {None}
  <2> TAKE ak \in AccessKeys
  <2>1. CASE \E i \in 1 .. Len(us) : us[i].access_key = ak
    BY <2>1, PositionOf
  <2>2. CASE \A i \in 1 .. Len(us) : us[i].access_key # ak
    BY <2>2, PositionOf
  <2> QED BY <2>1, <2>2
<1> QED BY <1>1 DEF PositionMap

\* It is the only function with these values.
LEMMA PositionMapIs ==
  ASSUME NEW us \in Seq(User), Distinct(us),
         NEW f \in [AccessKeys -> Nat \cup {None}],
         \A i \in 1 .. Len(us) : f[us[i].access_key] = i - 1,
         \A ak \in AccessKeys :
           (\A i \in 1 .. Len(us) : us[i].access_key # ak) => f[ak] = None
  PROVE  f = PositionMap(us)
<1>1. \A ak \in AccessKeys : f[ak] = PositionMap(us)[ak]
  <2> TAKE ak \in AccessKeys
  <2>1. CASE \E i \in 1 .. Len(us) : us[i].access_key = ak
    BY <2>1, PositionOf
  <2>2. CASE \A i \in 1 .. Len(us) : us[i].access_key # ak
    BY <2>2, PositionOf
  <2> QED BY <2>1, <2>2
<1>2. PositionMap(us) \in [AccessKeys -> Nat \cup {None}]
  BY PositionMapType
<1> QED BY <1>1, <1>2

\* The map depends on the access keys in the list and nothing else of it.
LEMMA SameNamesSameMap ==
  ASSUME NEW us \in Seq(User), Distinct(us), NEW vs \in Seq(User),
         Len(vs) = Len(us),
         \A i \in 1 .. Len(us) : vs[i].access_key = us[i].access_key
  PROVE  PositionMap(us) = PositionMap(vs)
<1>1. Distinct(vs)
  BY DEF Distinct
<1>2. PositionMap(us) \in [AccessKeys -> Nat \cup {None}]
  BY PositionMapType
<1>3. \A i \in 1 .. Len(vs) : PositionMap(us)[vs[i].access_key] = i - 1
  <2> TAKE i \in 1 .. Len(vs)
  <2>0. us[i] \in User
    BY ElementOfSeq
  <2>1. us[i].access_key \in AccessKeys
    BY <2>0 DEF User
  <2> QED BY <2>1, PositionOf
<1>4. \A ak \in AccessKeys : (\A i \in 1 .. Len(vs) : vs[i].access_key # ak)
                               => PositionMap(us)[ak] = None
  BY PositionOf
<1> QED BY <1>1, <1>2, <1>3, <1>4, PositionMapIs

\* What an access key's position says of the list.
LEMMA PositionMeans ==
  ASSUME NEW us \in Seq(User), Distinct(us), NEW ak \in AccessKeys
  PROVE  /\ PositionMap(us)[ak] = None
              <=> \A i \in 1 .. Len(us) : us[i].access_key # ak
         /\ PositionMap(us)[ak] # None =>
              /\ PositionMap(us)[ak] + 1 \in 1 .. Len(us)
              /\ us[PositionMap(us)[ak] + 1].access_key = ak
<1>1. None \notin Nat
  BY QueueAssumption
<1>2. ASSUME NEW i \in 1 .. Len(us), us[i].access_key = ak
      PROVE  PositionMap(us)[ak] = i - 1 /\ i - 1 \in Nat /\ (i - 1) + 1 = i
  <2>1. PositionMap(us)[ak] = i - 1
    BY <1>2, PositionOf
  <2> QED BY <2>1, LenProperties
<1>3. (\A i \in 1 .. Len(us) : us[i].access_key # ak) => PositionMap(us)[ak] = None
  BY PositionOf
<1> QED BY <1>1, <1>2, <1>3

-----------------------------------------------------------------------------
\* _set_queue_head_data_if_needed on the list us.
LEMMA HeadData ==
  ASSUME issued \in Nat, NEW us \in Seq(User), Ready(us), SetQueueHeadData(us)
  PROVE  /\ users' \in Seq(User)
         /\ Len(users') = Len(us)
         /\ \A i \in 1 .. Len(us) : users'[i].access_key = us[i].access_key
         /\ issued' \in Nat
         /\ OnlyHeadHasTurn'
<1>0. /\ None \notin Nat
      /\ 0 \in 0 .. HeadTimeout + 1
  BY QueueAssumption
<1>1. /\ Len(us) \in Nat
      /\ DOMAIN us = 1 .. Len(us)
      /\ us # <<>> => 1 \in 1 .. Len(us)
      /\ \A i \in 1 .. Len(us) : us[i] \in User
  BY LenProperties, ElementOfSeq, EmptySeq
<1>2. CASE NeedsHeadData(us)
  <2> DEFINE e == [us[1] EXCEPT !.age = 0, !.computation_key = issued + 1]
  <2>1. us[1] \in User /\ us # <<>> /\ us[1].age = None
    BY <1>1, <1>2 DEF NeedsHeadData
  <2>2. /\ e \in User
        /\ e.access_key = us[1].access_key
        /\ e.age = 0
        /\ e.computation_key = issued + 1
    <3>1. ASSUME NEW h \in User, NEW n \in Nat
          PROVE  LET f == [h EXCEPT !.age = 0, !.computation_key = n]
                 IN  /\ f \in User
                     /\ f.access_key = h.access_key
                     /\ f.age = 0
                     /\ f.computation_key = n
      BY <1>0 DEF User
    <3>2. issued + 1 \in Nat
      OBVIOUS
    <3> QED BY ONLY <2>1, <3>1, <3>2
  <2>3. users' = [us EXCEPT ![1] = e] /\ issued' = issued + 1
    BY <1>2 DEF SetQueueHeadData
  <2>4. /\ users' \in Seq(User)
        /\ Len(users') = Len(us)
        /\ \A j \in 1 .. Len(us) : users'[j] = IF j = 1 THEN e ELSE us[j]
    <3> HIDE DEF e
    <3> QED BY <1>1, <2>1, <2>2, <2>3, ExceptSeq
  <2>5. DOMAIN users' = 1 .. Len(us)
    BY <2>4, LenProperties
  <2>6. \A i \in 1 .. Len(us) : i # 1 => us[i].age = None /\ us[i].computation_key = None
    BY DEF Ready
  <2>7. OnlyHeadHasTurn'
    <3> HIDE DEF e
    <3> QED BY <1>0, <2>2, <2>3, <2>4, <2>5, <2>6 DEF OnlyHeadHasTurn
  <2> HIDE DEF e
  <2> QED BY <2>2, <2>3, <2>4, <2>7
<1>3. CASE ~NeedsHeadData(us)
  <2>1. users' = us /\ issued' = issued
    BY <1>3 DEF SetQueueHeadData
  <2>2. us # <<>> => us[1].age # None
    BY <1>3 DEF NeedsHeadData
  <2>3. ASSUME NEW i \in 1 .. Len(us)
        PROVE  /\ us[i].age # None <=> i = 1
               /\ us[i].computation_key = IF i = 1 THEN issued ELSE None
    <3>1. us # <<>>
      BY <1>1, EmptySeq
    <3> QED BY <1>1, <2>2, <3>1 DEF Ready
  <2> QED BY <1>1, <2>1, <2>3 DEF OnlyHeadHasTurn
<1> QED BY <1>2, <1>3

\* An operation that makes us of the list, rebuilds or updates the dictionary
\* to fit us and sets the data of the head, restores all invariants.
LEMMA NextList ==
  ASSUME issued \in Nat, NEW us \in Seq(User), Ready(us), Distinct(us),
         Len(us) <= MaxSize, SetQueueHeadData(us),
         user_positions' = PositionMap(us)
  PROVE  IInv'
<1>1. /\ users' \in Seq(User)
      /\ Len(users') = Len(us)
      /\ \A i \in 1 .. Len(us) : users'[i].access_key = us[i].access_key
      /\ issued' \in Nat
      /\ OnlyHeadHasTurn'
  BY HeadData
<1>2. DOMAIN users' = 1 .. Len(us) /\ DOMAIN us = 1 .. Len(us)
  BY <1>1, LenProperties
<1>3. NoDuplicates' /\ Distinct(users')
  BY <1>1, <1>2 DEF NoDuplicates, Distinct
<1>4. PositionMap(us) \in [AccessKeys -> Nat \cup {None}]
  BY PositionMapType
<1>5. PositionMap(us) = PositionMap(users')
  BY <1>1, SameNamesSameMap
<1>6. PositionsAgree'
  BY <1>5 DEF PositionsAgree, PositionMap
<1>7. Bounded'
  BY <1>1 DEF Bounded
<1> QED BY <1>1, <1>3, <1>4, <1>6, <1>7 DEF IInv, QueueTypeOK, QueueInv

\* In a state with the invariants, the list itself is such a list.
LEMMA ListOK ==
  ASSUME IInv
  PROVE  /\ users \in Seq(User)
         /\ Len(users) \in Nat
         /\ DOMAIN users = 1 .. Len(users)
         /\ issued \in Nat
         /\ Distinct(users)
         /\ Ready(users)
         /\ Len(users) <= MaxSize
         /\ user_positions = PositionMap(users)
<1>1. users \in Seq(User) /\ issued \in Nat
  BY DEF IInv, QueueTypeOK
<1>2. Len(users) \in Nat /\ DOMAIN users = 1 .. Len(users)
  BY <1>1, LenProperties
<1>3. Distinct(users)
  BY <1>2 DEF IInv, QueueInv, NoDuplicates, Distinct
<1>4. Ready(users)
  BY <1>2 DEF IInv, QueueInv, OnlyHeadHasTurn, Ready
<1> QED BY <1>1, <1>2, <1>3, <1>4 DEF IInv, QueueInv, Bounded, PositionsAgree

\* The user that finish_computation and the timeout remove was the head; the
\* list without it is ready for the next.
LEMMA PopKeepsInv ==
  ASSUME IInv, users # <<>>, PopHead
  PROVE  IInv'
<1> DEFINE us == Pop(users)
<1>1. /\ us \in Seq(User)
      /\ Len(us) = Len(users) - 1
      /\ \A i \in 1 .. Len(us) : us[i] = users[i + 1]
  BY ListOK, HeadTailProperties DEF Pop
<1>2. \A i \in 1 .. Len(us) : i + 1 \in 1 .. Len(users) /\ i + 1 # 1
  BY <1>1, ListOK
<1>3. Distinct(us)
  <2> SUFFICES ASSUME NEW i \in 1 .. Len(us), NEW j \in 1 .. Len(us),
                      us[i].access_key = us[j].access_key
               PROVE  i = j
    BY DEF Distinct
  <2>1. i + 1 = j + 1
    <3> HIDE DEF us
    <3> QED BY <1>1, <1>2, ListOK DEF Distinct
  <2> QED BY <2>1
<1>4. Ready(us)
  <2> HIDE DEF us
  <2> QED BY <1>1, <1>2, ListOK DEF Ready
<1>5. Len(us) <= MaxSize
  BY <1>1, ListOK, QueueAssumption
<1>6. SetQueueHeadData(us) /\ user_positions' = PositionMap(us)
  BY DEF PopHead
<1> HIDE DEF us
<1> QED BY <1>1, <1>3, <1>4, <1>5, <1>6, ListOK, NextList

\* A user whom the dictionary does not know is nowhere in the list.
LEMMA NewcomerIsNew ==
  ASSUME IInv, NEW ak \in AccessKeys, AddResult(ak) = "SUCCEEDED"
  PROVE  /\ Len(users) < MaxSize
         /\ \A i \in 1 .. Len(users) : users[i].access_key # ak
         /\ NewUser(ak) \in User
<1>1. Len(users) # MaxSize /\ user_positions[ak] = None
  BY DEF AddResult
<1>2. NewUser(ak) \in User
  BY DEF NewUser, User
<1>3. Len(users) < MaxSize
  <2>1. Len(users) <= MaxSize /\ Len(users) \in Nat
    BY ListOK
  <2> QED BY <1>1, <2>1, QueueAssumption
<1>4. \A i \in 1 .. Len(users) : users[i].access_key # ak
  BY <1>1, ListOK, PositionMeans
<1> QED BY <1>2, <1>3, <1>4

\* add_user: the newcomer goes to the end and its position is the length.
LEMMA AddUserKeepsInv ==
  ASSUME IInv, NEW ak \in AccessKeys, add_user(ak)
  PROVE  IInv'
<1> DEFINE us == Append(users, NewUser(ak))
<1>0. /\ Len(users) < MaxSize
      /\ \A i \in 1 .. Len(users) : users[i].access_key # ak
      /\ NewUser(ak) \in User
      /\ NewUser(ak).access_key = ak
      /\ NewUser(ak).age = None
      /\ NewUser(ak).computation_key = None
  BY NewcomerIsNew DEF add_user, NewUser
<1>1. /\ us \in Seq(User)
      /\ Len(us) = Len(users) + 1
      /\ \A i \in 1 .. Len(users) : us[i] = users[i]
      /\ us[Len(users) + 1] = NewUser(ak)
  BY <1>0, ListOK, AppendProperties
<1>2. SetQueueHeadData(us) /\ user_positions' = [user_positions EXCEPT ![ak] = Len(users)]
  BY DEF add_user
<1> HIDE DEF us
<1>3. Distinct(us)
  BY <1>0, <1>1, ListOK DEF Distinct
<1>4. Ready(us)
  BY <1>0, <1>1, ListOK DEF Ready
<1>5. user_positions' = PositionMap(us)
  <2>1. user_positions \in [AccessKeys -> Nat \cup {None}]
    BY DEF IInv, QueueTypeOK
  <2>2. user_positions' \in [AccessKeys -> Nat \cup {None}]
    BY <1>2, <2>1, ListOK
  <2>3. \A i \in 1 .. Len(us) : user_positions'[us[i].access_key] = i - 1
    <3> TAKE i \in 1 .. Len(us)
    <3>1. CASE i = Len(users) + 1
      BY <1>0, <1>1, <1>2, <2>1, <3>1, ListOK
    <3>2. CASE i \in 1 .. Len(users)
      <4>1. users[i] \in User /\ us[i] = users[i]
        BY <1>1, <3>2, ListOK, ElementOfSeq
      <4>2. users[i].access_key \in AccessKeys /\ users[i].access_key # ak
        BY <1>0, <3>2, <4>1 DEF User
      <4>3. user_positions[users[i].access_key] = i - 1
        BY <3>2, <4>2, ListOK, PositionOf
      <4> QED BY <1>2, <2>1, <4>1, <4>2, <4>3
    <3> QED BY <1>1, <3>1, <3>2, ListOK
  <2>4. ASSUME NEW a \in AccessKeys, \A i \in 1 .. Len(us) : us[i].access_key # a
        PROVE  user_positions'[a] = None
    <3>1. a # ak
      BY <1>0, <1>1, <2>4, ListOK
    <3>2. \A i \in 1 .. Len(users) : users[i].access_key # a
      BY <1>1, <2>4, ListOK
    <3>3. user_positions[a] = None
      BY <3>2, ListOK, PositionOf
    <3> QED BY <1>2, <2>1, <3>1, <3>3
  <2> QED BY <1>1, <1>3, <2>2, <2>3, <2>4, PositionMapIs
<1>6. Len(us) <= MaxSize
  BY <1>0, <1>1, ListOK, QueueAssumption
<1> QED BY <1>1, <1>2, <1>3, <1>4, <1>5, <1>6, ListOK, NextList

\* The list with u at the second place, or alone at the first.
LEMMA InsertedSecond ==
  ASSUME IInv, NEW u \in User
  PROVE  LET us == InsertSecond(users, u)
             place == IF users = <<>> THEN 1 ELSE 2
         IN  /\ us \in Seq(User)
             /\ Len(us) = Len(users) + 1
             /\ place \in 1 .. Len(us)
             /\ us[place] = u
             /\ \A i \in 1 .. Len(us) : i # place =>
                   LET j == IF i = 1 THEN 1 ELSE i - 1
                   IN  j \in 1 .. Len(users) /\ us[i] = users[j]
<1> DEFINE us == InsertSecond(users, u)
<1>1. users = <<>> <=> Len(users) = 0
  BY ListOK, EmptySeq
<1>2. us = [i \in 1 .. Len(users) + 1 |->
              IF users = <<>> \/ i = 2 THEN u
              ELSE IF i = 1 THEN users[1] ELSE users[i - 1]]
  BY DEF InsertSecond
<1> HIDE DEF us
<1>3. \A i \in 1 .. Len(users) : users[i] \in User
  BY ListOK, ElementOfSeq
<1>4. \A i \in 1 .. Len(users) + 1 : us[i] \in User
  BY <1>1, <1>2, <1>3, ListOK
<1>5. us \in [1 .. Len(users) + 1 -> User]
  BY <1>2, <1>4
<1>6. us \in Seq(User) /\ Len(us) = Len(users) + 1
  BY <1>5, ListOK, SeqDef
<1>7. /\ us \in Seq(User)
      /\ Len(us) = Len(users) + 1
      /\ (IF users = <<>> THEN 1 ELSE 2) \in 1 .. Len(us)
      /\ us[IF users = <<>> THEN 1 ELSE 2] = u
      /\ \A i \in 1 .. Len(us) : i # (IF users = <<>> THEN 1 ELSE 2) =>
            LET j == IF i = 1 THEN 1 ELSE i - 1
            IN  j \in 1 .. Len(users) /\ us[i] = users[j]
  BY <1>1, <1>2, <1>6, ListOK
<1> QED BY <1>7 DEF us

\* add_priority_user: the newcomer goes behind the head, and the dictionary
\* moves everybody but the head one place back.
LEMMA AddPriorityUserKeepsInv ==
  ASSUME IInv, NEW ak \in AccessKeys, add_priority_user(ak)
  PROVE  IInv'
<1> DEFINE us == InsertSecond(users, NewUser(ak))
           place == IF users = <<>> THEN 1 ELSE 2
<1>0. /\ Len(users) < MaxSize
      /\ \A i \in 1 .. Len(users) : users[i].access_key # ak
      /\ NewUser(ak) \in User
      /\ NewUser(ak).access_key = ak
      /\ NewUser(ak).age = None
      /\ NewUser(ak).computation_key = None
  BY NewcomerIsNew DEF add_priority_user, NewUser
<1>1. users = <<>> <=> Len(users) = 0
  BY ListOK, EmptySeq
<1>2. /\ us \in Seq(User)
      /\ Len(us) = Len(users) + 1
      /\ place \in 1 .. Len(us)
      /\ us[place] = NewUser(ak)
      /\ \A i \in 1 .. Len(us) : i # place =>
            LET j == IF i = 1 THEN 1 ELSE i - 1
            IN  j \in 1 .. Len(users) /\ us[i] = users[j]
  BY <1>0, InsertedSecond
<1>3. /\ SetQueueHeadData(us)
      /\ user_positions' =
           [a \in AccessKeys |->
              IF a = ak THEN place - 1
              ELSE IF user_positions[a] \notin {None, 0} THEN user_positions[a] + 1
              ELSE user_positions[a]]
  BY DEF add_priority_user
<1> HIDE DEF us
<1>4. Distinct(us)
  <2> SUFFICES ASSUME NEW i \in 1 .. Len(us), NEW j \in 1 .. Len(us),
                      us[i].access_key = us[j].access_key
               PROVE  i = j
    BY DEF Distinct
  <2>1. CASE i = place \/ j = place
    BY <1>0, <1>2, <2>1, ListOK
  <2>2. CASE i # place /\ j # place
    <3>1. users[IF i = 1 THEN 1 ELSE i - 1].access_key
            = users[IF j = 1 THEN 1 ELSE j - 1].access_key
      BY <1>2, <2>2
    <3>2. (IF i = 1 THEN 1 ELSE i - 1) = (IF j = 1 THEN 1 ELSE j - 1)
      BY <1>2, <2>2, <3>1, ListOK DEF Distinct
    <3> QED BY <1>1, <1>2, <2>2, <3>2, ListOK
  <2> QED BY <2>1, <2>2
<1>5. Ready(us)
  BY <1>0, <1>1, <1>2, ListOK DEF Ready
<1>6. user_positions' = PositionMap(us)
  <2>0. user_positions \in [AccessKeys -> Nat \cup {None}] /\ None \notin Nat
    BY QueueAssumption DEF IInv, QueueTypeOK
  <2>1. user_positions' \in [AccessKeys -> Nat \cup {None}]
    BY <1>3, <2>0
  <2>2. \A i \in 1 .. Len(us) : user_positions'[us[i].access_key] = i - 1
    <3> TAKE i \in 1 .. Len(us)
    <3>1. CASE i = place
      BY <1>0, <1>2, <1>3, <3>1
    <3>2. CASE i # place
      <4> DEFINE j == IF i = 1 THEN 1 ELSE i - 1
                 a == us[i].access_key
      <4>1. j \in 1 .. Len(users) /\ us[i] = users[j]
        BY <1>2, <3>2
      <4>2. users[j] \in User
        BY <4>1, ListOK, ElementOfSeq
      <4>3. a \in AccessKeys /\ a # ak
        BY <1>0, <4>1, <4>2 DEF User
      <4>4. user_positions[a] = j - 1
        <5> HIDE DEF j
        <5> QED BY <4>1, <4>3, ListOK, PositionOf
      <4>5. i # 2
        BY <1>1, <1>2, <3>2, <4>1, ListOK
      <4>6. j - 1 \in Nat
        BY <4>1, ListOK
      <4> HIDE DEF a
      <4>7. user_positions'[a] = IF j - 1 # 0 THEN j ELSE 0
        BY <1>3, <2>0, <4>3, <4>4, <4>6
      <4>8. user_positions'[a] = i - 1
        BY <4>5, <4>7
      <4> QED BY <4>8 DEF a
    <3> QED BY <3>1, <3>2
  <2>3. ASSUME NEW a \in AccessKeys, \A i \in 1 .. Len(us) : us[i].access_key # a
        PROVE  user_positions'[a] = None
    <3>1. a # ak
      BY <1>0, <1>2, <2>3
    <3>2. ASSUME NEW k \in 1 .. Len(users) PROVE users[k].access_key # a
      <4> DEFINE i == IF k = 1 THEN 1 ELSE k + 1
      <4>1. i \in 1 .. Len(us) /\ i # place /\ (IF i = 1 THEN 1 ELSE i - 1) = k
        BY <1>1, <1>2, ListOK
      <4>2. us[i] = users[k]
        <5> HIDE DEF i
        <5> QED BY <1>2, <4>1
      <4> HIDE DEF i
      <4> QED BY <2>3, <4>1, <4>2
    <3>3. user_positions[a] = None
      BY <3>2, ListOK, PositionOf
    <3> QED BY <1>3, <3>1, <3>3
  <2> QED BY <1>2, <1>4, <2>1, <2>2, <2>3, PositionMapIs
<1>7. Len(us) <= MaxSize
  BY <1>0, <1>2, ListOK, QueueAssumption
<1> QED BY <1>2, <1>3, <1>4, <1>5, <1>6, <1>7, ListOK, NextList

\* The reads, the clock and a restart.
LEMMA StayKeepsInv ==
  ASSUME IInv, UNCHANGED queueVars
  PROVE  IInv'
BY DEF queueVars, IInv, QueueInv, QueueTypeOK, NoDuplicates, PositionsAgree,
       Bounded, OnlyHeadHasTurn, PositionMap

LEMMA TimeoutKeepsInv ==
  ASSUME IInv, timeout_head_user
  PROVE  IInv'
BY PopKeepsInv, StayKeepsInv DEF timeout_head_user, HeadExpired

LEMMA GetKeyKeepsInv ==
  ASSUME IInv, NEW ak \in AccessKeys, get_computation_key(ak)
  PROVE  IInv'
<1>1. CASE HeadExpired /\ timeout_head_user
  BY <1>1, TimeoutKeepsInv
<1>2. CASE /\ IF user_positions[ak] = 0 THEN SetQueueHeadData(users)
                                        ELSE UNCHANGED <<users, issued>>
           /\ UNCHANGED user_positions
  <2>1. CASE user_positions[ak] = 0
    BY <1>2, <2>1, ListOK, NextList
  <2>2. CASE user_positions[ak] # 0
    BY <1>2, <2>2, StayKeepsInv DEF queueVars
  <2> QED BY <2>1, <2>2
<1> QED BY <1>1, <1>2 DEF get_computation_key

LEMMA TickKeepsInv ==
  ASSUME IInv, Tick
  PROVE  IInv'
<1> DEFINE e == [users[1] EXCEPT !.age = users[1].age + 1]
<1>1. /\ users # <<>> /\ 1 \in 1 .. Len(users) /\ users[1] \in User
      /\ users[1].age # None /\ users[1].age <= HeadTimeout
  <2>1. users # <<>> /\ users[1].age # None /\ ~(users[1].age > HeadTimeout)
    BY DEF Tick, HeadExpired
  <2>2. 1 \in 1 .. Len(users)
    BY <2>1, ListOK, EmptySeq
  <2>3. users[1] \in User
    BY <2>2, ListOK, ElementOfSeq
  <2>4. users[1].age \in Nat
    BY <2>1, <2>3, QueueAssumption DEF User
  <2> QED BY <2>1, <2>2, <2>3, <2>4, QueueAssumption
<1>2. /\ e \in User /\ e.access_key = users[1].access_key
      /\ e.computation_key = users[1].computation_key /\ e.age # None
  BY <1>1, QueueAssumption DEF User
<1>3. users' = [users EXCEPT ![1] = e] /\ UNCHANGED <<user_positions, issued>>
  BY DEF Tick
<1> HIDE DEF e
<1>4. /\ users' \in Seq(User)
      /\ Len(users') = Len(users)
      /\ \A j \in 1 .. Len(users) : users'[j] = IF j = 1 THEN e ELSE users[j]
  BY <1>1, <1>2, <1>3, ListOK, ExceptSeq
<1>5. DOMAIN users' = DOMAIN users
  BY <1>4, LenProperties, ListOK
<1>6. \A j \in 1 .. Len(users) : users'[j].access_key = users[j].access_key
  BY <1>2, <1>4
<1>7. PositionsAgree'
  <2>1. PositionMap(users') = PositionMap(users)
    BY <1>4, <1>6, ListOK, SameNamesSameMap
  <2> QED BY <1>3, <2>1, ListOK DEF PositionsAgree, PositionMap
<1>8. NoDuplicates'
  BY <1>5, <1>6, ListOK DEF IInv, QueueInv, NoDuplicates
<1>9. OnlyHeadHasTurn'
  BY <1>2, <1>3, <1>4, <1>5, ListOK DEF IInv, QueueInv, OnlyHeadHasTurn
<1> QED BY <1>3, <1>4, <1>7, <1>8, <1>9, ListOK
        DEF IInv, QueueInv, QueueTypeOK, Bounded

LEMMA EmptyIsOK ==
  ASSUME users = <<>>, user_positions = [ak \in AccessKeys |-> None], issued \in Nat
  PROVE  IInv
<1>1. users \in Seq(User) /\ Len(users) = 0 /\ DOMAIN users = {}
  BY EmptySeq, LenProperties
<1>2. PositionMap(users) = [ak \in AccessKeys |-> None]
  BY <1>1 DEF PositionMap
<1> QED BY <1>1, <1>2, QueueAssumption
        DEF IInv, QueueInv, QueueTypeOK, NoDuplicates, PositionsAgree, Bounded,
            OnlyHeadHasTurn

-----------------------------------------------------------------------------
\* The queue starts with its invariants, and every step keeps them.
LEMMA InitInv == QueueInit => IInv
BY EmptyIsOK DEF QueueInit

LEMMA StepInv == IInv /\ [QueueNext]_queueVars => IInv'
<1> SUFFICES ASSUME IInv, [QueueNext]_queueVars
             PROVE  IInv'
  OBVIOUS
<1>1. ASSUME NEW ak \in AccessKeys, add_user(ak) PROVE IInv'
  BY <1>1, AddUserKeepsInv
<1>2. ASSUME NEW ak \in AccessKeys, add_priority_user(ak) PROVE IInv'
  BY <1>2, AddPriorityUserKeepsInv
<1>3. ASSUME NEW ak \in AccessKeys, get_computation_key(ak) PROVE IInv'
  BY <1>3, GetKeyKeepsInv
<1>4. ASSUME NEW ak \in AccessKeys, NEW key \in 1 .. issued, finish_computation(ak, key)
      PROVE  IInv'
  <2>1. user_positions[ak] = 0 /\ PopHead
    BY <1>4 DEF finish_computation, KeyIsValid
  <2>2. 1 \in 1 .. Len(users)
    BY <2>1, ListOK, PositionMeans, QueueAssumption
  <2>3. users # <<>>
    BY <2>2, EmptySeq
  <2> QED BY <2>1, <2>3, PopKeepsInv
<1>5. CASE validate_computation_key
  BY <1>5, TimeoutKeepsInv DEF validate_computation_key
<1>6. CASE Tick
  BY <1>6, TickKeepsInv
<1>7. CASE Restart
  <2>1. users' = <<>> /\ user_positions' = [ak \in AccessKeys |-> None] /\ issued' \in Nat
    BY <1>7, ListOK DEF Restart
  <2>2. PositionMap(users') = [ak \in AccessKeys |-> None]
    BY <2>1 DEF PositionMap
  <2> QED BY <2>1, <2>2, EmptySeq, LenProperties, QueueAssumption
          DEF IInv, QueueInv, QueueTypeOK, NoDuplicates, PositionsAgree, Bounded,
              OnlyHeadHasTurn, PositionMap
<1>8. CASE UNCHANGED queueVars
  BY <1>8, StayKeepsInv
<1> QED BY <1>1, <1>2, <1>3, <1>4, <1>5, <1>6, <1>7, <1>8 DEF QueueNext

\* In every reachable state the list and the dictionary agree, nobody waits
\* twice, the queue is within its bound and only the head has a running turn,
\* under the latest key.
THEOREM QueueCorrect == QueueSpec => [](QueueTypeOK /\ QueueInv)
<1>1. QueueSpec => []IInv
  BY InitInv, StepInv, PTL DEF QueueSpec
<1> QED BY <1>1, PTL DEF IInv

\* However add, add with priority and the ways to leave follow one another,
\* an access key has one place in the list at most: user_positions, which add_user
\* asks, knows everybody in it.
COROLLARY OnePlaceEach == QueueSpec => []NoDuplicates
BY QueueCorrect, PTL DEF QueueInv

\* The dictionary, which add_user extends, add_priority_user shifts and
\* _build_position_map makes anew, says of every access key what the list says.
COROLLARY PositionsCorrect == QueueSpec => []PositionsAgree
BY QueueCorrect, PTL DEF QueueInv

\* No two additions between them exceed user_queue_size.
COROLLARY NeverTooLong == QueueSpec => []Bounded
BY QueueCorrect, PTL DEF QueueInv

\* Whoever left and in whichever way, _set_queue_head_data_if_needed has given
\* the head, and only the head, the turn and the newest key.
COROLLARY HeadCorrect == QueueSpec => []OnlyHeadHasTurn
BY QueueCorrect, PTL DEF QueueInv

-----------------------------------------------------------------------------
\* A step that moves the users that stay by a monotone shift f, and the head
\* not at all, lets nobody overtake.
LEMMA ShiftKeepsOrder ==
  ASSUME IInv, IInv', NEW f \in [Nat -> Int],
         \A i, k \in Nat : i < k => f[i] < f[k],
         \A i \in 1 .. Len(users), j \in 1 .. Len(users') :
           users'[j].access_key = users[i].access_key
             => j = f[i] /\ (i = 1 => j = 1)
  PROVE  OrderKept
<1>0. /\ DOMAIN users = 1 .. Len(users) /\ Distinct(users)
      /\ Len(users) \in Nat
  BY ListOK
<1>1. /\ DOMAIN users' = 1 .. Len(users') /\ Distinct(users')
      /\ Len(users') \in Nat
  <2>1. users' \in Seq(User)
    BY DEF IInv, QueueTypeOK
  <2>2. DOMAIN users' = 1 .. Len(users') /\ Len(users') \in Nat
    BY <2>1, LenProperties
  <2> QED BY <2>2 DEF IInv, QueueInv, NoDuplicates, Distinct
<1> SUFFICES ASSUME NEW a \in Waiting(users), a \in Waiting(users'),
                    NEW b \in Waiting(users), b \in Waiting(users')
             PROVE  /\ Index(users, a) < Index(users, b)
                         => Index(users', a) < Index(users', b)
                    /\ Index(users, a) = 1 => Index(users', a) = 1
  BY DEF OrderKept
<1>2. /\ Index(users, a) \in 1 .. Len(users)
      /\ users[Index(users, a)].access_key = a
      /\ Index(users, b) \in 1 .. Len(users)
      /\ users[Index(users, b)].access_key = b
  BY <1>0 DEF Index, Waiting
<1>3. /\ Index(users', a) \in 1 .. Len(users')
      /\ users'[Index(users', a)].access_key = a
      /\ Index(users', b) \in 1 .. Len(users')
      /\ users'[Index(users', b)].access_key = b
  BY <1>1 DEF Index, Waiting
<1>4. /\ Index(users', a) = f[Index(users, a)]
      /\ Index(users', b) = f[Index(users, b)]
      /\ Index(users, a) = 1 => Index(users', a) = 1
  BY <1>2, <1>3
<1>5. Index(users, a) \in Nat /\ Index(users, b) \in Nat
  BY <1>0, <1>2
<1> QED BY <1>4, <1>5

\* The list on which _set_queue_head_data_if_needed works has the names of the
\* next one.
LEMMA SameNamesAfter ==
  ASSUME IInv, NEW us \in Seq(User), SetQueueHeadData(us)
  PROVE  /\ Len(users') = Len(us)
         /\ \A i \in 1 .. Len(us) : users'[i].access_key = us[i].access_key
<1>1. CASE NeedsHeadData(us)
  <2>1. 1 \in 1 .. Len(us)
    BY <1>1, EmptySeq, LenProperties DEF NeedsHeadData
  <2>2. us[1] \in User
    BY <2>1, ElementOfSeq
  <2> DEFINE e == [us[1] EXCEPT !.age = 0, !.computation_key = issued + 1]
  <2>3. users' = [us EXCEPT ![1] = e]
    BY <1>1 DEF SetQueueHeadData
  <2>4. e.access_key = us[1].access_key
    BY <2>2 DEF User
  <2> HIDE DEF e
  <2>5. us \in [1 .. Len(us) -> User] /\ Len(us) \in Nat
    BY LenProperties
  <2>6. DOMAIN users' = 1 .. Len(us)
    BY <2>3, <2>5
  <2>7. Len(users') = Len(us)
    BY <2>5, <2>6
  <2>8. \A i \in 1 .. Len(us) : users'[i] = IF i = 1 THEN e ELSE us[i]
    BY <2>3, <2>5
  <2> QED BY <2>4, <2>7, <2>8
<1>2. CASE ~NeedsHeadData(us)
  BY <1>2 DEF SetQueueHeadData
<1> QED BY <1>1, <1>2

LEMMA AddUserKeepsOrder ==
  ASSUME IInv, IInv', NEW ak \in AccessKeys, add_user(ak)
  PROVE  OrderKept
<1> DEFINE us == Append(users, NewUser(ak))
           f == [n \in Nat |-> n]
<1>0. /\ \A i \in 1 .. Len(users) : users[i].access_key # ak
      /\ NewUser(ak) \in User
      /\ NewUser(ak).access_key = ak
  BY NewcomerIsNew DEF add_user, NewUser
<1>1. /\ us \in Seq(User)
      /\ Len(us) = Len(users) + 1
      /\ \A i \in 1 .. Len(users) : us[i] = users[i]
      /\ us[Len(users) + 1] = NewUser(ak)
  BY <1>0, ListOK, AppendProperties
<1>2. SetQueueHeadData(us)
  BY DEF add_user
<1> HIDE DEF us
<1>3. /\ Len(users') = Len(us)
      /\ \A i \in 1 .. Len(us) : users'[i].access_key = us[i].access_key
  BY <1>1, <1>2, SameNamesAfter
<1>4. ASSUME NEW i \in 1 .. Len(users), NEW j \in 1 .. Len(users'),
             users'[j].access_key = users[i].access_key
      PROVE  j = i
  <2>1. j # Len(users) + 1
    BY <1>0, <1>1, <1>3, <1>4
  <2>2. j \in 1 .. Len(users)
    <3>1. Len(users') = Len(users) + 1 /\ Len(users) \in Nat
      BY <1>1, <1>3, ListOK
    <3> QED BY <2>1, <3>1
  <2> QED BY <1>1, <1>3, <1>4, <2>2, ListOK DEF Distinct
<1>5. f \in [Nat -> Int] /\ \A i, k \in Nat : i < k => f[i] < f[k]
  OBVIOUS
<1>6. \A i \in 1 .. Len(users), j \in 1 .. Len(users') :
        users'[j].access_key = users[i].access_key => j = f[i] /\ (i = 1 => j = 1)
  BY <1>4, ListOK
<1> HIDE DEF f
<1> QED BY <1>5, <1>6, ShiftKeepsOrder

LEMMA AddPriorityUserKeepsOrder ==
  ASSUME IInv, IInv', NEW ak \in AccessKeys, add_priority_user(ak)
  PROVE  OrderKept
<1> DEFINE us == InsertSecond(users, NewUser(ak))
           place == IF users = <<>> THEN 1 ELSE 2
           f == [n \in Nat |-> IF n <= 1 THEN n ELSE n + 1]
<1>0. /\ \A i \in 1 .. Len(users) : users[i].access_key # ak
      /\ NewUser(ak) \in User
      /\ NewUser(ak).access_key = ak
  BY NewcomerIsNew DEF add_priority_user, NewUser
<1>1. /\ us \in Seq(User)
      /\ Len(us) = Len(users) + 1
      /\ us[place] = NewUser(ak)
      /\ \A i \in 1 .. Len(us) : i # place =>
            LET j == IF i = 1 THEN 1 ELSE i - 1
            IN  j \in 1 .. Len(users) /\ us[i] = users[j]
  BY <1>0, InsertedSecond
<1>2. SetQueueHeadData(us)
  BY DEF add_priority_user
<1> HIDE DEF us
<1>3. /\ Len(users') = Len(us)
      /\ \A i \in 1 .. Len(us) : users'[i].access_key = us[i].access_key
  BY <1>1, <1>2, SameNamesAfter
<1>4. ASSUME NEW i \in 1 .. Len(users), NEW j \in 1 .. Len(users'),
             users'[j].access_key = users[i].access_key
      PROVE  j = f[i] /\ (i = 1 => j = 1)
  <2>1. j \in 1 .. Len(us) /\ us[j].access_key = users[i].access_key
    BY <1>3, <1>4
  <2>2. j # place
    BY <1>0, <1>1, <2>1
  <2>3. (IF j = 1 THEN 1 ELSE j - 1) \in 1 .. Len(users)
          /\ us[j] = users[IF j = 1 THEN 1 ELSE j - 1]
    BY <1>1, <2>1, <2>2
  <2>4. (IF j = 1 THEN 1 ELSE j - 1) = i
    BY <2>1, <2>3, ListOK DEF Distinct
  <2>5. users # <<>>
    BY ListOK, EmptySeq
  <2>6. j # 2
    BY <2>2, <2>5
  <2>7. i \in Nat /\ j \in Nat /\ j >= 1
    BY <2>1, <1>1, ListOK
  <2> QED BY <2>4, <2>6, <2>7
<1>5. f \in [Nat -> Int] /\ \A i, k \in Nat : i < k => f[i] < f[k]
  OBVIOUS
<1> HIDE DEF f, place
<1> QED BY <1>4, <1>5, ShiftKeepsOrder

LEMMA PopKeepsOrder ==
  ASSUME IInv, IInv', users # <<>>, PopHead
  PROVE  OrderKept
<1> DEFINE us == Pop(users)
           f == [n \in Nat |-> n - 1]
<1>1. /\ us \in Seq(User)
      /\ Len(us) = Len(users) - 1
      /\ \A i \in 1 .. Len(us) : us[i] = users[i + 1]
  BY ListOK, HeadTailProperties DEF Pop
<1>2. SetQueueHeadData(us)
  BY DEF PopHead
<1> HIDE DEF us
<1>3. /\ Len(users') = Len(us)
      /\ \A i \in 1 .. Len(us) : users'[i].access_key = us[i].access_key
  BY <1>1, <1>2, SameNamesAfter
<1>4. ASSUME NEW i \in 1 .. Len(users), NEW j \in 1 .. Len(users'),
             users'[j].access_key = users[i].access_key
      PROVE  j = f[i] /\ (i = 1 => j = 1)
  <2>1. j + 1 \in 1 .. Len(users) /\ users[j + 1].access_key = users[i].access_key
    BY <1>1, <1>3, <1>4, ListOK
  <2>2. j + 1 = i
    BY <2>1, ListOK DEF Distinct
  <2> QED BY <1>1, <1>3, <2>2, ListOK
<1>5. f \in [Nat -> Int] /\ \A i, k \in Nat : i < k => f[i] < f[k]
  OBVIOUS
<1> HIDE DEF f
<1> QED BY <1>4, <1>5, ShiftKeepsOrder

\* A step that leaves the names in the list where they are.
LEMMA SameNamesKeepsOrder ==
  ASSUME IInv, IInv', Len(users') = Len(users),
         \A i \in 1 .. Len(users) : users'[i].access_key = users[i].access_key
  PROVE  OrderKept
<1> DEFINE f == [n \in Nat |-> n]
<1>1. ASSUME NEW i \in 1 .. Len(users), NEW j \in 1 .. Len(users'),
             users'[j].access_key = users[i].access_key
      PROVE  j = i
  BY <1>1, ListOK DEF Distinct
<1>2. f \in [Nat -> Int] /\ \A i, k \in Nat : i < k => f[i] < f[k]
  OBVIOUS
<1>3. \A i \in 1 .. Len(users), j \in 1 .. Len(users') :
        users'[j].access_key = users[i].access_key => j = f[i] /\ (i = 1 => j = 1)
  BY <1>1, ListOK
<1> HIDE DEF f
<1> QED BY <1>2, <1>3, ShiftKeepsOrder

LEMMA TimeoutKeepsOrder ==
  ASSUME IInv, IInv', timeout_head_user
  PROVE  OrderKept
<1>1. CASE HeadExpired
  BY <1>1, PopKeepsOrder DEF timeout_head_user, HeadExpired
<1>2. CASE ~HeadExpired
  BY <1>2, SameNamesKeepsOrder DEF timeout_head_user, queueVars
<1> QED BY <1>1, <1>2

LEMMA StepKeepsOrder ==
  ASSUME IInv, IInv', QueueNext
  PROVE  OrderKept
<1>1. ASSUME NEW ak \in AccessKeys, add_user(ak) PROVE OrderKept
  BY <1>1, AddUserKeepsOrder
<1>2. ASSUME NEW ak \in AccessKeys, add_priority_user(ak) PROVE OrderKept
  BY <1>2, AddPriorityUserKeepsOrder
<1>3. ASSUME NEW ak \in AccessKeys, get_computation_key(ak) PROVE OrderKept
  <2>1. CASE HeadExpired /\ timeout_head_user
    BY <2>1, TimeoutKeepsOrder
  <2>2. CASE IF user_positions[ak] = 0 THEN SetQueueHeadData(users)
                                       ELSE UNCHANGED <<users, issued>>
    <3>1. /\ Len(users') = Len(users)
          /\ \A i \in 1 .. Len(users) : users'[i].access_key = users[i].access_key
      BY <2>2, ListOK, SameNamesAfter
    <3> QED BY <3>1, SameNamesKeepsOrder
  <2> QED BY <1>3, <2>1, <2>2 DEF get_computation_key
<1>4. ASSUME NEW ak \in AccessKeys, NEW key \in 1 .. issued, finish_computation(ak, key)
      PROVE  OrderKept
  <2>1. user_positions[ak] = 0 /\ PopHead
    BY <1>4 DEF finish_computation, KeyIsValid
  <2>2. 1 \in 1 .. Len(users)
    BY <2>1, ListOK, PositionMeans, QueueAssumption
  <2>3. users # <<>>
    BY <2>2, EmptySeq
  <2> QED BY <2>1, <2>3, PopKeepsOrder
<1>5. CASE validate_computation_key
  BY <1>5, TimeoutKeepsOrder DEF validate_computation_key
<1>6. CASE Tick
  <2> DEFINE e == [users[1] EXCEPT !.age = users[1].age + 1]
  <2>1. users # <<>> /\ users' = [users EXCEPT ![1] = e]
    BY <1>6 DEF Tick
  <2>2. 1 \in 1 .. Len(users) /\ users[1] \in User
    BY <2>1, ListOK, EmptySeq, ElementOfSeq
  <2>3. e.access_key = users[1].access_key
    BY <2>2 DEF User
  <2> HIDE DEF e
  <2>4. users \in [1 .. Len(users) -> User] /\ Len(users) \in Nat
    BY ListOK, LenProperties
  <2>5. DOMAIN users' = 1 .. Len(users)
    BY <2>1, <2>4
  <2>6. users' \in Seq(User)
    BY DEF IInv, QueueTypeOK
  <2>7. Len(users') = Len(users)
    BY <2>4, <2>5, <2>6, LenProperties
  <2>8. \A i \in 1 .. Len(users) : users'[i] = IF i = 1 THEN e ELSE users[i]
    BY <2>1, <2>4
  <2>9. \A i \in 1 .. Len(users) : users'[i].access_key = users[i].access_key
    BY <2>3, <2>8
  <2> QED BY <2>7, <2>9, SameNamesKeepsOrder
<1>7. CASE Restart
  <2>1. DOMAIN users' = {}
    BY <1>7 DEF Restart
  <2> QED BY <2>1 DEF OrderKept, Waiting
<1> QED BY <1>1, <1>2, <1>3, <1>4, <1>5, <1>6, <1>7 DEF QueueNext

\* Priority or not, in no step does one waiting user overtake another, and
\* nobody takes the head from the user whose turn it is.
THEOREM OrderCorrect == QueueSpec => NobodyOvertakes
<1>1. IInv /\ IInv' /\ [QueueNext]_queueVars => [OrderKept]_queueVars
  BY StepKeepsOrder
<1>2. QueueSpec => []IInv
  BY InitInv, StepInv, PTL DEF QueueSpec
<1> QED BY <1>1, <1>2, PTL DEF QueueSpec, NobodyOvertakes

-----------------------------------------------------------------------------
\* get_computation_key under the read lock.
LEMMA GetKeyReads ==
  ASSUME IInv, NEW ak \in AccessKeys, ~HeadExpired, get_computation_key(ak)
  PROVE  UNCHANGED queueVars
<1>1. UNCHANGED user_positions
  BY DEF get_computation_key
<1>2. CASE user_positions[ak] # 0
  BY <1>2 DEF get_computation_key, queueVars
<1>3. CASE user_positions[ak] = 0
  <2>1. SetQueueHeadData(users)
    BY <1>3 DEF get_computation_key
  <2>2. ~NeedsHeadData(users)
    <3>1. users # <<>> => 1 \in DOMAIN users
      BY ListOK, EmptySeq
    <3> QED BY <3>1 DEF IInv, QueueInv, OnlyHeadHasTurn, NeedsHeadData
  <2> QED BY <1>1, <2>1, <2>2 DEF SetQueueHeadData, queueVars
<1> QED BY <1>2, <1>3

\* The read lock suffices for get_computation_key: whatever it sets has been
\* set before, by the writer that made the user the head.
THEOREM ReadLockCorrect == QueueSpec => ReadLockReads
<1>1. IInv /\ [QueueNext]_queueVars =>
        [\A ak \in AccessKeys :
           ~HeadExpired /\ get_computation_key(ak) => UNCHANGED queueVars]_queueVars
  BY GetKeyReads
<1>2. QueueSpec => []IInv
  BY InitInv, StepInv, PTL DEF QueueSpec
<1> QED BY <1>1, <1>2, PTL DEF QueueSpec, ReadLockReads

-----------------------------------------------------------------------------
\* When an operation makes us of the list, a user that already has its turn
\* is at its head only if it was there before.
LEMMA ListStepIsLeaseStep ==
  ASSUME IInv, NEW us \in Seq(User), SetQueueHeadData(us),
         us # <<>> /\ us[1].age # None => users # <<>> /\ us[1] = users[1]
  PROVE  [Lease!LeaseNext]_(Lease!leaseVars)
<1>0. us # <<>> => 1 \in 1 .. Len(us) /\ us[1] \in User
  BY EmptySeq, LenProperties, ElementOfSeq
<1>1. CASE NeedsHeadData(us)
  <2> DEFINE e == [us[1] EXCEPT !.age = 0, !.computation_key = issued + 1]
  <2>1. us # <<>> /\ users' = [us EXCEPT ![1] = e] /\ issued' = issued + 1
    BY <1>1 DEF NeedsHeadData, SetQueueHeadData
  <2>2. e.access_key = us[1].access_key /\ e.computation_key = issued + 1
    BY <1>0, <2>1 DEF User
  <2> HIDE DEF e
  <2>3. us \in [1 .. Len(us) -> User] /\ Len(us) \in Nat
    BY LenProperties
  <2>4. users'[1] = e /\ users' # <<>>
    BY <1>0, <2>1, <2>3
  <2>5. Turn' = [holder |-> us[1].access_key, key |-> issued']
    BY <2>1, <2>2, <2>4 DEF Turn
  <2>6. us[1].access_key \in AccessKeys
    BY <1>0, <2>1 DEF User
  <2> QED BY <2>1, <2>5, <2>6 DEF Lease!LeaseNext, Lease!Grant
<1>2. CASE us = <<>>
  BY <1>2 DEF SetQueueHeadData, NeedsHeadData, Turn, Lease!LeaseNext, Lease!End
<1>3. CASE us # <<>> /\ us[1].age # None
  BY <1>3 DEF SetQueueHeadData, NeedsHeadData, Turn, Lease!leaseVars
<1> QED BY <1>1, <1>2, <1>3 DEF NeedsHeadData

LEMMA PopIsLeaseStep ==
  ASSUME IInv, users # <<>>, PopHead
  PROVE  [Lease!LeaseNext]_(Lease!leaseVars)
<1> DEFINE us == Pop(users)
<1>1. /\ us \in Seq(User)
      /\ Len(us) = Len(users) - 1
      /\ \A i \in 1 .. Len(us) : us[i] = users[i + 1]
  BY ListOK, HeadTailProperties DEF Pop
<1>2. SetQueueHeadData(us)
  BY DEF PopHead
<1> HIDE DEF us
<1>3. us # <<>> => us[1].age = None
  <2> SUFFICES ASSUME us # <<>> PROVE us[1].age = None
    OBVIOUS
  <2>1. 1 \in 1 .. Len(us) /\ Len(us) \in Nat
    BY <1>1, EmptySeq, LenProperties
  <2>2. 2 \in 1 .. Len(users) /\ us[1] = users[2]
    BY <1>1, <2>1, ListOK
  <2> QED BY <2>2, ListOK DEF Ready
<1> QED BY <1>1, <1>2, <1>3, ListStepIsLeaseStep

LEMMA TimeoutIsLeaseStep ==
  ASSUME IInv, timeout_head_user
  PROVE  [Lease!LeaseNext]_(Lease!leaseVars)
<1>1. CASE HeadExpired
  BY <1>1, PopIsLeaseStep DEF timeout_head_user, HeadExpired
<1>2. CASE ~HeadExpired
  BY <1>2 DEF timeout_head_user, queueVars, Lease!leaseVars, Turn
<1> QED BY <1>1, <1>2

LEMMA StepIsLeaseStep ==
  ASSUME IInv, [QueueNext]_queueVars
  PROVE  [Lease!LeaseNext]_(Lease!leaseVars)
<1>1. ASSUME NEW ak \in AccessKeys, add_user(ak)
      PROVE  [Lease!LeaseNext]_(Lease!leaseVars)
  <2> DEFINE us == Append(users, NewUser(ak))
  <2>1. NewUser(ak) \in User /\ NewUser(ak).age = None
    BY DEF NewUser, User
  <2>2. /\ us \in Seq(User)
        /\ Len(us) = Len(users) + 1
        /\ \A i \in 1 .. Len(users) : us[i] = users[i]
        /\ us[Len(users) + 1] = NewUser(ak)
    BY <2>1, ListOK, AppendProperties
  <2>3. SetQueueHeadData(us)
    BY <1>1 DEF add_user
  <2> HIDE DEF us
  <2>4. users = <<>> => us[1] = NewUser(ak)
    BY <2>2, EmptySeq
  <2>5. users # <<>> => us[1] = users[1]
    BY <2>2, ListOK, EmptySeq
  <2> QED BY <2>1, <2>2, <2>3, <2>4, <2>5, ListStepIsLeaseStep
<1>2. ASSUME NEW ak \in AccessKeys, add_priority_user(ak)
      PROVE  [Lease!LeaseNext]_(Lease!leaseVars)
  <2> DEFINE us == InsertSecond(users, NewUser(ak))
  <2>1. NewUser(ak) \in User /\ NewUser(ak).age = None
    BY DEF NewUser, User
  <2>2. us \in Seq(User)
    BY <2>1, InsertedSecond
  <2>3. SetQueueHeadData(us)
    BY <1>2 DEF add_priority_user
  <2>4. us[1] = IF users = <<>> THEN NewUser(ak) ELSE users[1]
    BY ListOK, EmptySeq DEF InsertSecond
  <2> HIDE DEF us
  <2> QED BY <2>1, <2>2, <2>3, <2>4, ListStepIsLeaseStep
<1>3. ASSUME NEW ak \in AccessKeys, get_computation_key(ak)
      PROVE  [Lease!LeaseNext]_(Lease!leaseVars)
  <2>1. CASE HeadExpired /\ timeout_head_user
    BY <2>1, TimeoutIsLeaseStep
  <2>2. CASE ~HeadExpired
    <3>1. UNCHANGED queueVars
      BY <1>3, <2>2, GetKeyReads
    <3> QED BY <3>1 DEF queueVars, Lease!leaseVars, Turn
  <2> QED BY <1>3, <2>1, <2>2 DEF get_computation_key
<1>4. ASSUME NEW ak \in AccessKeys, NEW key \in 1 .. issued, finish_computation(ak, key)
      PROVE  [Lease!LeaseNext]_(Lease!leaseVars)
  <2>1. user_positions[ak] = 0 /\ PopHead
    BY <1>4 DEF finish_computation, KeyIsValid
  <2>2. 1 \in 1 .. Len(users)
    BY <2>1, ListOK, PositionMeans, QueueAssumption
  <2>3. users # <<>>
    BY <2>2, EmptySeq
  <2> QED BY <2>1, <2>3, PopIsLeaseStep
<1>5. CASE validate_computation_key
  BY <1>5, TimeoutIsLeaseStep DEF validate_computation_key
<1>6. CASE Tick
  <2> DEFINE e == [users[1] EXCEPT !.age = users[1].age + 1]
  <2>1. users # <<>> /\ users' = [users EXCEPT ![1] = e] /\ issued' = issued
    BY <1>6 DEF Tick
  <2>2. 1 \in 1 .. Len(users) /\ users[1] \in User
    BY <2>1, ListOK, EmptySeq, ElementOfSeq
  <2>3. e.access_key = users[1].access_key /\ e.computation_key = users[1].computation_key
    BY <2>2 DEF User
  <2> HIDE DEF e
  <2>4. users \in [1 .. Len(users) -> User]
    BY ListOK, LenProperties
  <2>5. users'[1] = e /\ users' # <<>>
    BY <2>1, <2>2, <2>4
  <2> QED BY <2>1, <2>3, <2>5 DEF Turn, Lease!leaseVars
<1>7. CASE Restart
  BY <1>7 DEF Restart, Turn, Lease!LeaseNext, Lease!End
<1>8. CASE UNCHANGED queueVars
  BY <1>8 DEF queueVars, Lease!leaseVars, Turn
<1> QED BY <1>1, <1>2, <1>3, <1>4, <1>5, <1>6, <1>7, <1>8 DEF QueueNext

\* The queue implements the lease: at any moment one user at most has the
\* turn, and a key that has lost it is never the key of a turn again.
THEOREM LeaseCorrect == QueueSpec => ImplementsTurnLease
<1>1. QueueInit => Lease!LeaseInit
  BY DEF QueueInit, Lease!LeaseInit, Turn
<1>2. IInv /\ [QueueNext]_queueVars => [Lease!LeaseNext]_(Lease!leaseVars)
  BY StepIsLeaseStep
<1>3. QueueSpec => []IInv
  BY InitInv, StepInv, PTL DEF QueueSpec
<1> QED BY <1>1, <1>2, <1>3, PTL DEF QueueSpec, ImplementsTurnLease, Lease!LeaseSpec

=============================================================================
