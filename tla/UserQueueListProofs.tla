------------------------- MODULE UserQueueListProofs -------------------------
(***************************************************************************)
(* Proofs about UserQueueList for any access keys, sizes and objects: the  *)
(* pointers keep a list, whose last object is users_tail, the dictionary   *)
(* points into it, and it implements the sequence of UserQueue.            *)
(*                                                                         *)
(* A method changes the list from s to another sequence of objects; each   *)
(* lemma says to which, and that the fields along it are linked.           *)
(***************************************************************************)
EXTENDS UserQueueList, SequenceTheorems, FiniteSetTheorems, FunctionTheorems,
        WellFoundedInduction, TLAPS

QueueState == [head : Objects \cup {None}, tail : Objects \cup {None}, len : Nat,
               heap : [Objects -> Fields \cup {None}],
               positions : [AccessKeys -> (Nat \X Objects) \cup {None}],
               issued : Nat]

\* The pointers of q make the list s of n objects.
IsList(q, n, s) ==
  /\ n \in Nat /\ s \in [1 .. n -> Objects]
  /\ \A i, j \in 1 .. n : s[i] = s[j] => i = j
  /\ q.head = IF n = 0 THEN None ELSE s[1]
  /\ n # 0 => q.tail = s[n]
  /\ q.len = n
  /\ \A i \in 1 .. n :
       q.heap[s[i]] # None /\ q.heap[s[i]].next = IF i = n THEN None ELSE s[i + 1]

\* The entries of the dictionary are places of s.
PointsInto(positions, n, s) ==
  \A ak \in AccessKeys :
    positions[ak] # None => \E i \in 1 .. n : positions[ak] = <<i - 1, s[i]>>

\* The users of the list.
UsersOf(h, n, s) == [i \in 1 .. n |-> UserOf(h[s[i]])]

-----------------------------------------------------------------------------
(***************************************************************************)
(* The walk along the list.                                                *)
(***************************************************************************)

\* A set of natural numbers with 0 and the successor of each member has all.
LEMMA NatSet ==
  ASSUME NEW S \in SUBSET Nat, 0 \in S, \A n \in S : n + 1 \in S
  PROVE  S = Nat
<1> DEFINE R == OpToRel(<, Nat)
           T == Nat \ S
<1>1. SUFFICES ASSUME T # {} PROVE FALSE
  OBVIOUS
<1>2. IsWellFoundedOn(R, Nat)
  BY NatLessThanWellFounded
<1>3. PICK x \in T : \A y \in T : ~(<<y, x>> \in R)
  <2> HIDE DEF R
  <2> QED BY <1>1, <1>2, WFMin
<1>4. x \in Nat /\ x # 0 /\ x - 1 \in Nat
  OBVIOUS
<1>5. <<x - 1, x>> \in R
  BY <1>4 DEF OpToRel
<1>6. x - 1 \in S
  BY <1>3, <1>4, <1>5
<1> QED BY <1>4, <1>6

\* A list of different objects is no longer than there are objects.
LEMMA ListIsShort ==
  ASSUME NEW q, NEW n \in Nat, NEW s, IsList(q, n, s)
  PROVE  n \in 0 .. Cardinality(Objects)
<1>1. s \in Injection(1 .. n, Objects)
  BY DEF IsList, Injection, IsInjective
<1>2. Cardinality(1 .. n) = n
  <2>1. Cardinality(1 .. n) = IF 1 > n THEN 0 ELSE n - 1 + 1
    BY FS_Interval
  <2> QED BY <2>1
<1>3. Cardinality(1 .. n) <= Cardinality(Objects)
  BY <1>1, FS_Injection, ListAssumption
<1>4. Cardinality(Objects) \in Nat
  BY FS_CardinalityType, ListAssumption
<1> QED BY <1>2, <1>3, <1>4

\* The places of s, from 0 on, as the walk gives them.
PlacesOf(n, s) == [k \in Nat |-> IF k < n THEN s[k + 1] ELSE None]

\* f follows next from the head.
Follows(q, f) ==
  f = [k \in Nat |-> IF k = 0 THEN q.head
                     ELSE IF f[k - 1] = None THEN None ELSE q.heap[f[k - 1]].next]

LEMMA NextPlace ==
  ASSUME NEW q, NEW n, NEW s, IsList(q, n, s), NEW k \in Nat
  PROVE  /\ PlacesOf(n, s)[0] = q.head
         /\ PlacesOf(n, s)[k + 1] = IF PlacesOf(n, s)[k] = None THEN None
                                    ELSE q.heap[PlacesOf(n, s)[k]].next
<1>0. n \in Nat /\ \A i \in 1 .. n : s[i] \in Objects /\ s[i] # None
  BY ListAssumption DEF IsList
<1>1. PlacesOf(n, s)[0] = q.head
  BY <1>0 DEF PlacesOf, IsList
<1> DEFINE Goal == PlacesOf(n, s)[k + 1] = IF PlacesOf(n, s)[k] = None THEN None
                                           ELSE q.heap[PlacesOf(n, s)[k]].next
<1>2. ASSUME k < n PROVE Goal
  <2>1. PlacesOf(n, s)[k] = s[k + 1] /\ k + 1 \in 1 .. n /\ s[k + 1] # None
    BY <1>0, <1>2 DEF PlacesOf
  <2>2. PlacesOf(n, s)[k + 1] = IF k + 1 < n THEN s[(k + 1) + 1] ELSE None
    BY DEF PlacesOf
  <2>3. q.heap[s[k + 1]].next = IF k + 1 = n THEN None ELSE s[(k + 1) + 1]
    BY <2>1 DEF IsList
  <2>4. k + 1 < n <=> k + 1 # n
    BY <1>0, <1>2
  <2> QED BY <2>1, <2>2, <2>3, <2>4
<1>3. ASSUME ~(k < n) PROVE Goal
  BY <1>0, <1>3 DEF PlacesOf
<1> QED BY <1>1, <1>2, <1>3

LEMMA PlacesFollow ==
  ASSUME NEW q, NEW n, NEW s, IsList(q, n, s)
  PROVE  Follows(q, PlacesOf(n, s))
<1>1. ASSUME NEW k \in Nat
      PROVE  PlacesOf(n, s)[k] = IF k = 0 THEN q.head
                                 ELSE IF PlacesOf(n, s)[k - 1] = None THEN None
                                 ELSE q.heap[PlacesOf(n, s)[k - 1]].next
  <2>1. CASE k = 0
    BY <2>1, NextPlace
  <2>2. CASE k # 0
    <3>1. k - 1 \in Nat /\ (k - 1) + 1 = k
      BY <2>2
    <3> QED BY <2>2, <3>1, NextPlace
  <2> QED BY <2>1, <2>2
<1>2. PlacesOf(n, s) = [k \in Nat |-> PlacesOf(n, s)[k]]
  BY DEF PlacesOf
<1> QED BY <1>1, <1>2 DEF Follows

LEMMA FollowsOnly ==
  ASSUME NEW q, NEW n, NEW s, IsList(q, n, s), NEW f, Follows(q, f), NEW i \in Nat
  PROVE  f[i] = PlacesOf(n, s)[i]
<1> DEFINE S == {k \in Nat : f[k] = PlacesOf(n, s)[k]}
<1>0. ASSUME NEW k \in Nat
      PROVE  f[k] = IF k = 0 THEN q.head
                    ELSE IF f[k - 1] = None THEN None ELSE q.heap[f[k - 1]].next
  BY DEF Follows
<1>1. 0 \in S
  BY <1>0, NextPlace
<1>2. ASSUME NEW k \in S PROVE k + 1 \in S
  <2>1. k \in Nat /\ k + 1 \in Nat /\ k + 1 # 0 /\ (k + 1) - 1 = k /\ f[k] = PlacesOf(n, s)[k]
    OBVIOUS
  <2>2. f[k + 1] = IF f[k] = None THEN None ELSE q.heap[f[k]].next
    BY <1>0, <2>1
  <2> QED BY <2>1, <2>2, NextPlace
<1>3. S = Nat
  <2>1. S \in SUBSET Nat
    OBVIOUS
  <2> HIDE DEF S
  <2> QED BY <1>1, <1>2, <2>1, NatSet
<1> QED BY <1>3

LEMMA ChainIs ==
  ASSUME NEW q, NEW n, NEW s, IsList(q, n, s)
  PROVE  Chain(q) = s
<1> DEFINE at == CHOOSE f : Follows(q, f)
           Ends(k) == at[k] = None /\ \A m \in 0 .. k - 1 : at[m] # None
<1>1. Follows(q, at)
  BY PlacesFollow
<1>2. Chain(q) = [i \in 1 .. (CHOOSE k \in 0 .. Cardinality(Objects) : Ends(k)) |-> at[i - 1]]
  BY DEF Chain, Follows
<1> HIDE DEF at
<1>3. /\ n \in Nat /\ \A i \in 1 .. n : s[i] # None
      /\ s = [i \in 1 .. n |-> s[i]]
  BY ListAssumption DEF IsList
<1>4. \A k \in Nat : at[k] = IF k < n THEN s[k + 1] ELSE None
  BY <1>1, FollowsOnly DEF PlacesOf
<1>5. \A m \in Nat : at[m] = None <=> ~(m < n)
  BY <1>3, <1>4
<1>6. n \in 0 .. Cardinality(Objects) /\ Cardinality(Objects) \in Nat
  BY <1>3, ListIsShort, FS_CardinalityType, ListAssumption
<1>7. \A k \in 0 .. Cardinality(Objects) : Ends(k) <=> k = n
  <2> TAKE k \in 0 .. Cardinality(Objects)
  <2>1. k \in Nat
    BY <1>6
  <2>2. Ends(n)
    BY <1>3, <1>5
  <2>3. ASSUME Ends(k), k < n PROVE FALSE
    BY <1>3, <1>5, <2>1, <2>3
  <2>4. ASSUME Ends(k), n < k PROVE FALSE
    <3>1. n \in 0 .. k - 1 /\ at[n] = None
      BY <1>3, <1>5, <2>1, <2>4
    <3> QED BY <2>4, <3>1
  <2> QED BY <1>3, <2>1, <2>2, <2>3, <2>4
<1>8. (CHOOSE k \in 0 .. Cardinality(Objects) : Ends(k)) = n
  <2> HIDE DEF Ends
  <2> QED BY <1>6, <1>7
<1>9. \A i \in 1 .. n : at[i - 1] = s[i]
  <2> TAKE i \in 1 .. n
  <2>1. i - 1 \in Nat /\ i - 1 < n /\ (i - 1) + 1 = i
    BY <1>3
  <2>2. at[i - 1] = IF i - 1 < n THEN s[(i - 1) + 1] ELSE None
    BY <1>4, <2>1
  <2> QED BY <2>1, <2>2
<1> QED BY <1>2, <1>3, <1>8, <1>9

-----------------------------------------------------------------------------
(***************************************************************************)
(* The private methods.                                                    *)
(***************************************************************************)
LEMMA LinkIs ==
  ASSUME NEW h \in [Objects -> Fields \cup {None}], NEW o \in Objects, h[o] # None,
         NEW x \in Objects \cup {None}
  PROVE  /\ Link(h, o, x) \in [Objects -> Fields \cup {None}]
         /\ Link(h, o, x)[o] # None
         /\ Link(h, o, x)[o].next = x
         /\ UserOf(Link(h, o, x)[o]) = UserOf(h[o])
         /\ \A p \in Objects \ {o} : Link(h, o, x)[p] = h[p]
<1> DEFINE f == [h[o] EXCEPT !.next = x]
<1>1. h[o] \in Fields
  OBVIOUS
<1>2. /\ f \in Fields /\ f.next = x
      /\ f.access_key = h[o].access_key /\ f.computation_key = h[o].computation_key
      /\ f.age = h[o].age
  BY <1>1 DEF Fields
<1>3. f # None /\ UserOf(f) = UserOf(h[o])
  BY <1>2, ListAssumption DEF UserOf
<1>4. Link(h, o, x) = [h EXCEPT ![o] = f]
  BY DEF Link
<1> HIDE DEF f
<1> QED BY <1>2, <1>3, <1>4

\* A state whose fields have their types.
LEMMA FieldsOfState ==
  ASSUME NEW q \in QueueState
  PROVE  /\ q.head \in Objects \cup {None} /\ q.tail \in Objects \cup {None} /\ q.len \in Nat
         /\ q.heap \in [Objects -> Fields \cup {None}]
         /\ q.positions \in [AccessKeys -> (Nat \X Objects) \cup {None}]
         /\ q.issued \in Nat
BY DEF QueueState

LEMMA ListFacts ==
  ASSUME NEW q, NEW n, NEW s, IsList(q, n, s)
  PROVE  /\ n \in Nat
         /\ \A i \in 1 .. n : s[i] \in Objects /\ s[i] # None /\ q.heap[s[i]] # None
         /\ q.head = None <=> n = 0
         /\ n # 0 => 1 \in 1 .. n /\ n \in 1 .. n /\ q.head = s[1] /\ q.tail = s[n]
<1>1. n \in Nat /\ \A i \in 1 .. n : s[i] \in Objects /\ s[i] # None /\ q.heap[s[i]] # None
  BY ListAssumption DEF IsList
<1>2. n # 0 => 1 \in 1 .. n /\ n \in 1 .. n
  BY <1>1
<1>3. q.head = IF n = 0 THEN None ELSE s[1]
  BY DEF IsList
<1>4. n # 0 => q.tail = s[n]
  BY DEF IsList
<1> QED BY <1>1, <1>2, <1>3, <1>4

\* The list with u at its end.
Appended(n, s, u) == [i \in 1 .. n + 1 |-> IF i = n + 1 THEN u ELSE s[i]]

LEMMA AddLinks ==
  ASSUME NEW q \in QueueState, NEW n, NEW s, IsList(q, n, s),
         NEW u \in Objects, q.heap[u] # None, \A i \in 1 .. n : s[i] # u,
         NEW r, r = _add_user(q, u), NEW t, t = Appended(n, s, u)
  PROVE  /\ r \in QueueState /\ IsList(r, n + 1, t)
         /\ UsersOf(r.heap, n + 1, t) = UsersOf(q.heap, n + 1, t)
         /\ r.positions = q.positions /\ r.issued = q.issued
<1> DEFINE m == n + 1
<1>1. /\ n \in Nat /\ m \in Nat /\ m # 0 /\ m \in 1 .. m /\ 1 \in 1 .. m
      /\ \A i \in 1 .. n : i \in 1 .. m /\ i # m
      /\ \A i \in 1 .. m : i = m \/ i \in 1 .. n
  BY DEF IsList
<1>2. t \in [1 .. m -> Objects] /\ t[m] = u /\ \A i \in 1 .. n : t[i] = s[i]
  <2>1. t = [i \in 1 .. m |-> IF i = m THEN u ELSE s[i]]
    BY DEF Appended
  <2> HIDE DEF m
  <2> QED BY <1>1, <2>1, ListFacts
<1>3. /\ r.head = IF q.head = None THEN u ELSE q.head
      /\ r.tail = u /\ r.len = q.len + 1
      /\ r.heap = IF q.head = None THEN Link(q.heap, u, None)
                  ELSE Link(Link(q.heap, q.tail, u), u, None)
      /\ r.positions = q.positions /\ r.issued = q.issued
      /\ r = [head |-> r.head, tail |-> r.tail, len |-> r.len, heap |-> r.heap,
              positions |-> r.positions, issued |-> r.issued]
  BY DEF _add_user, QueueState
<1>4. /\ r.heap \in [Objects -> Fields \cup {None}]
      /\ \A i \in 1 .. m : /\ r.heap[t[i]] # None
                           /\ r.heap[t[i]].next = IF i = m THEN None ELSE t[i + 1]
                           /\ UserOf(r.heap[t[i]]) = UserOf(q.heap[t[i]])
  <2>1. CASE n = 0
    <3>1. r.heap = Link(q.heap, u, None) /\ \A i \in 1 .. m : i = m
      BY <1>1, <1>3, <2>1, ListFacts
    <3> HIDE DEF m
    <3> QED BY <1>2, <3>1, FieldsOfState, LinkIs
  <2>2. CASE n # 0
    <3> DEFINE g == Link(q.heap, q.tail, u)
    <3>1. q.tail = s[n] /\ n \in 1 .. n /\ q.tail \in Objects /\ q.tail # u
      BY <2>2, ListFacts
    <3>2. /\ g \in [Objects -> Fields \cup {None}]
          /\ g[q.tail] # None /\ g[q.tail].next = u
          /\ UserOf(g[q.tail]) = UserOf(q.heap[q.tail])
          /\ \A p \in Objects \ {q.tail} : g[p] = q.heap[p]
      <4>1. q.heap[q.tail] # None
        BY <3>1, ListFacts
      <4> QED BY <3>1, <4>1, FieldsOfState, LinkIs
    <3>3. r.heap = Link(g, u, None)
      BY <1>3, <2>2, ListFacts
    <3> HIDE DEF g
    <3>4. /\ r.heap \in [Objects -> Fields \cup {None}]
          /\ r.heap[u] # None /\ r.heap[u].next = None
          /\ UserOf(r.heap[u]) = UserOf(q.heap[u])
          /\ \A p \in Objects \ {u} : r.heap[p] = g[p]
      <4>1. g[u] # None /\ g[u] = q.heap[u]
        BY <3>1, <3>2
      <4> QED BY <3>2, <3>3, <4>1, LinkIs
    <3>5. ASSUME NEW i \in 1 .. m
          PROVE  /\ r.heap[t[i]] # None
                 /\ r.heap[t[i]].next = IF i = m THEN None ELSE t[i + 1]
                 /\ UserOf(r.heap[t[i]]) = UserOf(q.heap[t[i]])
      <4>1. CASE i = m
        <5> HIDE DEF m
        <5> QED BY <1>2, <3>4, <4>1
      <4>2. CASE i = n
        <5>1. i \in 1 .. n /\ i # m /\ t[i] = q.tail /\ t[i + 1] = u
          BY <1>1, <1>2, <3>1, <4>2
        <5>2. r.heap[q.tail] = g[q.tail]
          BY <3>1, <3>4
        <5> QED BY <3>2, <5>1, <5>2
      <4>3. CASE i # n /\ i # m
        <5>1. i \in 1 .. n /\ i + 1 \in 1 .. n /\ t[i] = s[i] /\ t[i + 1] = s[i + 1]
          BY <1>1, <1>2, <4>3
        <5>2. s[i] # q.tail /\ s[i] # u /\ s[i] \in Objects /\ q.heap[s[i]] # None
          <6>1. s[i] = s[n] => i = n
            BY <3>1, <5>1 DEF IsList
          <6> QED BY <3>1, <4>3, <5>1, <6>1, ListFacts
        <5>3. r.heap[s[i]] = q.heap[s[i]]
          BY <3>2, <3>4, <5>2
        <5>4. q.heap[s[i]].next = s[i + 1]
          BY <4>3, <5>1 DEF IsList
        <5> QED BY <4>3, <5>1, <5>2, <5>3, <5>4
      <4> QED BY <4>1, <4>2, <4>3
    <3> QED BY <3>4, <3>5
  <2> QED BY <2>1, <2>2
<1>5. UsersOf(r.heap, m, t) = UsersOf(q.heap, m, t)
  BY <1>4 DEF UsersOf
<1>6. IsList(r, m, t)
  <2>1. ASSUME NEW i \in 1 .. m, NEW j \in 1 .. m, t[i] = t[j] PROVE i = j
    <3>1. \A k, l \in 1 .. n : s[k] = s[l] => k = l
      BY DEF IsList
    <3> HIDE DEF m
    <3> QED BY <1>1, <1>2, <2>1, <3>1
  <2>2. r.head = t[1]
    <3>1. CASE n = 0
      BY <1>2, <1>3, <3>1, ListFacts
    <3>2. CASE n # 0
      BY <1>2, <1>3, <3>2, ListFacts
    <3> QED BY <3>1, <3>2
  <2>3. r.len = m /\ r.tail = t[m]
    BY <1>2, <1>3 DEF IsList
  <2> HIDE DEF m
  <2> QED BY <1>1, <1>2, <1>4, <2>1, <2>2, <2>3 DEF IsList
<1>7. r \in QueueState
  <2>1. /\ r.head \in Objects \cup {None} /\ r.len \in Nat
        /\ r.tail \in Objects \cup {None}
        /\ r.positions \in [AccessKeys -> (Nat \X Objects) \cup {None}] /\ r.issued \in Nat
    BY <1>3, FieldsOfState
  <2> QED BY ONLY <1>3, <1>4, <2>1 DEF QueueState
<1> QED BY <1>3, <1>5, <1>6, <1>7

\* The list with u in the second place.
Inserted(n, s, u) ==
  [i \in 1 .. n + 1 |-> IF n = 0 \/ i = 2 THEN u ELSE IF i = 1 THEN s[1] ELSE s[i - 1]]

LEMMA AddPriorityLinks ==
  ASSUME NEW q \in QueueState, NEW n, NEW s, IsList(q, n, s),
         NEW u \in Objects, q.heap[u] # None, \A i \in 1 .. n : s[i] # u,
         NEW r, r = _add_priority_user(q, u), NEW t, t = Inserted(n, s, u)
  PROVE  /\ r \in QueueState /\ IsList(r, n + 1, t)
         /\ UsersOf(r.heap, n + 1, t) = UsersOf(q.heap, n + 1, t)
         /\ r.positions = q.positions /\ r.issued = q.issued
<1>1. CASE n = 0
  <2>1. r = _add_user(q, u)
    BY <1>1, ListFacts DEF _add_priority_user
  <2>2. t = Appended(n, s, u)
    BY <1>1 DEF Inserted, Appended
  <2> QED BY <2>1, <2>2, AddLinks
<1>2. CASE n # 0
  <2> DEFINE prev == q.heap[q.head].next
             g == Link(q.heap, q.head, u)
             m == n + 1
  <2>1. /\ n \in Nat /\ m \in Nat /\ m # 0 /\ m # 1 /\ {1, 2, m} \subseteq 1 .. m
        /\ \A i \in 1 .. m : i = 1 \/ i = 2 \/ (i # 1 /\ i # 2 /\ i - 1 \in 1 .. n /\ i - 1 # 1)
        /\ \A i \in 1 .. m : i = m <=> i - 1 = n
        /\ m = 2 <=> n = 1
    BY <1>2 DEF IsList
  <2>2. t \in [1 .. m -> Objects] /\ t[1] = s[1] /\ t[2] = u
        /\ \A i \in 1 .. m : i # 1 /\ i # 2 => t[i] = s[i - 1]
    <3>1. t = [i \in 1 .. m |-> IF i = 2 THEN u ELSE IF i = 1 THEN s[1] ELSE s[i - 1]]
      BY <1>2 DEF Inserted
    <3>2. s[1] \in Objects
      BY <1>2, ListFacts
    <3> HIDE DEF m
    <3> QED BY <2>1, <3>1, <3>2, ListFacts
  <2>3. /\ q.head = s[1] /\ 1 \in 1 .. n /\ q.head \in Objects /\ q.head # u
        /\ q.heap[q.head] # None
        /\ n = 1 => prev = None
        /\ n # 1 => prev = s[2] /\ 2 \in 1 .. n /\ prev \in Objects /\ prev # None
    <3>1. q.head = s[1] /\ 1 \in 1 .. n
      BY <1>2, ListFacts
    <3>2. prev = IF n = 1 THEN None ELSE s[2]
      BY <3>1 DEF IsList
    <3>3. n # 1 => 2 \in 1 .. n
      BY <1>2, <2>1
    <3> QED BY <3>1, <3>2, <3>3, ListFacts
  <2>4. /\ r.head = q.head /\ r.len = q.len + 1
        /\ r.tail = IF prev = None THEN u ELSE q.tail
        /\ r.heap = Link(g, u, prev)
        /\ r.positions = q.positions /\ r.issued = q.issued
        /\ r = [head |-> r.head, tail |-> r.tail, len |-> r.len, heap |-> r.heap,
                positions |-> r.positions, issued |-> r.issued]
    <3>1. q.head # None
      BY <1>2, ListFacts
    <3> QED BY <3>1 DEF _add_priority_user, QueueState
  <2>5. prev \in Objects \cup {None}
    BY <2>3
  <2> HIDE DEF prev
  <2>6. /\ g \in [Objects -> Fields \cup {None}]
        /\ g[q.head] # None /\ g[q.head].next = u
        /\ UserOf(g[q.head]) = UserOf(q.heap[q.head])
        /\ \A p \in Objects \ {q.head} : g[p] = q.heap[p]
    BY <2>3, FieldsOfState, LinkIs
  <2> HIDE DEF g
  <2>7. /\ r.heap \in [Objects -> Fields \cup {None}]
        /\ r.heap[u] # None /\ r.heap[u].next = prev
        /\ UserOf(r.heap[u]) = UserOf(q.heap[u])
        /\ \A p \in Objects \ {u} : r.heap[p] = g[p]
    <3>1. g[u] # None /\ g[u] = q.heap[u]
      BY <2>3, <2>6
    <3> QED BY <2>4, <2>5, <2>6, <3>1, LinkIs
  <2>8. ASSUME NEW i \in 1 .. m
        PROVE  /\ r.heap[t[i]] # None
               /\ r.heap[t[i]].next = IF i = m THEN None ELSE t[i + 1]
               /\ UserOf(r.heap[t[i]]) = UserOf(q.heap[t[i]])
    <3>1. CASE i = 1
      <4>1. t[i] = q.head /\ t[i + 1] = u /\ i # m /\ r.heap[q.head] = g[q.head]
        BY <2>1, <2>2, <2>3, <2>7, <3>1
      <4> QED BY <2>6, <4>1
    <3>2. CASE i = 2
      <4>1. prev = IF i = m THEN None ELSE t[i + 1]
        <5>1. CASE n = 1
          BY <2>1, <2>3, <3>2, <5>1
        <5>2. CASE n # 1
          <6>1. i # m /\ i + 1 \in 1 .. m /\ i + 1 # 1 /\ i + 1 # 2 /\ (i + 1) - 1 = 2
            BY <1>2, <2>1, <3>2, <5>2
          <6>2. t[i + 1] = s[2]
            BY <2>2, <6>1
          <6> QED BY <2>3, <5>2, <6>1, <6>2
        <5> QED BY <5>1, <5>2
      <4> QED BY <2>2, <2>7, <3>2, <4>1
    <3>3. CASE i # 1 /\ i # 2
      <4>1. /\ i - 1 \in 1 .. n /\ i - 1 # 1 /\ t[i] = s[i - 1]
            /\ i = m <=> i - 1 = n
        BY <2>1, <2>2, <3>3
      <4>2. i # m => t[i + 1] = s[(i - 1) + 1]
        <5>1. i # m => i + 1 \in 1 .. m /\ i + 1 # 1 /\ i + 1 # 2 /\ (i + 1) - 1 = (i - 1) + 1
          BY <2>1, <3>3
        <5> HIDE DEF m
        <5> QED BY <2>2, <5>1
      <4>3. s[i - 1] # q.head /\ s[i - 1] # u /\ s[i - 1] \in Objects /\ q.heap[s[i - 1]] # None
        <5>1. s[i - 1] = s[1] => i - 1 = 1
          BY <2>3, <4>1 DEF IsList
        <5> QED BY <2>3, <4>1, <5>1, ListFacts
      <4>4. r.heap[s[i - 1]] = q.heap[s[i - 1]]
        BY <2>6, <2>7, <4>3
      <4>5. q.heap[s[i - 1]].next = IF i - 1 = n THEN None ELSE s[(i - 1) + 1]
        BY <4>1 DEF IsList
      <4> QED BY <4>1, <4>2, <4>3, <4>4, <4>5
    <3> QED BY <3>1, <3>2, <3>3
  <2>9. UsersOf(r.heap, m, t) = UsersOf(q.heap, m, t)
    BY <2>8 DEF UsersOf
  <2>10. IsList(r, m, t)
    <3>1. ASSUME NEW i \in 1 .. m, NEW j \in 1 .. m, t[i] = t[j] PROVE i = j
      <4> DEFINE From(k) == IF k = 1 THEN 1 ELSE k - 1
      <4>1. ASSUME NEW k \in 1 .. m, k # 2
            PROVE  From(k) \in 1 .. n /\ t[k] = s[From(k)] /\ t[k] # u
        <5>1. From(k) \in 1 .. n /\ t[k] = s[From(k)]
          BY <2>1, <2>2, <2>3, <4>1
        <5> HIDE DEF From, m
        <5> QED BY <5>1
      <4>2. i = 2 <=> j = 2
        BY <2>2, <3>1, <4>1
      <4>3. CASE i # 2 /\ j # 2
        <5>1. From(i) = From(j)
          <6>1. \A k, l \in 1 .. n : s[k] = s[l] => k = l
            BY DEF IsList
          <6> HIDE DEF From, m
          <6> QED BY <3>1, <4>1, <4>3, <6>1
        <5> QED BY <2>1, <4>3, <5>1
      <4> QED BY <4>2, <4>3
    <3>2. r.head = t[1] /\ r.len = m
      BY <2>2, <2>3, <2>4 DEF IsList
    <3>3. r.tail = t[m]
      <4>1. CASE n = 1
        BY <2>1, <2>2, <2>3, <2>4, <4>1
      <4>2. CASE n # 1
        <5>1. m \in 1 .. m /\ m # 1 /\ m # 2 /\ m - 1 = n
          BY <2>1, <4>2
        <5>2. t[m] = s[n]
          <6> HIDE DEF m
          <6> QED BY <2>2, <5>1
        <5>3. q.tail = s[n]
          BY <1>2, ListFacts
        <5> QED BY <2>3, <2>4, <4>2, <5>2, <5>3
      <4> QED BY <4>1, <4>2
    <3> HIDE DEF m
    <3> QED BY <2>1, <2>2, <2>8, <3>1, <3>2, <3>3 DEF IsList
  <2>11. r \in QueueState
    <3>1. /\ r.head \in Objects \cup {None} /\ r.tail \in Objects \cup {None} /\ r.len \in Nat
          /\ r.positions \in [AccessKeys -> (Nat \X Objects) \cup {None}] /\ r.issued \in Nat
      BY <2>4, FieldsOfState
    <3> QED BY ONLY <2>4, <2>7, <3>1 DEF QueueState
  <2> QED BY <2>4, <2>9, <2>10, <2>11
<1> QED BY <1>1, <1>2

\* The list without its first object.
Popped(n, s) == [i \in 1 .. n - 1 |-> s[i + 1]]

LEMMA PopLinks ==
  ASSUME NEW q \in QueueState, NEW n, NEW s, IsList(q, n, s), n # 0,
         NEW r, r = _pop_user(q), NEW t, t = Popped(n, s)
  PROVE  /\ r \in QueueState /\ IsList(r, n - 1, t)
         /\ UsersOf(r.heap, n - 1, t) = UsersOf(q.heap, n - 1, t)
         /\ r.positions = q.positions /\ r.issued = q.issued
<1> DEFINE m == n - 1
           next == q.heap[q.head].next
<1>1. /\ n \in Nat /\ m \in Nat /\ (m = 0 <=> n = 1)
      /\ \A i \in 1 .. m : i + 1 \in 1 .. n /\ i + 1 # 1 /\ (i + 1 = n <=> i = m)
      /\ \A i, j \in 1 .. m : i + 1 = j + 1 => i = j
  BY DEF IsList
<1>2. t \in [1 .. m -> Objects] /\ \A i \in 1 .. m : t[i] = s[i + 1]
  <2>1. t = [i \in 1 .. m |-> s[i + 1]]
    BY DEF Popped
  <2> HIDE DEF m
  <2> QED BY <1>1, <2>1, ListFacts
<1>3. /\ q.head = s[1] /\ 1 \in 1 .. n /\ q.head \in Objects /\ q.heap[q.head] # None
      /\ next = IF n = 1 THEN None ELSE s[2]
      /\ n # 1 => s[2] \in Objects
  <2>1. q.head = s[1] /\ 1 \in 1 .. n
    BY ListFacts
  <2>2. next = IF n = 1 THEN None ELSE s[2]
    BY <2>1 DEF IsList
  <2>3. n # 1 => 2 \in 1 .. n
    BY <1>1
  <2> QED BY <2>1, <2>2, <2>3, ListFacts
<1>4. /\ r.head = next /\ r.len = q.len - 1 /\ r.tail = q.tail
      /\ r.heap = Link(q.heap, q.head, None)
      /\ r.positions = q.positions /\ r.issued = q.issued
      /\ r = [head |-> r.head, tail |-> r.tail, len |-> r.len, heap |-> r.heap,
              positions |-> r.positions, issued |-> r.issued]
  <2>1. q.head # None
    BY ListFacts
  <2> QED BY <2>1 DEF _pop_user, QueueState
<1> HIDE DEF next
<1>5. /\ r.heap \in [Objects -> Fields \cup {None}]
      /\ \A p \in Objects \ {q.head} : r.heap[p] = q.heap[p]
  BY <1>3, <1>4, FieldsOfState, LinkIs
<1>6. ASSUME NEW i \in 1 .. m
      PROVE  /\ r.heap[t[i]] # None
             /\ r.heap[t[i]].next = IF i = m THEN None ELSE t[i + 1]
             /\ UserOf(r.heap[t[i]]) = UserOf(q.heap[t[i]])
  <2>1. i + 1 \in 1 .. n /\ i + 1 # 1 /\ t[i] = s[i + 1] /\ (i + 1 = n <=> i = m)
    BY <1>1, <1>2
  <2>2. i # m => i + 1 \in 1 .. m
    BY <1>1
  <2>3. i # m => t[i + 1] = s[(i + 1) + 1]
    <3> HIDE DEF m
    <3> QED BY <1>2, <2>2
  <2>4. s[i + 1] # q.head /\ s[i + 1] \in Objects /\ q.heap[s[i + 1]] # None
    <3>1. s[i + 1] = s[1] => i + 1 = 1
      BY <1>3, <2>1 DEF IsList
    <3> QED BY <1>3, <2>1, <3>1, ListFacts
  <2>5. q.heap[s[i + 1]].next = IF i + 1 = n THEN None ELSE s[(i + 1) + 1]
    BY <2>1 DEF IsList
  <2> HIDE DEF m
  <2> QED BY <1>5, <2>1, <2>3, <2>4, <2>5
<1>7. UsersOf(r.heap, m, t) = UsersOf(q.heap, m, t)
  BY <1>6 DEF UsersOf
<1>8. IsList(r, m, t)
  <2>1. ASSUME NEW i \in 1 .. m, NEW j \in 1 .. m, t[i] = t[j] PROVE i = j
    <3>1. \A k, l \in 1 .. n : s[k] = s[l] => k = l
      BY DEF IsList
    <3>2. i + 1 = j + 1
      BY <1>1, <1>2, <2>1, <3>1
    <3> QED BY <1>1, <3>2
  <2>2. r.head = IF m = 0 THEN None ELSE t[1]
    <3>1. CASE n = 1
      BY <1>1, <1>3, <1>4, <3>1
    <3>2. CASE n # 1
      <4>1. 1 \in 1 .. m /\ m # 0
        BY <1>1, <3>2
      <4>2. t[1] = s[2]
        BY <1>2, <4>1
      <4> QED BY <1>3, <1>4, <3>2, <4>1, <4>2
    <3> QED BY <3>1, <3>2
  <2>3. m # 0 => r.tail = t[m]
    <3> SUFFICES ASSUME m # 0 PROVE r.tail = t[m]
      OBVIOUS
    <3>1. m \in 1 .. m /\ m + 1 = n
      BY <1>1
    <3>2. t[m] = s[n]
      <4> HIDE DEF m
      <4> QED BY <1>2, <3>1
    <3> QED BY <1>4, <3>2, ListFacts
  <2>4. r.len = m
    BY <1>4 DEF IsList
  <2> HIDE DEF m
  <2> QED BY <1>1, <1>2, <1>6, <2>1, <2>2, <2>3, <2>4 DEF IsList
<1>9. r \in QueueState
  <2>1. /\ r.head \in Objects \cup {None} /\ r.tail \in Objects \cup {None}
        /\ r.positions \in [AccessKeys -> (Nat \X Objects) \cup {None}] /\ r.issued \in Nat
    BY <1>3, <1>4, FieldsOfState
  <2>2. r.len \in Nat
    BY <1>1, <1>8 DEF IsList
  <2> QED BY ONLY <1>4, <1>5, <2>1, <2>2 DEF QueueState
<1> QED BY <1>4, <1>7, <1>8, <1>9

-----------------------------------------------------------------------------
(***************************************************************************)
(* The users of a list as a sequence of UserQueue.                         *)
(***************************************************************************)
LEMMA UsersAre ==
  ASSUME NEW h \in [Objects -> Fields \cup {None}], NEW n \in Nat, NEW s \in [1 .. n -> Objects],
         \A i \in 1 .. n : h[s[i]] # None
  PROVE  /\ UsersOf(h, n, s) \in Seq(Abstract!User)
         /\ Len(UsersOf(h, n, s)) = n /\ DOMAIN UsersOf(h, n, s) = 1 .. n
         /\ UsersOf(h, n, s) = <<>> <=> n = 0
         /\ \A i \in 1 .. n : /\ UsersOf(h, n, s)[i] = UserOf(h[s[i]])
                              /\ UsersOf(h, n, s)[i].access_key = h[s[i]].access_key
                              /\ UsersOf(h, n, s)[i].computation_key = h[s[i]].computation_key
                              /\ UsersOf(h, n, s)[i].age = h[s[i]].age
<1> DEFINE us == UsersOf(h, n, s)
<1>1. us = [i \in 1 .. n |-> UserOf(h[s[i]])]
  BY DEF UsersOf
<1> HIDE DEF us
<1>2. ASSUME NEW i \in 1 .. n
      PROVE  /\ UserOf(h[s[i]]) \in Abstract!User
             /\ us[i] = UserOf(h[s[i]])
             /\ us[i].access_key = h[s[i]].access_key
             /\ us[i].computation_key = h[s[i]].computation_key
             /\ us[i].age = h[s[i]].age
  <2>1. h[s[i]] \in Fields
    OBVIOUS
  <2>2. us[i] = UserOf(h[s[i]])
    BY <1>1
  <2> QED BY <2>1, <2>2 DEF UserOf, Fields, Abstract!User
<1>3. us \in [1 .. n -> Abstract!User]
  BY <1>1, <1>2
<1>4. us \in Seq(Abstract!User)
  BY <1>3, SeqDef
<1>5. Len(us) = n /\ DOMAIN us = 1 .. n
  BY <1>3, <1>4, LenProperties
<1>6. us = <<>> <=> Len(us) = 0
  BY <1>4, EmptySeq
<1> QED BY <1>2, <1>4, <1>5, <1>6 DEF us

LEMMA UsersOfList ==
  ASSUME NEW q \in QueueState, NEW n, NEW s, IsList(q, n, s)
  PROVE  /\ UsersOf(q.heap, n, s) \in Seq(Abstract!User)
         /\ Len(UsersOf(q.heap, n, s)) = n /\ DOMAIN UsersOf(q.heap, n, s) = 1 .. n
         /\ UsersOf(q.heap, n, s) = <<>> <=> n = 0
         /\ \A i \in 1 .. n :
              /\ UsersOf(q.heap, n, s)[i] = UserOf(q.heap[s[i]])
              /\ UsersOf(q.heap, n, s)[i].access_key = q.heap[s[i]].access_key
              /\ UsersOf(q.heap, n, s)[i].computation_key = q.heap[s[i]].computation_key
              /\ UsersOf(q.heap, n, s)[i].age = q.heap[s[i]].age
<1>1. /\ q.heap \in [Objects -> Fields \cup {None}] /\ n \in Nat /\ s \in [1 .. n -> Objects]
      /\ \A i \in 1 .. n : q.heap[s[i]] # None
  BY FieldsOfState, ListFacts DEF IsList
<1> QED BY <1>1, UsersAre

LEMMA AppendUsers ==
  ASSUME NEW h \in [Objects -> Fields \cup {None}], NEW n \in Nat, NEW s \in [1 .. n -> Objects],
         NEW u \in Objects, h[u] # None, \A i \in 1 .. n : h[s[i]] # None
  PROVE  UsersOf(h, n + 1, Appended(n, s, u)) = Append(UsersOf(h, n, s), UserOf(h[u]))
<1> DEFINE us == UsersOf(h, n, s)
           vs == UsersOf(h, n + 1, Appended(n, s, u))
           ws == Append(us, UserOf(h[u]))
<1>1. /\ us \in Seq(Abstract!User) /\ Len(us) = n
      /\ \A i \in 1 .. n : us[i] = UserOf(h[s[i]])
  BY UsersAre
<1>2. UserOf(h[u]) \in Abstract!User
  BY DEF UserOf, Fields, Abstract!User
<1>3. vs = [i \in 1 .. n + 1 |-> IF i = n + 1 THEN UserOf(h[u]) ELSE UserOf(h[s[i]])]
  BY DEF UsersOf, Appended
<1> HIDE DEF us, vs
<1>4. /\ ws \in Seq(Abstract!User) /\ Len(ws) = n + 1
      /\ \A i \in 1 .. n : ws[i] = us[i]
      /\ ws[n + 1] = UserOf(h[u])
  BY <1>1, <1>2, AppendProperties
<1>5. DOMAIN ws = 1 .. n + 1
  BY <1>4, LenProperties
<1> HIDE DEF ws
<1>6. ws = [i \in 1 .. n + 1 |-> ws[i]]
  BY <1>4, <1>5, LenProperties
<1>7. \A i \in 1 .. n + 1 : i = n + 1 \/ i \in 1 .. n
  OBVIOUS
<1>8. \A i \in 1 .. n + 1 : vs[i] = ws[i]
  BY <1>1, <1>3, <1>4, <1>7
<1>9. vs = ws
  BY <1>3, <1>6, <1>8
<1> QED BY <1>9 DEF us, vs, ws

LEMMA InsertUsers ==
  ASSUME NEW h \in [Objects -> Fields \cup {None}], NEW n \in Nat, NEW s \in [1 .. n -> Objects],
         NEW u \in Objects, h[u] # None, \A i \in 1 .. n : h[s[i]] # None
  PROVE  UsersOf(h, n + 1, Inserted(n, s, u))
           = Abstract!InsertSecond(UsersOf(h, n, s), UserOf(h[u]))
<1> DEFINE us == UsersOf(h, n, s)
           vs == UsersOf(h, n + 1, Inserted(n, s, u))
           x == UserOf(h[u])
<1>1. /\ Len(us) = n /\ (us = <<>> <=> n = 0)
      /\ \A i \in 1 .. n : us[i] = UserOf(h[s[i]])
  BY UsersAre
<1>2. vs = [i \in 1 .. n + 1 |-> UserOf(h[IF n = 0 \/ i = 2 THEN u
                                          ELSE IF i = 1 THEN s[1] ELSE s[i - 1]])]
  BY DEF UsersOf, Inserted
<1>3. Abstract!InsertSecond(us, x)
        = [i \in 1 .. n + 1 |-> IF n = 0 \/ i = 2 THEN x
                                ELSE IF i = 1 THEN us[1] ELSE us[i - 1]]
  BY <1>1 DEF Abstract!InsertSecond
<1>4. ASSUME NEW i \in 1 .. n + 1, n # 0, i # 2
      PROVE  IF i = 1 THEN us[1] = UserOf(h[s[1]]) ELSE us[i - 1] = UserOf(h[s[i - 1]])
  <2>1. 1 \in 1 .. n /\ (i # 1 => i - 1 \in 1 .. n)
    BY <1>4
  <2> QED BY <1>1, <2>1
<1> HIDE DEF us, vs
<1>5. vs = Abstract!InsertSecond(us, x)
  BY <1>2, <1>3, <1>4
<1> QED BY <1>5 DEF us, vs

LEMMA PopUsers ==
  ASSUME NEW h \in [Objects -> Fields \cup {None}], NEW n \in Nat, NEW s \in [1 .. n -> Objects],
         n # 0, \A i \in 1 .. n : h[s[i]] # None
  PROVE  UsersOf(h, n - 1, Popped(n, s)) = Abstract!Pop(UsersOf(h, n, s))
<1> DEFINE us == UsersOf(h, n, s)
           vs == UsersOf(h, n - 1, Popped(n, s))
           ws == Tail(us)
<1>1. /\ us \in Seq(Abstract!User) /\ Len(us) = n /\ us # <<>>
      /\ \A i \in 1 .. n : us[i] = UserOf(h[s[i]])
  BY UsersAre
<1>2. vs = [i \in 1 .. n - 1 |-> UserOf(h[s[i + 1]])]
  BY DEF UsersOf, Popped
<1> HIDE DEF us, vs
<1>3. /\ ws \in Seq(Abstract!User) /\ Len(ws) = n - 1
      /\ \A i \in 1 .. n - 1 : ws[i] = us[i + 1]
  BY <1>1, HeadTailProperties
<1> HIDE DEF ws
<1>4. ws = [i \in 1 .. n - 1 |-> ws[i]]
  BY <1>3, LenProperties
<1>5. \A i \in 1 .. n - 1 : i + 1 \in 1 .. n
  OBVIOUS
<1> QED BY <1>1, <1>2, <1>3, <1>4, <1>5 DEF Abstract!Pop, us, vs, ws

\* The sequence after its head was given its turn, if it had none.
HeadSet(us, key) ==
  IF Abstract!NeedsHeadData(us)
  THEN [us EXCEPT ![1] = [@ EXCEPT !.age = 0, !.computation_key = key]]
  ELSE us

\* A user who comes to the head gets its turn, in the list as in the sequence.
LEMMA HeadData ==
  ASSUME NEW q \in QueueState, NEW n, NEW s, IsList(q, n, s),
         NEW r, r = _set_queue_head_data_if_needed(q),
         NEW us, us = UsersOf(q.heap, n, s)
  PROVE  /\ r \in QueueState /\ IsList(r, n, s) /\ r.positions = q.positions
         /\ UsersOf(r.heap, n, s) = HeadSet(us, q.issued + 1)
         /\ r.issued = IF Abstract!NeedsHeadData(us) THEN q.issued + 1 ELSE q.issued
         /\ \A i \in 1 .. n : r.heap[s[i]].access_key = q.heap[s[i]].access_key
<1>1. /\ DOMAIN us = 1 .. n /\ (us = <<>> <=> n = 0)
      /\ us = [i \in 1 .. n |-> us[i]]
      /\ \A i \in 1 .. n : us[i] = UserOf(q.heap[s[i]])
      /\ \A i \in 1 .. n : us[i].age = q.heap[s[i]].age
  <2>1. us = [i \in 1 .. n |-> us[i]]
    BY DEF UsersOf
  <2> QED BY <2>1, UsersOfList
<1>2. /\ n \in Nat
      /\ n # 0 => /\ 1 \in 1 .. n /\ q.head = s[1] /\ s[1] \in Objects
                  /\ q.heap[s[1]] # None
      /\ q.len = n
  BY ListFacts DEF IsList
<1>3. Abstract!NeedsHeadData(us) <=> n # 0 /\ q.heap[q.head].age = None
  BY <1>1, <1>2 DEF Abstract!NeedsHeadData
<1>4. q.len > 0 <=> n # 0
  BY <1>2, ListFacts
<1>5. CASE ~Abstract!NeedsHeadData(us)
  <2>1. r = q
    BY <1>3, <1>4, <1>5 DEF _set_queue_head_data_if_needed
  <2> QED BY <1>5, <2>1 DEF HeadSet
<1>6. CASE Abstract!NeedsHeadData(us)
  <2> DEFINE f == [q.heap[s[1]] EXCEPT !.age = 0, !.computation_key = q.issued + 1]
             e == [us[1] EXCEPT !.age = 0, !.computation_key = q.issued + 1]
  <2>1. n # 0 /\ 1 \in 1 .. n /\ q.head = s[1] /\ s[1] \in Objects /\ q.heap[s[1]] \in Fields
    BY <1>2, <1>3, <1>6, FieldsOfState
  <2>2. /\ f \in Fields /\ f.next = q.heap[s[1]].next
        /\ f.access_key = q.heap[s[1]].access_key
        /\ f.age = 0 /\ f.computation_key = q.issued + 1
    <3>1. 0 \in 0 .. HeadTimeout + 1 /\ q.issued + 1 \in Nat
      BY FieldsOfState, ListAssumption
    <3> QED BY <2>1, <3>1 DEF Fields
  <2>3. f # None /\ UserOf(f) = e
    <3>1. us[1] = UserOf(q.heap[s[1]])
      BY <1>1, <2>1
    <3>2. /\ e \in Abstract!User /\ e.access_key = q.heap[s[1]].access_key
          /\ e.computation_key = q.issued + 1 /\ e.age = 0
      <4>1. us[1] \in Abstract!User /\ us[1].access_key = q.heap[s[1]].access_key
        BY <2>1, <3>1 DEF UserOf, Fields, Abstract!User
      <4>2. q.issued + 1 \in Nat
        BY FieldsOfState
      <4>3. e = [us[1] EXCEPT !.age = 0, !.computation_key = q.issued + 1]
        OBVIOUS
      <4>4. 0 \in 0 .. HeadTimeout + 1
        BY ListAssumption
      <4> HIDE DEF e
      <4> QED BY <4>1, <4>2, <4>3, <4>4 DEF Abstract!User
    <3>3. f # None
      BY <2>2, ListAssumption
    <3> HIDE DEF e, f
    <3> QED BY <2>2, <3>2, <3>3 DEF UserOf, Abstract!User
  <2>4. /\ r.heap = [q.heap EXCEPT ![s[1]] = f]
        /\ r.issued = q.issued + 1 /\ r.positions = q.positions
        /\ r.head = q.head /\ r.tail = q.tail /\ r.len = q.len
        /\ r = [head |-> r.head, tail |-> r.tail, len |-> r.len, heap |-> r.heap,
                positions |-> r.positions, issued |-> r.issued]
    <3> DEFINE g == StartTurn(q.heap, q.head, q.issued + 1)
    <3>1. r = [q EXCEPT !.heap = g, !.issued = q.issued + 1]
      BY <1>3, <1>4, <1>6 DEF _set_queue_head_data_if_needed
    <3>2. g = [q.heap EXCEPT ![s[1]] = f]
      BY <2>1 DEF StartTurn
    <3> HIDE DEF g, f
    <3>3. /\ r.heap = g /\ r.issued = q.issued + 1 /\ r.positions = q.positions
          /\ r.head = q.head /\ r.tail = q.tail /\ r.len = q.len
          /\ r = [head |-> r.head, tail |-> r.tail, len |-> r.len, heap |-> r.heap,
                  positions |-> r.positions, issued |-> r.issued]
      BY <3>1 DEF QueueState
    <3> QED BY <3>2, <3>3
  <2> HIDE DEF f
  <2>5. /\ r.heap \in [Objects -> Fields \cup {None}] /\ r.heap[s[1]] = f
        /\ \A p \in Objects \ {s[1]} : r.heap[p] = q.heap[p]
    BY <2>1, <2>2, <2>4, FieldsOfState
  <2>6. ASSUME NEW i \in 1 .. n
        PROVE  /\ r.heap[s[i]] # None /\ r.heap[s[i]].next = q.heap[s[i]].next
               /\ r.heap[s[i]].access_key = q.heap[s[i]].access_key
               /\ UserOf(r.heap[s[i]]) = IF i = 1 THEN e ELSE us[i]
    <3>1. CASE i = 1
      BY <2>2, <2>3, <2>5, <3>1
    <3>2. CASE i # 1
      <4>1. s[i] # s[1] /\ s[i] \in Objects /\ q.heap[s[i]] # None
        <5>1. s[i] = s[1] => i = 1
          BY <2>1 DEF IsList
        <5> QED BY <3>2, <5>1, ListFacts
      <4> QED BY <1>1, <2>5, <3>2, <4>1
    <3> QED BY <3>1, <3>2
  <2>7. IsList(r, n, s)
    BY <2>4, <2>6 DEF IsList
  <2>8. UsersOf(r.heap, n, s) = [us EXCEPT ![1] = e]
    <3>1. UsersOf(r.heap, n, s) = [i \in 1 .. n |-> IF i = 1 THEN e ELSE us[i]]
      BY <2>6 DEF UsersOf
    <3> HIDE DEF e
    <3> QED BY <1>1, <3>1
  <2>9. r \in QueueState
    <3>1. r.issued \in Nat
      BY <2>4, FieldsOfState
    <3> QED BY <2>4, <2>5, <3>1, FieldsOfState DEF QueueState
  <2>10. HeadSet(us, q.issued + 1) = [us EXCEPT ![1] = e]
    BY <1>6 DEF HeadSet
  <2> HIDE DEF e
  <2> QED BY <1>6, <2>4, <2>6, <2>7, <2>8, <2>9, <2>10
<1> QED BY <1>5, <1>6

-----------------------------------------------------------------------------
(***************************************************************************)
(* The dictionary.                                                         *)
(***************************************************************************)

\* A set of places that is not empty has a last one.
LEMMA LastPlace ==
  ASSUME NEW n \in Nat, NEW P \in SUBSET (1 .. n), P # {}
  PROVE  \E i \in P : \A j \in P : j <= i
<1> DEFINE R == OpToRel(<, Nat)
           T == {k \in Nat : n - k \in P}
<1>1. T # {}
  <2>1. PICK i \in P : TRUE
    OBVIOUS
  <2>2. n - i \in Nat /\ n - (n - i) = i
    OBVIOUS
  <2> QED BY <2>1, <2>2
<1>2. IsWellFoundedOn(R, Nat)
  BY NatLessThanWellFounded
<1>3. T \subseteq Nat
  OBVIOUS
<1>4. PICK x \in T : \A y \in T : ~(<<y, x>> \in R)
  <2> HIDE DEF R, T
  <2> QED BY <1>1, <1>2, <1>3, WFMin
<1>5. \A j \in P : j <= n - x
  <2> SUFFICES ASSUME NEW j \in P, ~(j <= n - x) PROVE FALSE
    OBVIOUS
  <2>1. n - j \in Nat /\ n - (n - j) = j /\ n - j < x /\ x \in Nat
    OBVIOUS
  <2>2. n - j \in T
    BY <2>1
  <2>3. <<n - j, x>> \in R
    BY <2>1 DEF OpToRel
  <2> QED BY <1>4, <2>2, <2>3
<1> QED BY <1>4, <1>5

\* The position of a user is that of the last one of its access key.
LEMMA PositionMapAt ==
  ASSUME NEW us, NEW n \in Nat, DOMAIN us = 1 .. n, NEW ak \in AccessKeys
  PROVE  /\ (\A i \in 1 .. n : us[i].access_key # ak) => Abstract!PositionMap(us)[ak] = None
         /\ \A i \in 1 .. n :
              us[i].access_key = ak /\ (\A j \in 1 .. n : us[j].access_key = ak => j <= i)
                => Abstract!PositionMap(us)[ak] = i - 1
<1>1. ASSUME \A i \in 1 .. n : us[i].access_key # ak
      PROVE  Abstract!PositionMap(us)[ak] = None
  BY <1>1 DEF Abstract!PositionMap
<1>2. ASSUME NEW i \in 1 .. n, us[i].access_key = ak,
             \A j \in 1 .. n : us[j].access_key = ak => j <= i
      PROVE  Abstract!PositionMap(us)[ak] = i - 1
  <2> DEFINE Last(k) == /\ us[k].access_key = ak
                        /\ \A j \in DOMAIN us : us[j].access_key = ak => j <= k
  <2>1. \A k \in DOMAIN us : Last(k) <=> k = i
    BY <1>2
  <2>2. (CHOOSE k \in DOMAIN us : Last(k)) = i
    BY <1>2, <2>1
  <2>3. Abstract!PositionMap(us)[ak] = (CHOOSE k \in DOMAIN us : Last(k)) - 1
    BY <1>2 DEF Abstract!PositionMap
  <2> QED BY <2>2, <2>3
<1> QED BY <1>1, <1>2

\* It depends on the access keys alone.
LEMMA SameKeysSameMap ==
  ASSUME NEW us, NEW vs, NEW n \in Nat, DOMAIN us = 1 .. n, DOMAIN vs = 1 .. n,
         \A i \in 1 .. n : us[i].access_key = vs[i].access_key
  PROVE  Abstract!PositionMap(us) = Abstract!PositionMap(vs)
<1>1. ASSUME NEW ak \in AccessKeys
      PROVE  Abstract!PositionMap(us)[ak] = Abstract!PositionMap(vs)[ak]
  <2> DEFINE P == {i \in 1 .. n : us[i].access_key = ak}
  <2>1. CASE P = {}
    <3>1. \A i \in 1 .. n : us[i].access_key # ak /\ vs[i].access_key # ak
      BY <2>1
    <3> QED BY <3>1, PositionMapAt
  <2>2. CASE P # {}
    <3>1. P \in SUBSET (1 .. n)
      OBVIOUS
    <3>2. PICK i \in P : \A j \in P : j <= i
      <4> HIDE DEF P
      <4> QED BY <2>2, <3>1, LastPlace
    <3>3. /\ i \in 1 .. n /\ us[i].access_key = ak /\ vs[i].access_key = ak
          /\ \A j \in 1 .. n : us[j].access_key = ak => j <= i
          /\ \A j \in 1 .. n : vs[j].access_key = ak => j <= i
      BY <3>2
    <3>4. Abstract!PositionMap(us)[ak] = i - 1
      BY <3>3, PositionMapAt
    <3>5. Abstract!PositionMap(vs)[ak] = i - 1
      BY <3>3, PositionMapAt
    <3> QED BY <3>4, <3>5
  <2> QED BY <2>1, <2>2
<1> QED BY <1>1 DEF Abstract!PositionMap

PositionsOf(positions) == [ak \in AccessKeys |-> PositionOf(positions[ak])]

Good(q, n, s) == q \in QueueState /\ IsList(q, n, s) /\ PointsInto(q.positions, n, s)

\* _build_position_map, after whatever was done to the list.
LEMMA BuildMap ==
  ASSUME NEW q \in QueueState, NEW n, NEW s, IsList(q, n, s),
         NEW r, r = _build_position_map(q)
  PROVE  /\ Good(r, n, s) /\ r.heap = q.heap /\ r.issued = q.issued
         /\ PositionsOf(r.positions) = Abstract!PositionMap(UsersOf(q.heap, n, s))
<1> DEFINE Places(ak) == {i \in 1 .. n : q.heap[s[i]].access_key = ak}
           last(ak) == CHOOSE i \in Places(ak) : \A j \in Places(ak) : j <= i
           positions == [ak \in AccessKeys |-> IF Places(ak) = {} THEN None
                                               ELSE <<last(ak) - 1, s[last(ak)]>>]
           us == UsersOf(q.heap, n, s)
<1>1. Chain(q) = s /\ DOMAIN s = 1 .. n /\ n \in Nat
  BY ChainIs DEF IsList
<1>2. r = [q EXCEPT !.positions = positions]
  BY <1>1 DEF _build_position_map
<1>3. ASSUME NEW ak \in AccessKeys, Places(ak) # {}
      PROVE  /\ last(ak) \in 1 .. n /\ q.heap[s[last(ak)]].access_key = ak
             /\ \A j \in 1 .. n : q.heap[s[j]].access_key = ak => j <= last(ak)
  <2>1. Places(ak) \in SUBSET (1 .. n)
    OBVIOUS
  <2>2. \E i \in Places(ak) : \A j \in Places(ak) : j <= i
    <3> HIDE DEF Places
    <3> QED BY <1>1, <1>3, <2>1, LastPlace
  <2>3. last(ak) \in Places(ak) /\ \A j \in Places(ak) : j <= last(ak)
    BY <2>2
  <2> HIDE DEF last
  <2> QED BY <2>3
<1> HIDE DEF last
<1>4. /\ DOMAIN us = 1 .. n
      /\ \A i \in 1 .. n : us[i].access_key = q.heap[s[i]].access_key
  BY UsersOfList
<1> HIDE DEF us
<1>5. ASSUME NEW ak \in AccessKeys
      PROVE  /\ positions[ak] \in (Nat \X Objects) \cup {None}
             /\ positions[ak] # None => \E i \in 1 .. n : positions[ak] = <<i - 1, s[i]>>
             /\ PositionOf(positions[ak]) = Abstract!PositionMap(us)[ak]
  <2>1. CASE Places(ak) = {}
    <3>1. positions[ak] = None
      BY <2>1
    <3>2. \A i \in 1 .. n : us[i].access_key # ak
      BY <1>4, <2>1
    <3>3. Abstract!PositionMap(us)[ak] = None
      BY <1>1, <1>4, <3>2, PositionMapAt
    <3> QED BY <3>1, <3>3 DEF PositionOf
  <2>2. CASE Places(ak) # {}
    <3> DEFINE i == last(ak)
    <3>1. positions[ak] = <<i - 1, s[i]>>
      BY <2>2
    <3>2. /\ i \in 1 .. n /\ us[i].access_key = ak
          /\ \A j \in 1 .. n : us[j].access_key = ak => j <= i
      BY <1>3, <1>4, <2>2
    <3> HIDE DEF i, positions
    <3>3. Abstract!PositionMap(us)[ak] = i - 1
      BY <1>1, <1>4, <3>2, PositionMapAt
    <3>4. s[i] \in Objects /\ i - 1 \in Nat
      BY <1>1, <3>2, ListFacts
    <3>5. <<i - 1, s[i]>> \in Nat \X Objects
      BY <3>4
    <3>6. positions[ak] # None
      BY <3>1, <3>5, ListAssumption
    <3>7. PositionOf(positions[ak]) = i - 1
      BY <3>1, <3>6 DEF PositionOf
    <3> QED BY <3>1, <3>2, <3>3, <3>5, <3>7
  <2> QED BY <2>1, <2>2
<1>6. positions \in [AccessKeys -> (Nat \X Objects) \cup {None}]
  BY <1>5
<1>7. PositionsOf(positions) = Abstract!PositionMap(us)
  <2>1. Abstract!PositionMap(us) = [ak \in AccessKeys |-> Abstract!PositionMap(us)[ak]]
    BY DEF Abstract!PositionMap
  <2> HIDE DEF positions
  <2> QED BY <1>5, <2>1 DEF PositionsOf
<1> HIDE DEF positions
<1>8. /\ r.positions = positions /\ r.heap = q.heap /\ r.issued = q.issued
      /\ r.head = q.head /\ r.tail = q.tail /\ r.len = q.len
      /\ r = [head |-> r.head, tail |-> r.tail, len |-> r.len, heap |-> r.heap,
              positions |-> r.positions, issued |-> r.issued]
  BY <1>2 DEF QueueState
<1>9. r \in QueueState
  BY <1>6, <1>8, FieldsOfState DEF QueueState
<1>10. IsList(r, n, s)
  BY <1>8 DEF IsList
<1>11. PointsInto(r.positions, n, s)
  BY <1>5, <1>8 DEF PointsInto
<1> QED BY <1>7, <1>8, <1>9, <1>10, <1>11 DEF Good, us

-----------------------------------------------------------------------------
(***************************************************************************)
(* The invariant: the variables hold a list of at most MaxSize objects,    *)
(* the dictionary points into it, and all other objects, but for the one   *)
(* users_tail refers to, are free.                                         *)
(***************************************************************************)
Kept(h, tail, n, s) ==
  \A o \in Objects : h[o] # None => o = tail \/ \E i \in 1 .. n : s[i] = o

LInv == \E n \in 0 .. MaxSize : \E s \in [1 .. n -> Objects] :
          Good(Queue, n, s) /\ Kept(heap, users_tail, n, s)

LEMMA QueueIs ==
  /\ Queue.head = users_head /\ Queue.tail = users_tail /\ Queue.len = users_len
  /\ Queue.heap = heap /\ Queue.positions = user_positions /\ Queue.issued = issued
BY DEF Queue

\* The sequence the variables stand for.
LEMMA UsersView ==
  ASSUME NEW n, NEW s, IsList(Queue, n, s)
  PROVE  Users = UsersOf(heap, n, s)
<1>1. Chain(Queue) = s
  BY ChainIs
<1>2. DOMAIN s = 1 .. n
  BY DEF IsList
<1> QED BY <1>1, <1>2 DEF Users, UsersOf

\* What is collected after a method is not in the list nor in the dictionary.
LEMMA CommitView ==
  ASSUME NEW q, NEW n, NEW s, Good(q, n, s), n <= MaxSize, Commit(q)
  PROVE  /\ LInv'
         /\ Users' = UsersOf(q.heap, n, s)
         /\ Positions' = PositionsOf(q.positions)
         /\ issued' = q.issued
<1>1. /\ users_head' = q.head /\ users_tail' = q.tail /\ users_len' = q.len
      /\ heap' = [o \in Objects |-> IF o \in Alive(q) THEN q.heap[o] ELSE None]
      /\ user_positions' = q.positions /\ issued' = q.issued
  BY DEF Commit
<1>2. q \in QueueState /\ IsList(q, n, s) /\ PointsInto(q.positions, n, s)
  BY DEF Good
<1>3. Chain(q) = s /\ DOMAIN s = 1 .. n /\ n \in Nat /\ s \in [1 .. n -> Objects]
  BY <1>2, ChainIs DEF IsList
<1>4. \A i \in 1 .. n : s[i] \in Alive(q) /\ s[i] \in Objects
  BY <1>3 DEF Alive
<1>5. ASSUME NEW o \in Alive(q) PROVE o = q.tail \/ \E i \in 1 .. n : s[i] = o
  <2>1. CASE o = q.tail
    BY <2>1
  <2>2. CASE \E i \in 1 .. n : s[i] = o
    BY <2>2
  <2>3. CASE o \in {q.positions[ak][2] : ak \in {a \in AccessKeys : q.positions[a] # None}}
    <3>1. PICK ak \in AccessKeys : q.positions[ak] # None /\ o = q.positions[ak][2]
      BY <2>3
    <3>2. PICK i \in 1 .. n : q.positions[ak] = <<i - 1, s[i]>>
      BY <1>2, <3>1 DEF PointsInto
    <3> QED BY <3>1, <3>2
  <2> QED BY <1>3, <2>1, <2>2, <2>3 DEF Alive
<1> DEFINE r == Queue'
<1>6. /\ r = [head |-> q.head, tail |-> q.tail, len |-> q.len, heap |-> heap',
              positions |-> q.positions, issued |-> q.issued]
      /\ r.head = q.head /\ r.tail = q.tail /\ r.len = q.len /\ r.heap = heap'
      /\ r.positions = q.positions /\ r.issued = q.issued
  BY <1>1 DEF Queue
<1> HIDE DEF r
<1>7. /\ heap' \in [Objects -> Fields \cup {None}]
      /\ \A i \in 1 .. n : heap'[s[i]] = q.heap[s[i]]
      /\ \A o \in Objects : heap'[o] # None => o \in Alive(q)
  BY <1>1, <1>2, <1>4, FieldsOfState
<1>8. IsList(r, n, s)
  BY <1>2, <1>6, <1>7 DEF IsList
<1>9. r \in QueueState
  BY <1>2, <1>6, <1>7, FieldsOfState DEF QueueState
<1>10. LInv'
  <2>1. Good(r, n, s)
    BY <1>2, <1>6, <1>8, <1>9 DEF Good
  <2>2. Kept(heap', users_tail', n, s)
    BY <1>1, <1>5, <1>7 DEF Kept
  <2>3. n \in 0 .. MaxSize
    BY <1>3, ListAssumption
  <2> QED BY <1>3, <2>1, <2>2, <2>3 DEF LInv, r
<1>11. Users' = UsersOf(heap', n, s)
  <2>1. Chain(r) = s
    BY <1>8, ChainIs
  <2>2. Users' = [i \in DOMAIN Chain(r) |-> UserOf(heap'[Chain(r)[i]])]
    BY DEF Users, r
  <2> QED BY <1>3, <2>1, <2>2 DEF UsersOf
<1>12. UsersOf(heap', n, s) = UsersOf(q.heap, n, s)
  BY <1>7 DEF UsersOf
<1>13. Positions' = PositionsOf(q.positions)
  BY <1>1 DEF Positions, PositionsOf
<1> QED BY <1>1, <1>10, <1>11, <1>12, <1>13

\* There is an object for a new user as long as the queue is not full.
LEMMA AnObjectIsFree ==
  ASSUME NEW n \in Nat, NEW s \in [1 .. n -> Objects], n < MaxSize,
         users_tail \in Objects \cup {None}, Kept(heap, users_tail, n, s)
  PROVE  Free # {}
<1> SUFFICES ASSUME Free = {} PROVE FALSE
  OBVIOUS
<1>1. \A o \in Objects : o = users_tail \/ \E i \in 1 .. n : s[i] = o
  BY DEF Kept, Free
<1>2. \A m \in Nat : IsFiniteSet(1 .. m) /\ Cardinality(1 .. m) = m
  <2> TAKE m \in Nat
  <2>1. IsFiniteSet(1 .. m) /\ Cardinality(1 .. m) = IF 1 > m THEN 0 ELSE m - 1 + 1
    BY FS_Interval
  <2> QED BY <2>1
<1>3. MaxSize \in Nat /\ Cardinality(Objects) \in Nat /\ Cardinality(Objects) > MaxSize
  BY ListAssumption, FS_CardinalityType
<1>4. CASE users_tail \notin Objects
  <2>1. s \in Surjection(1 .. n, Objects)
    BY <1>1, <1>4 DEF Surjection
  <2>2. Cardinality(Objects) <= n
    BY <1>2, <2>1, FS_Surjection
  <2> QED BY <1>3, <2>2
<1>5. CASE users_tail \in Objects
  <2> DEFINE f == [i \in 1 .. n + 1 |-> IF i = n + 1 THEN users_tail ELSE s[i]]
  <2>1. \A i \in 1 .. n + 1 : i = n + 1 \/ i \in 1 .. n
    OBVIOUS
  <2>2. \A i \in 1 .. n : i \in 1 .. n + 1 /\ i # n + 1
    OBVIOUS
  <2>3. f \in [1 .. n + 1 -> Objects]
    BY <1>5, <2>1
  <2>4. f[n + 1] = users_tail /\ \A i \in 1 .. n : f[i] = s[i]
    BY <2>2
  <2>5. n + 1 \in 1 .. n + 1
    OBVIOUS
  <2> HIDE DEF f
  <2>6. f \in Surjection(1 .. n + 1, Objects)
    BY <1>1, <2>2, <2>3, <2>4, <2>5 DEF Surjection
  <2>7. Cardinality(Objects) <= n + 1
    BY <1>2, <2>6, FS_Surjection
  <2> QED BY <1>3, <2>7
<1> QED BY <1>4, <1>5

\* User(access_key=ak) is not in the list yet.
LEMMA NewUserIs ==
  ASSUME NEW n, NEW s, Good(Queue, n, s), NEW ak \in AccessKeys, NEW u \in Free,
         NEW q, q = WithNewUser(ak, u)
  PROVE  /\ q \in QueueState /\ IsList(q, n, s) /\ u \in Objects
         /\ q.heap[u] # None /\ UserOf(q.heap[u]) = Abstract!NewUser(ak)
         /\ \A i \in 1 .. n : s[i] # u
         /\ UsersOf(q.heap, n, s) = UsersOf(heap, n, s)
         /\ q.positions = user_positions /\ q.issued = issued
<1> DEFINE f == [access_key |-> ak, computation_key |-> None, age |-> None, next |-> None]
<1>1. /\ f \in Fields /\ f.access_key = ak /\ f.computation_key = None /\ f.age = None
      /\ UserOf(f) = Abstract!NewUser(ak)
  BY DEF Fields, UserOf, Abstract!NewUser
<1>2. q = [Queue EXCEPT !.heap[u] = f]
  BY DEF WithNewUser
<1>3. u \in Objects /\ heap[u] = None
  BY DEF Free
<1>4. Queue \in QueueState /\ IsList(Queue, n, s)
  BY DEF Good
<1>5. /\ heap \in [Objects -> Fields \cup {None}]
      /\ \A i \in 1 .. n : s[i] \in Objects /\ heap[s[i]] # None
  BY <1>4, FieldsOfState, ListFacts, QueueIs
<1> HIDE DEF f
<1>6. /\ q.heap = [heap EXCEPT ![u] = f]
      /\ q.head = users_head /\ q.tail = users_tail /\ q.len = users_len
      /\ q.positions = user_positions /\ q.issued = issued
      /\ q = [head |-> q.head, tail |-> q.tail, len |-> q.len, heap |-> q.heap,
              positions |-> q.positions, issued |-> q.issued]
  BY <1>2 DEF Queue
<1>7. f # None
  BY <1>1, ListAssumption
<1>8. /\ q.heap \in [Objects -> Fields \cup {None}] /\ q.heap[u] = f
      /\ \A i \in 1 .. n : s[i] # u /\ q.heap[s[i]] = heap[s[i]]
  BY <1>1, <1>3, <1>5, <1>6
<1>9. IsList(q, n, s)
  BY <1>4, <1>6, <1>8, QueueIs DEF IsList
<1>10. q \in QueueState
  <2>1. /\ users_head \in Objects \cup {None} /\ users_tail \in Objects \cup {None}
        /\ users_len \in Nat /\ issued \in Nat
        /\ user_positions \in [AccessKeys -> (Nat \X Objects) \cup {None}]
    BY <1>4, FieldsOfState, QueueIs
  <2> QED BY ONLY <1>6, <1>8, <2>1 DEF QueueState
<1>11. UsersOf(q.heap, n, s) = UsersOf(heap, n, s)
  BY <1>8 DEF UsersOf
<1> QED BY <1>1, <1>3, <1>6, <1>7, <1>8, <1>9, <1>10, <1>11

-----------------------------------------------------------------------------
(***************************************************************************)
(* The steps: each keeps the invariant and is the step of its name on the  *)
(* sequence.                                                               *)
(***************************************************************************)

\* The last thing an operation does with the list: the head gets its turn.
LEMMA HeadView ==
  ASSUME NEW q, NEW n, NEW s, Good(q, n, s), n <= MaxSize, q.issued = issued,
         Commit(_set_queue_head_data_if_needed(q))
  PROVE  /\ LInv'
         /\ Abstract!SetQueueHeadData(UsersOf(q.heap, n, s))
         /\ Positions' = PositionsOf(q.positions)
<1> DEFINE r == _set_queue_head_data_if_needed(q)
           us == UsersOf(q.heap, n, s)
<1>1. /\ r \in QueueState /\ IsList(r, n, s) /\ r.positions = q.positions
      /\ UsersOf(r.heap, n, s) = HeadSet(us, q.issued + 1)
      /\ r.issued = IF Abstract!NeedsHeadData(us) THEN q.issued + 1 ELSE q.issued
  <2>1. q \in QueueState /\ IsList(q, n, s)
    BY DEF Good
  <2>2. r = _set_queue_head_data_if_needed(q) /\ us = UsersOf(q.heap, n, s)
    OBVIOUS
  <2> HIDE DEF r, us
  <2> QED BY <2>1, <2>2, HeadData
<1>2. Good(r, n, s)
  BY <1>1 DEF Good
<1>3. Commit(r)
  OBVIOUS
<1> HIDE DEF r, us
<1>4. /\ LInv' /\ Users' = UsersOf(r.heap, n, s)
      /\ Positions' = PositionsOf(r.positions) /\ issued' = r.issued
  BY <1>2, <1>3, CommitView
<1>5. Abstract!SetQueueHeadData(us)
  <2>1. Users' = HeadSet(us, issued + 1)
    BY <1>1, <1>4
  <2> QED BY <1>1, <1>4, <2>1 DEF Abstract!SetQueueHeadData, HeadSet
<1> QED BY <1>1, <1>4, <1>5 DEF us

\* What the variables stand for when the invariant holds.
LEMMA View ==
  ASSUME NEW n, NEW s, Good(Queue, n, s)
  PROVE  /\ Users = UsersOf(heap, n, s) /\ Len(Users) = n /\ n \in Nat
         /\ (Users = <<>> <=> n = 0) /\ (users_head = None <=> n = 0) /\ users_len = n
         /\ n # 0 => /\ users_head = s[1] /\ 1 \in 1 .. n /\ s[1] \in Objects
                     /\ heap[s[1]] # None
                     /\ Users[1].age = heap[s[1]].age
                     /\ Users[1].computation_key = heap[s[1]].computation_key
         /\ heap \in [Objects -> Fields \cup {None}]
         /\ s \in [1 .. n -> Objects] /\ \A i \in 1 .. n : heap[s[i]] # None
<1>1. Queue \in QueueState /\ IsList(Queue, n, s)
  BY DEF Good
<1>2. Users = UsersOf(heap, n, s)
  BY <1>1, UsersView
<1>3. /\ Len(Users) = n /\ (Users = <<>> <=> n = 0)
      /\ \A i \in 1 .. n : /\ Users[i].age = heap[s[i]].age
                           /\ Users[i].computation_key = heap[s[i]].computation_key
  BY <1>1, <1>2, UsersOfList, QueueIs
<1>4. /\ n \in Nat /\ (users_head = None <=> n = 0)
      /\ \A i \in 1 .. n : s[i] \in Objects /\ heap[s[i]] # None
      /\ n # 0 => users_head = s[1] /\ 1 \in 1 .. n
  BY <1>1, ListFacts, QueueIs
<1>5. users_len = n /\ s \in [1 .. n -> Objects]
  BY <1>1, QueueIs DEF IsList
<1>6. heap \in [Objects -> Fields \cup {None}]
  BY <1>1, FieldsOfState, QueueIs
<1> QED BY <1>2, <1>3, <1>4, <1>5, <1>6

\* The entry of an access key and its position.
LEMMA PositionIs ==
  ASSUME NEW n, NEW s, Good(Queue, n, s), NEW ak \in AccessKeys
  PROVE  /\ Positions = PositionsOf(user_positions)
         /\ Positions[ak] = None <=> user_positions[ak] = None
         /\ user_positions[ak] # None =>
              /\ Positions[ak] = user_positions[ak][1]
              /\ \E i \in 1 .. n : user_positions[ak] = <<i - 1, s[i]>>
<1>1. user_positions \in [AccessKeys -> (Nat \X Objects) \cup {None}]
  BY FieldsOfState, QueueIs DEF Good
<1>2. Positions[ak] = PositionOf(user_positions[ak])
  BY DEF Positions
<1>3. user_positions[ak] # None => user_positions[ak][1] \in Nat
  BY <1>1
<1>4. user_positions[ak] # None => \E i \in 1 .. n : user_positions[ak] = <<i - 1, s[i]>>
  BY QueueIs DEF Good, PointsInto
<1>5. Positions = PositionsOf(user_positions)
  BY DEF Positions, PositionsOf
<1> QED BY <1>2, <1>3, <1>4, <1>5, ListAssumption DEF PositionOf

\* What both adds ask before they change anything.
LEMMA CanAddIs ==
  ASSUME NEW n \in 0 .. MaxSize, NEW s, Good(Queue, n, s), Kept(heap, users_tail, n, s),
         NEW ak \in AccessKeys, CanAdd(ak)
  PROVE  /\ Abstract!KeysLeft /\ Abstract!AddResult(ak) = "SUCCEEDED"
         /\ n + 1 <= MaxSize
         /\ (CHOOSE o \in Free : TRUE) \in Free
<1>1. Len(Users) = n /\ users_len = n /\ n \in Nat /\ s \in [1 .. n -> Objects]
  BY View
<1>2. issued + n < MaxKeys /\ n # MaxSize /\ user_positions[ak] = None
  BY <1>1 DEF CanAdd
<1>3. Positions[ak] = None
  BY <1>2, PositionIs
<1>4. n + 1 <= MaxSize /\ n < MaxSize
  BY <1>2, ListAssumption
<1>5. users_tail \in Objects \cup {None}
  BY FieldsOfState, QueueIs DEF Good
<1>6. Free # {}
  BY <1>1, <1>4, <1>5, AnObjectIsFree
<1> QED BY <1>1, <1>2, <1>3, <1>4, <1>6 DEF Abstract!KeysLeft, Abstract!AddResult

\* An entry put into the dictionary.
LEMMA EntryIs ==
  ASSUME NEW k \in Nat, NEW u \in Objects
  PROVE  /\ <<k, u>> \in (Nat \X Objects) \cup {None} /\ <<k, u>> # None
         /\ PositionOf(<<k, u>>) = k
<1>1. <<k, u>> \in Nat \X Objects
  OBVIOUS
<1> QED BY <1>1, ListAssumption DEF PositionOf

LEMMA AddStep ==
  ASSUME LInv, NEW ak \in AccessKeys, add_user(ak)
  PROVE  LInv' /\ Abstract!add_user(ak)
<1>0. PICK n \in 0 .. MaxSize : \E s \in [1 .. n -> Objects] :
        Good(Queue, n, s) /\ Kept(heap, users_tail, n, s)
  BY DEF LInv
<1>1. PICK s \in [1 .. n -> Objects] : Good(Queue, n, s) /\ Kept(heap, users_tail, n, s)
  BY <1>0
<1> DEFINE u == CHOOSE o \in Free : TRUE
           p == WithNewUser(ak, u)
           q == _add_user(p, u)
           t == Appended(n, s, u)
           r == [q EXCEPT !.positions[ak] = <<q.len - 1, u>>]
<1>2. /\ Abstract!KeysLeft /\ Abstract!AddResult(ak) = "SUCCEEDED"
      /\ n + 1 <= MaxSize /\ u \in Free /\ n \in Nat
  BY <1>1, CanAddIs, View DEF add_user
<1>3. Commit(_set_queue_head_data_if_needed(r))
  BY DEF add_user
<1> HIDE DEF u
<1>4. /\ p \in QueueState /\ IsList(p, n, s) /\ u \in Objects
      /\ p.heap[u] # None /\ UserOf(p.heap[u]) = Abstract!NewUser(ak)
      /\ \A i \in 1 .. n : s[i] # u
      /\ UsersOf(p.heap, n, s) = UsersOf(heap, n, s)
      /\ p.positions = user_positions /\ p.issued = issued
  BY <1>1, <1>2, NewUserIs
<1> HIDE DEF p
<1>5. /\ q \in QueueState /\ IsList(q, n + 1, t)
      /\ UsersOf(q.heap, n + 1, t) = UsersOf(p.heap, n + 1, t)
      /\ q.positions = user_positions /\ q.issued = issued
  BY <1>4, AddLinks
<1>6. UsersOf(q.heap, n + 1, t) = Append(Users, Abstract!NewUser(ak))
  <2>1. /\ p.heap \in [Objects -> Fields \cup {None}] /\ s \in [1 .. n -> Objects]
        /\ \A i \in 1 .. n : p.heap[s[i]] # None
    BY <1>4, FieldsOfState, ListFacts DEF IsList
  <2>2. UsersOf(p.heap, n + 1, t) = Append(UsersOf(p.heap, n, s), UserOf(p.heap[u]))
    BY <1>2, <1>4, <2>1, AppendUsers
  <2>3. Users = UsersOf(heap, n, s)
    BY <1>1, View
  <2> QED BY <1>4, <1>5, <2>2, <2>3
<1> HIDE DEF q
<1>7. /\ r.positions = [user_positions EXCEPT ![ak] = <<n, u>>]
      /\ r.issued = issued /\ r.heap = q.heap
      /\ r.head = q.head /\ r.tail = q.tail /\ r.len = q.len
      /\ r = [head |-> r.head, tail |-> r.tail, len |-> r.len, heap |-> r.heap,
              positions |-> r.positions, issued |-> r.issued]
  <2> DEFINE e == <<q.len - 1, u>>
  <2>1. q.len - 1 = n
    BY <1>2, <1>5 DEF IsList
  <2>2. e = <<n, u>>
    BY <2>1
  <2>3. r = [q EXCEPT !.positions[ak] = e]
    OBVIOUS
  <2> HIDE DEF e, r
  <2>4. /\ r.positions = [q.positions EXCEPT ![ak] = e]
        /\ r.issued = q.issued /\ r.heap = q.heap
        /\ r.head = q.head /\ r.tail = q.tail /\ r.len = q.len
        /\ r = [head |-> r.head, tail |-> r.tail, len |-> r.len, heap |-> r.heap,
                positions |-> r.positions, issued |-> r.issued]
    BY <1>5, <2>3 DEF QueueState
  <2> QED BY <1>5, <2>2, <2>4
<1> HIDE DEF r
<1>8. r.positions \in [AccessKeys -> (Nat \X Objects) \cup {None}]
  BY <1>2, <1>4, <1>5, <1>7, EntryIs, FieldsOfState
<1>9. Good(r, n + 1, t)
  <2>1. r \in QueueState
    BY <1>5, <1>7, <1>8, FieldsOfState DEF QueueState
  <2>2. IsList(r, n + 1, t)
    BY <1>5, <1>7 DEF IsList
  <2>3. \A i \in 1 .. n : i \in 1 .. n + 1 /\ t[i] = s[i]
    BY <1>2 DEF Appended
  <2>4. n + 1 \in 1 .. n + 1 /\ (n + 1) - 1 = n /\ t[n + 1] = u
    BY <1>2 DEF Appended
  <2> HIDE DEF t
  <2>5. ASSUME NEW a \in AccessKeys, r.positions[a] # None
        PROVE  \E i \in 1 .. n + 1 : r.positions[a] = <<i - 1, t[i]>>
    <3>1. CASE a = ak
      <4>1. r.positions[a] = <<n, u>>
        BY <1>5, <1>7, <3>1, FieldsOfState
      <4> QED BY <2>4, <4>1
    <3>2. CASE a # ak
      <4>1. r.positions[a] = user_positions[a]
        BY <1>5, <1>7, <3>2, FieldsOfState
      <4>2. PICK i \in 1 .. n : user_positions[a] = <<i - 1, s[i]>>
        BY <1>1, <2>5, <4>1, PositionIs
      <4> QED BY <2>3, <4>1, <4>2
    <3> QED BY <3>1, <3>2
  <2> QED BY <2>1, <2>2, <2>5 DEF Good, PointsInto
<1>10. /\ LInv' /\ Abstract!SetQueueHeadData(UsersOf(r.heap, n + 1, t))
       /\ Positions' = PositionsOf(r.positions)
  BY <1>2, <1>3, <1>7, <1>9, HeadView
<1>11. PositionsOf(r.positions) = [Positions EXCEPT ![ak] = Len(Users)]
  <2>1. Len(Users) = n /\ Positions = PositionsOf(user_positions)
    BY <1>1, View, PositionIs
  <2>2. PositionOf(<<n, u>>) = n
    BY <1>2, <1>4, EntryIs
  <2>3. user_positions \in [AccessKeys -> (Nat \X Objects) \cup {None}]
    BY <1>5, FieldsOfState
  <2> QED BY <1>7, <2>1, <2>2, <2>3 DEF PositionsOf
<1> QED BY <1>2, <1>6, <1>7, <1>10, <1>11 DEF Abstract!add_user

LEMMA AddPriorityStep ==
  ASSUME LInv, NEW ak \in AccessKeys, add_priority_user(ak)
  PROVE  LInv' /\ Abstract!add_priority_user(ak)
<1>0. PICK n \in 0 .. MaxSize : \E s \in [1 .. n -> Objects] :
        Good(Queue, n, s) /\ Kept(heap, users_tail, n, s)
  BY DEF LInv
<1>1. PICK s \in [1 .. n -> Objects] : Good(Queue, n, s) /\ Kept(heap, users_tail, n, s)
  BY <1>0
<1> DEFINE u == CHOOSE o \in Free : TRUE
           p == WithNewUser(ak, u)
           q == _add_priority_user(p, u)
           t == Inserted(n, s, u)
           Shifted(entry) == IF entry # None /\ entry[1] > 0
                             THEN <<entry[1] + 1, entry[2]>> ELSE entry
           positions == IF q.len = 1
                        THEN [q.positions EXCEPT ![ak] = <<0, u>>]
                        ELSE [a \in AccessKeys |-> IF a = ak THEN <<1, u>>
                                                   ELSE Shifted(q.positions[a])]
           r == [q EXCEPT !.positions = positions]
           Place(a) == IF a = ak THEN IF n = 0 THEN 0 ELSE 1
                       ELSE IF Positions[a] \notin {None, 0} THEN Positions[a] + 1
                       ELSE Positions[a]
<1>2. /\ Abstract!KeysLeft /\ Abstract!AddResult(ak) = "SUCCEEDED"
      /\ n + 1 <= MaxSize /\ u \in Free /\ n \in Nat
  BY <1>1, CanAddIs, View DEF add_priority_user
<1>3. Commit(_set_queue_head_data_if_needed(r))
  BY DEF add_priority_user
<1> HIDE DEF u
<1>4. /\ p \in QueueState /\ IsList(p, n, s) /\ u \in Objects
      /\ p.heap[u] # None /\ UserOf(p.heap[u]) = Abstract!NewUser(ak)
      /\ \A i \in 1 .. n : s[i] # u
      /\ UsersOf(p.heap, n, s) = UsersOf(heap, n, s)
      /\ p.positions = user_positions /\ p.issued = issued
  BY <1>1, <1>2, NewUserIs
<1> HIDE DEF p
<1>5. /\ q \in QueueState /\ IsList(q, n + 1, t)
      /\ UsersOf(q.heap, n + 1, t) = UsersOf(p.heap, n + 1, t)
      /\ q.positions = user_positions /\ q.issued = issued
  BY <1>4, AddPriorityLinks
<1>6. UsersOf(q.heap, n + 1, t) = Abstract!InsertSecond(Users, Abstract!NewUser(ak))
  <2>1. /\ p.heap \in [Objects -> Fields \cup {None}] /\ s \in [1 .. n -> Objects]
        /\ \A i \in 1 .. n : p.heap[s[i]] # None
    BY <1>4, FieldsOfState, ListFacts DEF IsList
  <2>2. UsersOf(p.heap, n + 1, t)
          = Abstract!InsertSecond(UsersOf(p.heap, n, s), UserOf(p.heap[u]))
    BY <1>2, <1>4, <2>1, InsertUsers
  <2>3. Users = UsersOf(heap, n, s)
    BY <1>1, View
  <2> QED BY <1>4, <1>5, <2>2, <2>3
<1> HIDE DEF q
<1>7. q.len = n + 1 /\ user_positions \in [AccessKeys -> (Nat \X Objects) \cup {None}]
  BY <1>5, FieldsOfState DEF IsList
<1>8. ASSUME NEW a \in AccessKeys
      PROVE  /\ positions[a] \in (Nat \X Objects) \cup {None}
             /\ positions[a] # None => \E i \in 1 .. n + 1 : positions[a] = <<i - 1, t[i]>>
             /\ PositionOf(positions[a]) = Place(a)
  <2>1. /\ t[IF n = 0 THEN 1 ELSE 2] = u /\ (n # 0 => t[1] = s[1])
        /\ 1 \in 1 .. n + 1 /\ (n # 0 => 2 \in 1 .. n + 1)
        /\ \A i \in 1 .. n : i # 1 => i + 1 \in 1 .. n + 1 /\ t[i + 1] = s[i]
    BY <1>2 DEF Inserted
  <2> HIDE DEF t
  <2>2. CASE a = ak
    <3> DEFINE k == IF n = 0 THEN 0 ELSE 1
    <3>1. positions[a] = <<k, u>>
      BY <1>2, <1>5, <1>7, <2>2
    <3>2. k \in Nat /\ k + 1 \in 1 .. n + 1 /\ (k + 1) - 1 = k /\ t[k + 1] = u /\ Place(a) = k
      BY <1>2, <2>1, <2>2
    <3> HIDE DEF k, positions, Place
    <3> QED BY <1>4, <3>1, <3>2, EntryIs
  <2>3. CASE a # ak
    <3>1. Place(a) = IF Positions[a] \notin {None, 0} THEN Positions[a] + 1 ELSE Positions[a]
      BY <2>3
    <3>2. positions[a] = IF n = 0 THEN user_positions[a] ELSE Shifted(user_positions[a])
      BY <1>2, <1>5, <1>7, <2>3
    <3>3. CASE user_positions[a] = None
      <4>1. positions[a] = None /\ Positions[a] = None
        BY <1>1, <3>2, <3>3, PositionIs
      <4> QED BY <3>1, <4>1 DEF PositionOf
    <3>4. CASE user_positions[a] # None
      <4>1. PICK i \in 1 .. n : user_positions[a] = <<i - 1, s[i]>>
        BY <1>1, <3>4, PositionIs
      <4>2. n # 0 /\ i \in Nat /\ i - 1 \in Nat /\ s[i] \in Objects
        BY <1>2, <4>1
      <4>3. Positions[a] = i - 1 /\ Positions[a] # None
        <5>1. Positions[a] = user_positions[a][1] /\ Positions[a] # None
          BY <1>1, <3>4, PositionIs
        <5>2. user_positions[a][1] = i - 1
          BY <4>1
        <5> QED BY <5>1, <5>2
      <4>4. CASE i = 1
        <5>1. positions[a] = user_positions[a] /\ user_positions[a] = <<0, s[1]>>
          BY <3>2, <4>1, <4>2, <4>4
        <5>2. Place(a) = 0
          BY <3>1, <4>3, <4>4
        <5> HIDE DEF positions, Place
        <5> QED BY <2>1, <4>2, <4>4, <5>1, <5>2, EntryIs
      <4>5. CASE i # 1
        <5>1. i - 1 > 0 /\ (i - 1) + 1 = i /\ i - 1 # 0 /\ (i + 1) - 1 = i
          BY <4>1, <4>5
        <5>2. Shifted(user_positions[a]) = <<i, s[i]>>
          BY <3>4, <4>1, <5>1
        <5>3. positions[a] = <<i, s[i]>>
          BY <3>2, <4>2, <5>2
        <5>4. Place(a) = i
          BY <3>1, <4>3, <5>1
        <5>5. i + 1 \in 1 .. n + 1 /\ t[i + 1] = s[i]
          BY <2>1, <4>1, <4>5
        <5> HIDE DEF positions, Place
        <5> QED BY <4>2, <5>1, <5>3, <5>4, <5>5, EntryIs
      <4> QED BY <4>4, <4>5
    <3> QED BY <3>3, <3>4
  <2> QED BY <2>2, <2>3
<1>9. positions \in [AccessKeys -> (Nat \X Objects) \cup {None}]
  <2>1. positions = [a \in AccessKeys |-> positions[a]]
    BY <1>5, <1>7
  <2> HIDE DEF positions
  <2> QED BY <1>8, <2>1
<1> HIDE DEF positions
<1>10. /\ r.positions = positions /\ r.issued = issued /\ r.heap = q.heap
       /\ r.head = q.head /\ r.tail = q.tail /\ r.len = q.len
       /\ r = [head |-> r.head, tail |-> r.tail, len |-> r.len, heap |-> r.heap,
               positions |-> r.positions, issued |-> r.issued]
  BY <1>5 DEF QueueState
<1> HIDE DEF r
<1>11. Good(r, n + 1, t)
  <2>1. r \in QueueState
    BY <1>5, <1>9, <1>10, FieldsOfState DEF QueueState
  <2>2. IsList(r, n + 1, t)
    BY <1>5, <1>10 DEF IsList
  <2> HIDE DEF t
  <2> QED BY <1>8, <1>10, <2>1, <2>2 DEF Good, PointsInto
<1>12. /\ LInv' /\ Abstract!SetQueueHeadData(UsersOf(r.heap, n + 1, t))
       /\ Positions' = PositionsOf(r.positions)
  BY <1>2, <1>3, <1>10, <1>11, HeadView
<1>13. PositionsOf(r.positions) = [a \in AccessKeys |-> Place(a)]
  <2> HIDE DEF Place
  <2> QED BY <1>8, <1>10 DEF PositionsOf
<1>14. n = 0 <=> Users = <<>>
  BY <1>1, View
<1>15. \A a \in AccessKeys :
         Place(a) = IF a = ak THEN IF Users = <<>> THEN 0 ELSE 1
                    ELSE IF Positions[a] \notin {None, 0} THEN Positions[a] + 1
                    ELSE Positions[a]
  BY <1>14
<1> HIDE DEF Place
<1> QED BY <1>2, <1>6, <1>10, <1>12, <1>13, <1>15 DEF Abstract!add_priority_user

LEMMA ExpiredIs ==
  ASSUME LInv
  PROVE  Expired <=> Abstract!HeadExpired
<1>1. PICK n \in 0 .. MaxSize : \E s \in [1 .. n -> Objects] : Good(Queue, n, s)
  BY DEF LInv
<1>2. PICK s \in [1 .. n -> Objects] : Good(Queue, n, s)
  BY <1>1
<1> QED BY <1>2, View DEF Expired, Abstract!HeadExpired

LEMMA SameState ==
  ASSUME LInv, UNCHANGED listVars
  PROVE  LInv' /\ UNCHANGED <<Users, Positions, issued>>
<1>1. Queue' = Queue
  BY DEF listVars, Queue
<1>2. UNCHANGED <<heap, users_tail, user_positions, issued>>
  BY DEF listVars
<1> QED BY <1>1, <1>2 DEF LInv, Users, Positions

\* The user whose turn has lasted too long leaves, and the next has its turn.
LEMMA TimeoutStep ==
  ASSUME LInv, _timeout_head_user
  PROVE  LInv' /\ Abstract!timeout_head_user
<1>1. CASE ~Expired
  <2>1. UNCHANGED listVars
    BY <1>1 DEF _timeout_head_user
  <2> QED BY <1>1, <2>1, ExpiredIs, SameState DEF Abstract!timeout_head_user, Abstract!queueVars
<1>2. CASE Expired
  <2>1. PICK n \in 0 .. MaxSize : \E s \in [1 .. n -> Objects] : Good(Queue, n, s)
    BY DEF LInv
  <2>2. PICK s \in [1 .. n -> Objects] : Good(Queue, n, s)
    BY <2>1
  <2> DEFINE q == _pop_user(Queue)
             t == Popped(n, s)
             r == _build_position_map(q)
  <2>3. Commit(_set_queue_head_data_if_needed(r))
    BY <1>2 DEF _timeout_head_user
  <2>4. n # 0 /\ n \in Nat /\ n - 1 <= MaxSize
    BY <1>2, <2>2, View, ListAssumption DEF Expired
  <2>5. /\ q \in QueueState /\ IsList(q, n - 1, t)
        /\ UsersOf(q.heap, n - 1, t) = UsersOf(heap, n - 1, t)
        /\ q.issued = issued
    BY <2>2, <2>4, PopLinks, QueueIs DEF Good
  <2>6. UsersOf(q.heap, n - 1, t) = Abstract!Pop(Users)
    BY <2>2, <2>4, <2>5, View, PopUsers
  <2> HIDE DEF q
  <2>7. /\ Good(r, n - 1, t) /\ r.heap = q.heap /\ r.issued = issued
        /\ PositionsOf(r.positions) = Abstract!PositionMap(Abstract!Pop(Users))
    BY <2>5, <2>6, BuildMap
  <2> HIDE DEF r, t
  <2>8. /\ LInv' /\ Abstract!SetQueueHeadData(Abstract!Pop(Users))
        /\ Positions' = Abstract!PositionMap(Abstract!Pop(Users))
    BY <2>3, <2>4, <2>6, <2>7, HeadView
  <2> QED BY <1>2, <2>8, ExpiredIs DEF Abstract!timeout_head_user, Abstract!PopHead
<1> QED BY <1>1, <1>2

\* The user at the head leaves, the next has its turn, and then the map.
LEMMA FinishStep ==
  ASSUME LInv, NEW ak \in AccessKeys, NEW key, finish_computation(ak, key)
  PROVE  LInv' /\ Abstract!finish_computation(ak, key)
<1>1. PICK n \in 0 .. MaxSize : \E s \in [1 .. n -> Objects] : Good(Queue, n, s)
  BY DEF LInv
<1>2. PICK s \in [1 .. n -> Objects] : Good(Queue, n, s)
  BY <1>1
<1> DEFINE q == _pop_user(Queue)
           t == Popped(n, s)
           p == _set_queue_head_data_if_needed(q)
           r == _build_position_map(p)
           us == Abstract!Pop(Users)
<1>3. /\ user_positions[ak] # None /\ user_positions[ak][1] = 0
      /\ heap[user_positions[ak][2]].computation_key = key
      /\ Commit(r)
  BY DEF finish_computation, AtHead
<1>4. PICK i \in 1 .. n : user_positions[ak] = <<i - 1, s[i]>>
  BY <1>2, <1>3, PositionIs
<1>5. i = 1 /\ n # 0 /\ n \in Nat /\ n - 1 \in Nat /\ n - 1 <= MaxSize
  BY <1>2, <1>3, <1>4, View, ListAssumption
<1>6. Abstract!KeyIsValid(ak, key)
  <2>1. Positions[ak] = 0
    BY <1>2, <1>3, PositionIs
  <2>2. heap[s[1]].computation_key = key
    BY <1>3, <1>4, <1>5
  <2> QED BY <1>2, <1>5, <2>1, <2>2, View DEF Abstract!KeyIsValid
<1>7. /\ q \in QueueState /\ IsList(q, n - 1, t)
      /\ UsersOf(q.heap, n - 1, t) = UsersOf(heap, n - 1, t)
      /\ q.issued = issued
  BY <1>2, <1>5, PopLinks, QueueIs DEF Good
<1>8. UsersOf(q.heap, n - 1, t) = us
  BY <1>2, <1>5, <1>7, View, PopUsers
<1> HIDE DEF q, us, t
<1>9. /\ p \in QueueState /\ IsList(p, n - 1, t)
      /\ UsersOf(p.heap, n - 1, t) = HeadSet(us, issued + 1)
      /\ p.issued = IF Abstract!NeedsHeadData(us) THEN issued + 1 ELSE issued
      /\ \A j \in 1 .. n - 1 : p.heap[t[j]].access_key = q.heap[t[j]].access_key
  BY <1>7, <1>8, HeadData
<1> HIDE DEF p
<1>10. /\ Good(r, n - 1, t) /\ r.heap = p.heap /\ r.issued = p.issued
       /\ PositionsOf(r.positions) = Abstract!PositionMap(HeadSet(us, issued + 1))
  BY <1>9, BuildMap
<1> HIDE DEF r
<1>11. Abstract!PositionMap(HeadSet(us, issued + 1)) = Abstract!PositionMap(us)
  <2>1. /\ DOMAIN us = 1 .. n - 1
        /\ \A j \in 1 .. n - 1 : us[j].access_key = q.heap[t[j]].access_key
    BY <1>7, <1>8, UsersOfList
  <2>2. /\ DOMAIN HeadSet(us, issued + 1) = 1 .. n - 1
        /\ \A j \in 1 .. n - 1 :
             HeadSet(us, issued + 1)[j].access_key = p.heap[t[j]].access_key
    BY <1>9, UsersOfList
  <2> QED BY <1>5, <1>9, <2>1, <2>2, SameKeysSameMap
<1>12. /\ LInv' /\ Users' = HeadSet(us, issued + 1)
       /\ Positions' = Abstract!PositionMap(us)
       /\ issued' = IF Abstract!NeedsHeadData(us) THEN issued + 1 ELSE issued
  BY <1>3, <1>5, <1>9, <1>10, <1>11, CommitView
<1>13. Abstract!SetQueueHeadData(us)
  BY <1>12 DEF Abstract!SetQueueHeadData, HeadSet
<1> QED BY <1>6, <1>12, <1>13 DEF Abstract!finish_computation, Abstract!PopHead, us

LEMMA GetKeyStep ==
  ASSUME LInv, NEW ak \in AccessKeys, get_computation_key(ak)
  PROVE  LInv' /\ Abstract!get_computation_key(ak)
<1>1. CASE Expired
  <2>1. _timeout_head_user
    BY <1>1 DEF get_computation_key
  <2> QED BY <1>1, <2>1, TimeoutStep, ExpiredIs DEF Abstract!get_computation_key
<1>2. CASE ~Expired
  <2>1. PICK n \in 0 .. MaxSize : \E s \in [1 .. n -> Objects] : Good(Queue, n, s)
    BY DEF LInv
  <2>2. PICK s \in [1 .. n -> Objects] : Good(Queue, n, s)
    BY <2>1
  <2>3. AtHead(ak) <=> Positions[ak] = 0
    <3>1. 0 # None
      BY ListAssumption
    <3> QED BY <2>2, <3>1, PositionIs DEF AtHead
  <2>4. CASE ~AtHead(ak)
    <3>1. LInv' /\ UNCHANGED <<Users, Positions, issued>>
      BY <1>2, <2>4, SameState DEF get_computation_key
    <3> QED BY <1>2, <2>3, <2>4, <3>1, ExpiredIs DEF Abstract!get_computation_key
  <2>5. CASE AtHead(ak)
    <3>1. Commit(_set_queue_head_data_if_needed(Queue))
      BY <1>2, <2>5 DEF get_computation_key
    <3>2. n <= MaxSize /\ Users = UsersOf(heap, n, s) /\ Positions = PositionsOf(user_positions)
      BY <2>2, View, PositionIs, ListAssumption
    <3>3. /\ LInv' /\ Abstract!SetQueueHeadData(Users) /\ Positions' = Positions
      BY <2>2, <3>1, <3>2, HeadView, QueueIs
    <3> QED BY <1>2, <2>3, <2>5, <3>3, ExpiredIs DEF Abstract!get_computation_key
  <2> QED BY <2>4, <2>5
<1> QED BY <1>1, <1>2

LEMMA TickStep ==
  ASSUME LInv, Tick
  PROVE  LInv' /\ Abstract!Tick
<1>1. PICK n \in 0 .. MaxSize : \E s \in [1 .. n -> Objects] :
        Good(Queue, n, s) /\ Kept(heap, users_tail, n, s)
  BY DEF LInv
<1>2. PICK s \in [1 .. n -> Objects] : Good(Queue, n, s) /\ Kept(heap, users_tail, n, s)
  BY <1>1
<1>3. /\ Users = UsersOf(heap, n, s) /\ Users # <<>> /\ n # 0
      /\ users_head = s[1] /\ 1 \in 1 .. n /\ s[1] \in Objects /\ heap[s[1]] # None
      /\ Users[1].age = heap[s[1]].age
      /\ heap \in [Objects -> Fields \cup {None}]
      /\ \A i \in 1 .. n : s[i] \in Objects /\ heap[s[i]] # None
  BY <1>2, View DEF Tick
<1> DEFINE f == [heap[s[1]] EXCEPT !.age = heap[s[1]].age + 1]
           e == [Users[1] EXCEPT !.age = Users[1].age + 1]
           r == Queue'
<1>4. /\ heap[s[1]].age # None /\ ~(heap[s[1]].age > HeadTimeout)
      /\ heap' = [heap EXCEPT ![s[1]] = f]
      /\ UNCHANGED <<users_head, users_tail, users_len, user_positions, issued>>
  BY <1>3 DEF Tick, Expired
<1>5. /\ f \in Fields /\ f.next = heap[s[1]].next /\ f.access_key = heap[s[1]].access_key
      /\ f.computation_key = heap[s[1]].computation_key /\ f.age = heap[s[1]].age + 1
  <2>1. heap[s[1]] \in Fields
    BY <1>3
  <2>2. heap[s[1]].age + 1 \in 0 .. HeadTimeout + 1
    BY <1>4, <2>1, ListAssumption DEF Fields
  <2> QED BY <2>1, <2>2 DEF Fields
<1>6. f # None /\ UserOf(f) = e
  <2>1. Users[1] = UserOf(heap[s[1]])
    BY <1>3 DEF UsersOf
  <2>2. Users[1] \in [access_key : AccessKeys, computation_key : Nat \cup {None},
                      age : (0 .. HeadTimeout + 1) \cup {None}]
    BY <1>3, <2>1 DEF UserOf, Fields
  <2>3. /\ e = [access_key |-> e.access_key, computation_key |-> e.computation_key, age |-> e.age]
        /\ e.access_key = heap[s[1]].access_key
        /\ e.computation_key = heap[s[1]].computation_key /\ e.age = heap[s[1]].age + 1
    BY <2>1, <2>2 DEF UserOf
  <2>4. f # None
    BY <1>5, ListAssumption
  <2> HIDE DEF e, f
  <2> QED BY <1>5, <2>3, <2>4 DEF UserOf
<1>7. Queue \in QueueState /\ IsList(Queue, n, s) /\ PointsInto(user_positions, n, s)
  BY <1>2, QueueIs DEF Good
<1> HIDE DEF f
<1>8. /\ heap' \in [Objects -> Fields \cup {None}] /\ heap'[s[1]] = f
      /\ \A p \in Objects \ {s[1]} : heap'[p] = heap[p]
  BY <1>3, <1>4, <1>5
<1>9. ASSUME NEW i \in 1 .. n
      PROVE  /\ heap'[s[i]] # None /\ heap'[s[i]].next = heap[s[i]].next
             /\ UserOf(heap'[s[i]]) = IF i = 1 THEN e ELSE Users[i]
  <2>1. CASE i = 1
    BY <1>5, <1>6, <1>8, <2>1
  <2>2. CASE i # 1
    <3>1. s[i] = s[1] => i = 1
      BY <1>3, <1>7 DEF IsList
    <3>2. heap'[s[i]] = heap[s[i]] /\ Users[i] = UserOf(heap[s[i]])
      BY <1>3, <1>8, <2>2, <3>1 DEF UsersOf
    <3> QED BY <1>3, <2>2, <3>2
  <2> QED BY <2>1, <2>2
<1>10. /\ r = [head |-> users_head, tail |-> users_tail, len |-> users_len, heap |-> heap',
               positions |-> user_positions, issued |-> issued]
       /\ r.head = users_head /\ r.tail = users_tail /\ r.len = users_len
       /\ r.heap = heap' /\ r.positions = user_positions /\ r.issued = issued
  BY <1>4 DEF Queue
<1>11. r \in QueueState
  <2>1. /\ users_head \in Objects \cup {None} /\ users_tail \in Objects \cup {None}
        /\ users_len \in Nat /\ issued \in Nat
        /\ user_positions \in [AccessKeys -> (Nat \X Objects) \cup {None}]
    BY <1>7, FieldsOfState, QueueIs
  <2> HIDE DEF r
  <2> QED BY ONLY <1>8, <1>10, <2>1 DEF QueueState
<1>12. IsList(r, n, s)
  <2> HIDE DEF r
  <2> QED BY <1>7, <1>9, <1>10, QueueIs DEF IsList
<1>13. LInv'
  <2>1. Good(r, n, s)
    <3> HIDE DEF r
    <3> QED BY <1>7, <1>10, <1>11, <1>12 DEF Good
  <2>2. Kept(heap', users_tail', n, s)
    <3>1. \A o \in Objects : heap'[o] # None => heap[o] # None
      BY <1>3, <1>8
    <3> QED BY <1>2, <1>4, <3>1 DEF Kept
  <2> QED BY <2>1, <2>2 DEF LInv
<1>14. Users' = [Users EXCEPT ![1] = e]
  <2>1. Chain(r) = s /\ DOMAIN s = 1 .. n
    BY <1>12, ChainIs DEF IsList
  <2>2. Users' = [i \in DOMAIN Chain(r) |-> UserOf(heap'[Chain(r)[i]])]
    BY DEF Users
  <2>3. Users' = [i \in 1 .. n |-> IF i = 1 THEN e ELSE Users[i]]
    BY <1>9, <2>1, <2>2
  <2>4. Users = [i \in 1 .. n |-> Users[i]]
    BY <1>3 DEF UsersOf
  <2> HIDE DEF e
  <2> QED BY <2>3, <2>4
<1>15. Positions' = Positions /\ issued' = issued
  BY <1>4 DEF Positions
<1>16. ~Abstract!HeadExpired /\ Users[1].age # None
  BY <1>3, <1>4, ExpiredIs DEF Tick
<1> QED BY <1>3, <1>13, <1>14, <1>15, <1>16 DEF Abstract!Tick

\* A queue without users.
LEMMA EmptyQueue ==
  ASSUME NEW h \in [Objects -> Fields \cup {None}], NEW k \in Nat, NEW q,
         q = [head |-> None, tail |-> None, len |-> 0, heap |-> h,
              positions |-> [ak \in AccessKeys |-> None], issued |-> k]
  PROVE  \E s \in [1 .. 0 -> Objects] : /\ Good(q, 0, s)
                                        /\ UsersOf(h, 0, s) = <<>>
                                        /\ PositionsOf(q.positions) = [ak \in AccessKeys |-> None]
<1> DEFINE s == [i \in 1 .. 0 |-> None]
<1>1. 1 .. 0 = {}
  OBVIOUS
<1>2. s \in [1 .. 0 -> Objects]
  BY <1>1
<1>3. UsersOf(h, 0, s) = <<>>
  BY <1>1, <1>2, UsersAre
<1>4. /\ q.head = None /\ q.tail = None /\ q.len = 0 /\ q.heap = h /\ q.issued = k
      /\ q.positions = [ak \in AccessKeys |-> None]
  OBVIOUS
<1> HIDE DEF s
<1>5. q \in QueueState
  BY DEF QueueState
<1>6. IsList(q, 0, s) /\ PointsInto(q.positions, 0, s)
  BY <1>1, <1>2, <1>4 DEF IsList, PointsInto
<1>7. PositionsOf(q.positions) = [ak \in AccessKeys |-> None]
  BY <1>4 DEF PositionsOf, PositionOf
<1> QED BY <1>2, <1>3, <1>5, <1>6, <1>7 DEF Good

LEMMA RestartStep ==
  ASSUME LInv, Restart
  PROVE  LInv' /\ Abstract!Restart
<1> DEFINE q == [head |-> None, tail |-> None, len |-> 0, heap |-> heap,
                 positions |-> [ak \in AccessKeys |-> None], issued |-> issued]
<1>1. heap \in [Objects -> Fields \cup {None}] /\ issued \in Nat
  <2>1. Queue \in QueueState
    BY DEF LInv, Good
  <2> QED BY <2>1, FieldsOfState, QueueIs
<1>2. Commit(q) /\ q.heap = heap /\ q.issued = issued
  BY DEF Restart
<1>3. PICK s \in [1 .. 0 -> Objects] :
        /\ Good(q, 0, s) /\ UsersOf(heap, 0, s) = <<>>
        /\ PositionsOf(q.positions) = [ak \in AccessKeys |-> None]
  <2>1. q = [head |-> None, tail |-> None, len |-> 0, heap |-> heap,
             positions |-> [ak \in AccessKeys |-> None], issued |-> issued]
    OBVIOUS
  <2> HIDE DEF q
  <2> QED BY <1>1, <2>1, EmptyQueue
<1> HIDE DEF q
<1>4. 0 <= MaxSize
  BY ListAssumption
<1>5. /\ LInv' /\ Users' = <<>> /\ issued' = issued
      /\ Positions' = [ak \in AccessKeys |-> None]
  BY <1>2, <1>3, <1>4, CommitView
<1> QED BY <1>5 DEF Abstract!Restart

LEMMA InitView ==
  ASSUME ListInit
  PROVE  LInv /\ Abstract!QueueInit
<1>1. /\ users_head = None /\ users_tail = None /\ users_len = 0
      /\ heap = [o \in Objects |-> None]
      /\ user_positions = [ak \in AccessKeys |-> None] /\ issued = 0
  BY DEF ListInit
<1>2. heap \in [Objects -> Fields \cup {None}] /\ issued \in Nat
  BY <1>1
<1>3. Queue = [head |-> None, tail |-> None, len |-> 0, heap |-> heap,
               positions |-> [ak \in AccessKeys |-> None], issued |-> issued]
  BY <1>1 DEF Queue
<1>4. PICK s \in [1 .. 0 -> Objects] :
        /\ Good(Queue, 0, s) /\ UsersOf(heap, 0, s) = <<>>
        /\ PositionsOf(Queue.positions) = [ak \in AccessKeys |-> None]
  BY <1>2, <1>3, EmptyQueue
<1>5. Users = <<>> /\ Positions = [ak \in AccessKeys |-> None]
  <2>1. Users = UsersOf(heap, 0, s)
    BY <1>4, UsersView DEF Good
  <2>2. Positions = PositionsOf(Queue.positions)
    BY QueueIs DEF Positions, PositionsOf
  <2> QED BY <1>4, <2>1, <2>2
<1>6. Kept(heap, users_tail, 0, s)
  BY <1>1 DEF Kept
<1>7. 0 \in 0 .. MaxSize
  BY ListAssumption
<1> QED BY <1>1, <1>4, <1>5, <1>6, <1>7 DEF LInv, Abstract!QueueInit

LEMMA StepView ==
  ASSUME LInv, [ListNext]_listVars
  PROVE  LInv' /\ [Abstract!QueueNext]_(Abstract!queueVars)
<1>1. ASSUME NEW ak \in AccessKeys, add_user(ak)
      PROVE  LInv' /\ Abstract!QueueNext
  BY <1>1, AddStep DEF Abstract!QueueNext
<1>2. ASSUME NEW ak \in AccessKeys, add_priority_user(ak)
      PROVE  LInv' /\ Abstract!QueueNext
  BY <1>2, AddPriorityStep DEF Abstract!QueueNext
<1>3. ASSUME NEW ak \in AccessKeys, get_computation_key(ak)
      PROVE  LInv' /\ Abstract!QueueNext
  BY <1>3, GetKeyStep DEF Abstract!QueueNext
<1>4. ASSUME NEW ak \in AccessKeys, NEW key \in 1 .. issued, finish_computation(ak, key)
      PROVE  LInv' /\ Abstract!QueueNext
  BY <1>4, FinishStep DEF Abstract!QueueNext
<1>5. CASE validate_computation_key
  BY <1>5, TimeoutStep
     DEF validate_computation_key, Abstract!validate_computation_key, Abstract!QueueNext
<1>6. CASE Tick
  BY <1>6, TickStep DEF Abstract!QueueNext
<1>7. CASE Restart
  BY <1>7, RestartStep DEF Abstract!QueueNext
<1>8. CASE UNCHANGED listVars
  BY <1>8, SameState DEF Abstract!queueVars
<1> QED BY <1>1, <1>2, <1>3, <1>4, <1>5, <1>6, <1>7, <1>8 DEF ListNext

-----------------------------------------------------------------------------
LEMMA InvParts ==
  ASSUME LInv
  PROVE  ListTypeOK /\ TailIsLast /\ DictionaryPointsIntoList
<1>1. PICK n \in 0 .. MaxSize : \E s \in [1 .. n -> Objects] : Good(Queue, n, s)
  BY DEF LInv
<1>2. PICK s \in [1 .. n -> Objects] : Good(Queue, n, s)
  BY <1>1
<1>3. Queue \in QueueState /\ IsList(Queue, n, s) /\ PointsInto(user_positions, n, s)
  BY <1>2, QueueIs DEF Good
<1>4. Chain(Queue) = s /\ DOMAIN s = 1 .. n /\ n \in Nat
  BY <1>3, ChainIs DEF IsList
<1>5. ListTypeOK
  <2>1. \A ak \in AccessKeys :
          user_positions[ak] \in ((0 .. MaxSize - 1) \X Objects) \cup {None}
    <3> SUFFICES ASSUME NEW ak \in AccessKeys, user_positions[ak] # None
                 PROVE  user_positions[ak] \in (0 .. MaxSize - 1) \X Objects
      OBVIOUS
    <3>1. PICK i \in 1 .. n : user_positions[ak] = <<i - 1, s[i]>>
      BY <1>3 DEF PointsInto
    <3>2. i - 1 \in 0 .. MaxSize - 1 /\ s[i] \in Objects
      BY <1>4, ListAssumption
    <3> QED BY <3>1, <3>2
  <2>2. /\ users_head \in Objects \cup {None} /\ users_tail \in Objects \cup {None}
        /\ heap \in [Objects -> Fields \cup {None}] /\ issued \in Nat
        /\ user_positions \in [AccessKeys -> (Nat \X Objects) \cup {None}]
    BY <1>3, FieldsOfState, QueueIs
  <2>3. users_len \in 0 .. MaxSize
    BY <1>2, View
  <2> QED BY <2>1, <2>2, <2>3 DEF ListTypeOK
<1>6. TailIsLast
  <2>1. s \in Seq(Objects) /\ Len(s) = n /\ (s = <<>> <=> Len(s) = 0)
    <3>1. s \in Seq(Objects)
      BY <1>4, SeqDef
    <3> QED BY <1>4, <3>1, LenProperties, EmptySeq
  <2>2. users_len = n /\ (n # 0 => users_tail = s[n])
    BY <1>3, ListFacts, QueueIs DEF IsList
  <2> QED BY <1>4, <2>1, <2>2 DEF TailIsLast
<1>7. DictionaryPointsIntoList
  <2> SUFFICES ASSUME NEW ak \in AccessKeys, user_positions[ak] # None
               PROVE  user_positions[ak] \in {<<i - 1, s[i]>> : i \in 1 .. n}
    BY <1>4 DEF DictionaryPointsIntoList
  <2> QED BY <1>3 DEF PointsInto
<1> QED BY <1>5, <1>6, <1>7

LEMMA ListInvHolds == ListSpec => []LInv
<1>1. ListInit => LInv
  BY InitView
<1>2. LInv /\ [ListNext]_listVars => LInv'
  BY StepView
<1> QED BY <1>1, <1>2, PTL DEF ListSpec

\* Every field of the queue and of its users always holds a value of its kind.
THEOREM ListTypeCorrect == ListSpec => []ListTypeOK
<1>1. LInv => ListTypeOK
  BY InvParts
<1> QED BY <1>1, ListInvHolds, PTL

\* Through all adds, pops and evictions users_tail is the last object of the
\* list whenever there is one, so that no add loses a user.
THEOREM TailCorrect == ListSpec => []TailIsLast
<1>1. LInv => TailIsLast
  BY InvParts
<1> QED BY <1>1, ListInvHolds, PTL

\* The object an access key leads to is the one at its place in the list.
THEOREM DictionaryCorrect == ListSpec => []DictionaryPointsIntoList
<1>1. LInv => DictionaryPointsIntoList
  BY InvParts
<1> QED BY <1>1, ListInvHolds, PTL

\* The pointers, the counter and the dictionary of user_queue.py implement the
\* sequence and the positions of UserQueue: every method is a step of its name.
THEOREM RefinementCorrect == ListSpec => ImplementsUserQueue
<1>1. ListInit => Abstract!QueueInit
  BY InitView
<1>2. LInv /\ [ListNext]_listVars => [Abstract!QueueNext]_(Abstract!queueVars)
  BY StepView
<1> QED BY <1>1, <1>2, ListInvHolds, PTL DEF ListSpec, ImplementsUserQueue, Abstract!QueueSpec

-----------------------------------------------------------------------------
(***************************************************************************)
(* What UserQueueProofs says of the sequence holds of the list.            *)
(***************************************************************************)
Upper == INSTANCE UserQueueProofs WITH users <- Users, user_positions <- Positions

\* ASSUME of UserQueue is a consequence of that of UserQueueList.
LEMMA UpperAssumption == Upper!QueueAssumption
BY ListAssumption DEF Upper!QueueAssumption

\* Both instances have the same steps.
LEMMA SameStep ==
  ASSUME [Abstract!QueueNext]_(Abstract!queueVars)
  PROVE  [Upper!QueueNext]_(Upper!queueVars)
<1>1. \A us : Abstract!PositionMap(us) = Upper!PositionMap(us)
  BY DEF Abstract!PositionMap, Upper!PositionMap
<1>2. \A us : Abstract!SetQueueHeadData(us) <=> Upper!SetQueueHeadData(us)
  BY DEF Abstract!SetQueueHeadData, Upper!SetQueueHeadData,
         Abstract!NeedsHeadData, Upper!NeedsHeadData
<1>3. Abstract!PopHead <=> Upper!PopHead
  BY <1>1, <1>2 DEF Abstract!PopHead, Upper!PopHead, Abstract!Pop, Upper!Pop
<1>4. Abstract!timeout_head_user <=> Upper!timeout_head_user
  BY <1>3 DEF Abstract!timeout_head_user, Upper!timeout_head_user, Abstract!queueVars,
              Upper!queueVars, Abstract!HeadExpired, Upper!HeadExpired
<1>5. \A ak \in AccessKeys : /\ Abstract!KeysLeft <=> Upper!KeysLeft
                             /\ Abstract!AddResult(ak) = Upper!AddResult(ak)
                             /\ Abstract!NewUser(ak) = Upper!NewUser(ak)
  BY DEF Abstract!KeysLeft, Upper!KeysLeft, Abstract!AddResult, Upper!AddResult,
         Abstract!NewUser, Upper!NewUser
<1>6. ASSUME NEW ak \in AccessKeys, Abstract!add_user(ak) PROVE Upper!add_user(ak)
  BY <1>2, <1>5, <1>6 DEF Abstract!add_user, Upper!add_user
<1>7. ASSUME NEW ak \in AccessKeys, Abstract!add_priority_user(ak)
      PROVE  Upper!add_priority_user(ak)
  BY <1>2, <1>5, <1>7 DEF Abstract!add_priority_user, Upper!add_priority_user,
                          Abstract!InsertSecond, Upper!InsertSecond
<1>8. ASSUME NEW ak \in AccessKeys, Abstract!get_computation_key(ak)
      PROVE  Upper!get_computation_key(ak)
  BY <1>2, <1>4, <1>8 DEF Abstract!get_computation_key, Upper!get_computation_key,
                          Abstract!HeadExpired, Upper!HeadExpired
<1>9. ASSUME NEW ak \in AccessKeys, NEW key, Abstract!finish_computation(ak, key)
      PROVE  Upper!finish_computation(ak, key)
  BY <1>3, <1>9 DEF Abstract!finish_computation, Upper!finish_computation,
                    Abstract!KeyIsValid, Upper!KeyIsValid
<1>10. Abstract!validate_computation_key => Upper!validate_computation_key
  BY <1>4 DEF Abstract!validate_computation_key, Upper!validate_computation_key
<1>11. Abstract!Tick => Upper!Tick
  BY DEF Abstract!Tick, Upper!Tick, Abstract!HeadExpired, Upper!HeadExpired
<1>12. Abstract!Restart => Upper!Restart
  BY DEF Abstract!Restart, Upper!Restart
<1> QED BY <1>6, <1>7, <1>8, <1>9, <1>10, <1>11, <1>12
        DEF Abstract!QueueNext, Upper!QueueNext, Abstract!queueVars, Upper!queueVars

LEMMA UpperStep ==
  ASSUME LInv, Upper!IInv, [ListNext]_listVars
  PROVE  Upper!IInv'
BY StepView, SameStep, Upper!StepInv, ListAssumption

\* The users chained by next are never two of one access key, at most MaxSize,
\* and only the first has a running turn, under the last key; the positions in
\* the dictionary are those of the walk along the list.
THEOREM ListQueueCorrect == ListSpec => []Abstract!QueueInv
<1>1. ListInit => Upper!IInv
  <2>1. Abstract!QueueInit => Upper!QueueInit
    BY DEF Abstract!QueueInit, Upper!QueueInit
  <2> QED BY <2>1, InitView, Upper!InitInv, ListAssumption
<1>2. LInv /\ Upper!IInv /\ [ListNext]_listVars => Upper!IInv'
  BY UpperStep
<1>3. Upper!IInv => Abstract!QueueInv
  BY DEF Upper!IInv, Upper!QueueInv, Abstract!QueueInv,
         Upper!NoDuplicates, Abstract!NoDuplicates, Upper!Bounded, Abstract!Bounded,
         Upper!PositionsAgree, Abstract!PositionsAgree,
         Upper!PositionMap, Abstract!PositionMap,
         Upper!OnlyHeadHasTurn, Abstract!OnlyHeadHasTurn
<1> QED BY <1>1, <1>2, <1>3, ListInvHolds, PTL DEF ListSpec
=============================================================================
