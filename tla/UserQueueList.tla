---------------------------- MODULE UserQueueList ----------------------------
(***************************************************************************)
(* The user queue as coordination_server/user_queue.py stores it: User     *)
(* objects chained by next, the pointers users_head and users_tail, the    *)
(* counter users_len, and a dictionary that maps an access key to a        *)
(* position and an object.  It implements UserQueue.                       *)
(*                                                                         *)
(* An object is a member of Objects; one that nothing refers to is taken   *)
(* again for a new User.  _pop_user leaves users_tail where it is, so the  *)
(* tail may refer to an object that has left the list.                     *)
(***************************************************************************)
EXTENDS Naturals, Sequences, FiniteSets

CONSTANTS AccessKeys, MaxSize, HeadTimeout, MaxKeys, None,  \* as in UserQueue
          Objects       \* bound: User objects alive at a time

\* The fields of a User object; of _time_at_queue_head only the age is used.
Fields == [access_key : AccessKeys,
           computation_key : Nat \cup {None},
           age : (0 .. HeadTimeout + 1) \cup {None},
           next : Objects \cup {None}]

\* There are objects for a full list and for the one users_tail may still
\* refer to, and None is nothing else.
ASSUME ListAssumption ==
  /\ MaxSize \in Nat \ {0} /\ HeadTimeout \in Nat /\ MaxKeys \in Nat
  /\ IsFiniteSet(Objects) /\ Cardinality(Objects) > MaxSize
  /\ None \notin Nat /\ None \notin Objects /\ None \notin Nat \X Objects
  /\ None \notin Fields

VARIABLES users_head, users_tail, users_len,
          heap,            \* object -> the fields of the User, None when free
          user_positions,  \* access key -> <<position, object>>, None if absent
          issued           \* how many computation keys were handed out

listVars == <<users_head, users_tail, users_len, heap, user_positions, issued>>

\* The state of a queue between two statements of a method.
Queue == [head |-> users_head, tail |-> users_tail, len |-> users_len,
          heap |-> heap, positions |-> user_positions, issued |-> issued]

\* The objects of the list, as a loop finds them that follows next from the
\* head until there is no next user.
Chain(q) ==
  LET at[n \in Nat] == IF n = 0 THEN q.head
                       ELSE IF at[n - 1] = None THEN None ELSE q.heap[at[n - 1]].next
      length == CHOOSE n \in 0 .. Cardinality(Objects) :
                  at[n] = None /\ \A m \in 0 .. n - 1 : at[m] # None
  IN  [i \in 1 .. length |-> at[i - 1]]

\* Objects that are referred to by q; the others are free.
Alive(q) == {q.tail} \cup {Chain(q)[i] : i \in DOMAIN Chain(q)}
              \cup {q.positions[ak][2] : ak \in {a \in AccessKeys : q.positions[a] # None}}

\* The fields after the method, with the objects nobody refers to collected.
Commit(q) ==
  /\ users_head' = q.head /\ users_tail' = q.tail /\ users_len' = q.len
  /\ heap' = [o \in Objects |-> IF o \in Alive(q) THEN q.heap[o] ELSE None]
  /\ user_positions' = q.positions
  /\ issued' = q.issued

-----------------------------------------------------------------------------
\* o.next = x
Link(h, o, x) == [h EXCEPT ![o] = [@ EXCEPT !.next = x]]

\* The private methods: each maps the queue before to the queue after.
_add_user(q, u) ==
  [q EXCEPT !.heap = IF q.head = None THEN Link(@, u, None)
                     ELSE Link(Link(@, q.tail, u), u, None),
            !.head = IF @ = None THEN u ELSE @,
            !.tail = u,
            !.len = @ + 1]

\* Mutant: the tail stays when the priority user is the last one.
_add_priority_user_old_tail(q, u) ==
  IF q.head = None THEN _add_user(q, u)
  ELSE [q EXCEPT !.heap = Link(Link(@, q.head, u), u, q.heap[q.head].next),
                 !.len = @ + 1]

_add_priority_user(q, u) ==
  IF q.head = None THEN _add_user(q, u)
  ELSE LET prev_user_next == q.heap[q.head].next
       IN  [q EXCEPT !.heap = Link(Link(@, q.head, u), u, prev_user_next),
                     !.tail = IF prev_user_next = None THEN u ELSE @,
                     !.len = @ + 1]

_pop_user(q) ==
  IF q.head = None THEN q
  ELSE [q EXCEPT !.head = q.heap[q.head].next,
                 !.heap = Link(@, q.head, None),
                 !.len = @ - 1]

StartTurn(h, o, key) == [h EXCEPT ![o] = [@ EXCEPT !.age = 0, !.computation_key = key]]

_set_queue_head_data_if_needed(q) ==
  IF q.len > 0 /\ q.heap[q.head].age = None
  THEN [q EXCEPT !.heap = StartTurn(@, q.head, q.issued + 1), !.issued = @ + 1]
  ELSE q

\* Mutant: the dictionary only loses the keys of those who left.
_build_position_map_without_shift(q) ==
  [q EXCEPT !.positions =
     [ak \in AccessKeys |->
        IF \E i \in DOMAIN Chain(q) : q.heap[Chain(q)[i]].access_key = ak
        THEN @[ak] ELSE None]]

\* The loop writes an entry for each object from the head on; a later one of
\* the same access key overwrites an earlier one.
_build_position_map(q) ==
  LET chain == Chain(q)
      Places(ak) == {i \in DOMAIN chain : q.heap[chain[i]].access_key = ak}
      last(ak) == CHOOSE i \in Places(ak) : \A j \in Places(ak) : j <= i
  IN  [q EXCEPT !.positions =
         [ak \in AccessKeys |-> IF Places(ak) = {} THEN None
                                ELSE <<last(ak) - 1, chain[last(ak)]>>]]

-----------------------------------------------------------------------------
\* User(access_key=ak) in a free object.
Free == {o \in Objects : heap[o] = None}
WithNewUser(ak, u) ==
  [Queue EXCEPT !.heap[u] = [access_key |-> ak, computation_key |-> None,
                             age |-> None, next |-> None]]

\* Mutant: full one user too late.
CanAddLate(ak) == /\ issued + users_len < MaxKeys
                  /\ users_len <= MaxSize
                  /\ user_positions[ak] = None

CanAdd(ak) == /\ issued + users_len < MaxKeys    \* bound
              /\ users_len # MaxSize
              /\ user_positions[ak] = None

add_user(ak) ==
  /\ CanAdd(ak)
  /\ LET u == CHOOSE o \in Free : TRUE
         q == _add_user(WithNewUser(ak, u), u)
     IN  Commit(_set_queue_head_data_if_needed(
                  [q EXCEPT !.positions[ak] = <<q.len - 1, u>>]))

add_priority_user(ak) ==
  /\ CanAdd(ak)
  /\ LET u == CHOOSE o \in Free : TRUE
         q == _add_priority_user(WithNewUser(ak, u), u)
         Shifted(entry) == IF entry # None /\ entry[1] > 0
                           THEN <<entry[1] + 1, entry[2]>> ELSE entry
         positions == IF q.len = 1
                      THEN [q.positions EXCEPT ![ak] = <<0, u>>]
                      ELSE [a \in AccessKeys |-> IF a = ak THEN <<1, u>>
                                                 ELSE Shifted(q.positions[a])]
     IN  Commit(_set_queue_head_data_if_needed([q EXCEPT !.positions = positions]))

AtHead(ak) == user_positions[ak] # None /\ user_positions[ak][1] = 0

Expired == /\ users_head # None
           /\ heap[users_head].age # None
           /\ heap[users_head].age > HeadTimeout

_timeout_head_user ==
  IF Expired
  THEN Commit(_set_queue_head_data_if_needed(_build_position_map(_pop_user(Queue))))
  ELSE UNCHANGED listVars

validate_computation_key == _timeout_head_user

get_computation_key(ak) ==
  \/ Expired /\ _timeout_head_user
  \/ ~Expired /\ IF AtHead(ak) THEN Commit(_set_queue_head_data_if_needed(Queue))
                               ELSE UNCHANGED listVars

\* The key is compared with that of the object in the dictionary, and the
\* object at the head of the list is removed.
finish_computation(ak, key) ==
  /\ AtHead(ak) /\ heap[user_positions[ak][2]].computation_key = key
  /\ Commit(_build_position_map(_set_queue_head_data_if_needed(_pop_user(Queue))))

Tick == /\ users_head # None /\ heap[users_head].age # None /\ ~Expired
        /\ heap' = [heap EXCEPT ![users_head] = [@ EXCEPT !.age = heap[users_head].age + 1]]
        /\ UNCHANGED <<users_head, users_tail, users_len, user_positions, issued>>

ListInit == /\ users_head = None /\ users_tail = None /\ users_len = 0
            /\ heap = [o \in Objects |-> None]
            /\ user_positions = [ak \in AccessKeys |-> None]
            /\ issued = 0

\* A restarted server has a new UserQueue.
Restart == Commit([head |-> None, tail |-> None, len |-> 0,
                   heap |-> heap, positions |-> [ak \in AccessKeys |-> None],
                   issued |-> issued])

ListNext == \/ \E ak \in AccessKeys :
                 \/ add_user(ak)
                 \/ add_priority_user(ak)
                 \/ get_computation_key(ak)
                 \/ \E key \in 1 .. issued : finish_computation(ak, key)
            \/ validate_computation_key
            \/ Tick
            \/ Restart

ListSpec == ListInit /\ [][ListNext]_listVars

-----------------------------------------------------------------------------
(***************************************************************************)
(* Properties.                                                             *)
(***************************************************************************)

\* Every field holds a value of its kind.
ListTypeOK ==
  /\ {users_head, users_tail} \subseteq Objects \cup {None}
  /\ users_len \in 0 .. MaxSize
  /\ heap \in [Objects -> Fields \cup {None}]
  /\ user_positions \in [AccessKeys -> ((0 .. MaxSize - 1) \X Objects) \cup {None}]
  /\ issued \in Nat

\* Whenever there is a list, users_tail is its last object, even though a pop
\* that empties the list leaves an old object in it; and users_len is the
\* length.  An add through a wrong tail would lose users without a trace.
TailIsLast ==
  LET chain == Chain(Queue)
  IN  /\ users_len = Len(chain)
      /\ chain # <<>> => chain[Len(chain)] = users_tail

\* The object in the dictionary is the one in the list at that position:
\* validate_computation_key and finish_computation read the key of the one
\* and finish_computation removes the other.
DictionaryPointsIntoList ==
  \A ak \in AccessKeys :
    user_positions[ak] # None =>
      LET chain == Chain(Queue)
      IN  user_positions[ak] \in {<<i - 1, chain[i]>> : i \in DOMAIN chain}

\* The pointers implement the sequence.
UserOf(fields) == [access_key |-> fields.access_key,
                   computation_key |-> fields.computation_key, age |-> fields.age]
Users == [i \in DOMAIN Chain(Queue) |-> UserOf(heap[Chain(Queue)[i]])]
PositionOf(entry) == IF entry = None THEN None ELSE entry[1]
Positions == [ak \in AccessKeys |-> PositionOf(user_positions[ak])]
Abstract == INSTANCE UserQueue WITH users <- Users, user_positions <- Positions
ImplementsUserQueue == Abstract!QueueSpec
=============================================================================
