---------------------------- MODULE QueueClients ----------------------------
(***************************************************************************)
(* The clients of the user queue: client_cli/main.py for the regular users *)
(* and the data consumer API for the priority user, both through           *)
(* client_lib/lib.py.  A client enters the queue, polls until the server   *)
(* says that its position is 0, asks for its computation with the key it   *)
(* was given and reports the end of it, successful or not.  The data       *)
(* consumer comes again and again, each time under a new access key.       *)
(*                                                                         *)
(* Each HTTP request is one step of the server; between its requests a     *)
(* client may be slow, and it may die.  A request that fails with another  *)
(* status than 200 is repeated, which is a stuttering step here.           *)
(***************************************************************************)
EXTENDS UserQueue, FiniteSets

CONSTANTS Priority,      \* those who enter by add_priority_user_to_queue
          PollDuration,  \* at most so much time passes between two polls
          MaxCrashes     \* bound: so many clients die

ASSUME ClientsAssumption == /\ Priority \subseteq AccessKeys
                            /\ PollDuration \in Nat \ {0}
                            /\ MaxCrashes \in Nat

VARIABLES pc,     \* what the client does next
          held,   \* the computation key that poll_queue_until_ready returned
          since   \* time since the client entered or polled

clientVars == <<pc, held, since>>
vars == <<users, user_positions, issued, pc, held, since>>

Stage == {"add", "poll", "request", "compute", "finish", "done", "crashed"}

ClientsTypeOK == /\ QueueTypeOK
                 /\ pc \in [AccessKeys -> Stage]
                 /\ held \in [AccessKeys -> Nat \cup {None}]
                 /\ since \in [AccessKeys -> 0 .. PollDuration]

Goto(c, stage) == pc' = [pc EXCEPT ![c] = stage]

-----------------------------------------------------------------------------
\* The result is an integer when it comes out of the JSON and never equals the
\* enumeration member QUEUE_IS_FULL, so the client goes on after any result.
EnterQueue(c) ==
  /\ pc[c] = "add"
  /\ \/ AddResult(c) # "SUCCEEDED" /\ UNCHANGED queueVars
     \/ c \in Priority /\ add_priority_user(c)
     \/ c \notin Priority /\ add_user(c)
  /\ Goto(c, "poll")
  /\ since' = [since EXCEPT ![c] = 0]
  /\ UNCHANGED held

\* get_position reads the position first; the key is read after the head user,
\* who may be the caller, was timed out.
Poll(c) ==
  /\ pc[c] = "poll"
  /\ get_computation_key(c)
  /\ since' = [since EXCEPT ![c] = 0]
  /\ IF user_positions[c] = 0
     THEN Goto(c, "request") /\ held' = [held EXCEPT ![c] = KeyOf(c)']
     ELSE UNCHANGED <<pc, held>>

\* share_data and query_computation begin with validate_computation_key; a
\* client that is refused goes to the end like one that fails.
RequestComputation(c) ==
  /\ pc[c] = "request"
  /\ UNCHANGED <<held, since>>
  /\ validate_computation_key
  /\ Goto(c, IF KeyIsValid(c, held[c])' THEN "compute" ELSE "finish")

\* The computation is over, as the client sees it.  One that never is, since the
\* client spins in Receive, is a Crash as far as the queue can tell.
ComputationEnds(c) == /\ pc[c] = "compute"
                      /\ Goto(c, "finish")
                      /\ UNCHANGED <<queueVars, held, since>>

MarkFinished(c) ==
  /\ pc[c] = "finish"
  /\ \/ finish_computation(c, held[c])
     \/ ~KeyIsValid(c, held[c]) /\ UNCHANGED queueVars
  /\ Goto(c, "done")
  /\ UNCHANGED <<held, since>>

\* The tokens that are still held are renamed by their rank: nothing else than
\* whether two of them are equal matters, and their number stays bounded.
Rename(kept) ==
  LET live == ({kept[c] : c \in AccessKeys} \cup {issued}
                 \cup {users[i].computation_key : i \in DOMAIN users}) \ {None}
      Rank(token) == IF token = None THEN None
                     ELSE Cardinality({t \in live : t <= token})
  IN  /\ held' = [c \in AccessKeys |-> Rank(kept[c])]
      /\ issued' = Rank(issued)
      /\ users' = [i \in DOMAIN users |-> [users[i] EXCEPT !.computation_key = Rank(@)]]

\* update_cache_periodically queries again, under a new access key.  That takes
\* the name of the last one, which has left the queue.
ComeAgain(c) ==
  /\ pc[c] = "done" /\ c \in Priority
  /\ user_positions[c] = None
  /\ Goto(c, "add")
  /\ Rename([held EXCEPT ![c] = None])
  /\ UNCHANGED <<user_positions, since>>

Crash(c) == /\ pc[c] \notin {"done", "crashed"}
            /\ Cardinality({d \in AccessKeys : pc[d] = "crashed"}) < MaxCrashes
            /\ Goto(c, "crashed")
            /\ UNCHANGED <<queueVars, held, since>>

\* Time passes, but no client waits longer than PollDuration for its next poll.
TimePasses ==
  /\ Tick
  /\ \A c \in AccessKeys : pc[c] = "poll" => since[c] < PollDuration
  /\ since' = [c \in AccessKeys |-> IF pc[c] = "poll" THEN since[c] + 1 ELSE since[c]]
  /\ UNCHANGED <<pc, held>>

-----------------------------------------------------------------------------
ClientsInit == /\ QueueInit
               /\ pc = [c \in AccessKeys |-> "add"]
               /\ held = [c \in AccessKeys |-> None]
               /\ since = [c \in AccessKeys |-> 0]

Step(c) == \/ EnterQueue(c)
           \/ Poll(c)
           \/ RequestComputation(c)
           \/ ComputationEnds(c)
           \/ MarkFinished(c)

ClientsNext == \/ \E c \in AccessKeys : Step(c) \/ ComeAgain(c) \/ Crash(c)
               \/ TimePasses

\* A client that lives goes on, its computation ends, unless it spins and counts
\* as crashed, and time passes; nobody must crash or come again.
Fairness == /\ \A c \in AccessKeys : WF_vars(Step(c))
            /\ WF_vars(TimePasses)

ClientsSpec == ClientsInit /\ [][ClientsNext]_vars /\ Fairness

-----------------------------------------------------------------------------
(***************************************************************************)
(* Properties.                                                             *)
(***************************************************************************)

\* Who waits for its turn is in the queue: a client that polls is not one that
\* the queue refused or has already evicted.
WaitersAreQueued == \A c \in AccessKeys : pc[c] = "poll" => user_positions[c] # None

\* A client to whom poll_queue_until_ready says that the servers are ready has
\* a computation key.
ReadyMeansKey ==
  \A c \in AccessKeys : pc[c] \in {"request", "compute", "finish"} => held[c] # None

\* A client whose turn has timed out and who finishes late takes the turn from
\* nobody: whoever else was in the queue stays, and the head keeps its key.
LateFinishIsHarmless ==
  [][\A c \in AccessKeys :
       pc[c] = "finish" /\ pc'[c] = "done" =>
         /\ Waiting(users') = IF KeyIsValid(c, held[c]) THEN Waiting(users) \ {c}
                              ELSE Waiting(users)
         /\ \A d \in AccessKeys \ {c} : KeyIsValid(d, held[d]) => KeyIsValid(d, held[d])'
    ]_vars

\* Every client that does not die gets to its end, whoever dies before it in
\* the queue, since the poll of the next one evicts the dead head, and however
\* often the data consumer passes it by: behind the head there is always the
\* place which the consumer has left.
EveryoneServed ==
  \A c \in AccessKeys : pc[c] = "add" ~> pc[c] \in {"done", "crashed"}
=============================================================================
