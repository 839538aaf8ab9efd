------------------------------ MODULE QueryData ------------------------------
(***************************************************************************)
(* Queries beside the sharing of data: the handler query_computation of    *)
(* the coordination server, which takes no lock, the handlers              *)
(* request_querying_computation_mpc of the parties, which read the files   *)
(* of shares that the sharing handlers write and roll back, and the client *)
(* that asks.  Sharing is ShareData, whose steps are taken as they are.    *)
(*                                                                         *)
(* Both kinds of program use the same ports of a party                     *)
(* (get_fixed_mpc_ports), so that one may fail because the other runs.     *)
(***************************************************************************)
EXTENDS ShareData

CONSTANT Queriers   \* requests to query, each by another client

ASSUME QueryAssumption == /\ Clients \cup Queriers \subseteq Holders
                          /\ Clients \cap Queriers = {}

VARIABLES
  queryKey,   \* querier -> its computation key, 0 before
  querier,    \* querier -> what it does
  counted,    \* querier -> num_data_providers of its request, None before
  program,    \* party, querier -> how far request_querying_computation_mpc is
  inputs,     \* party, querier -> the entries its program has read
  answer      \* querier -> the entries its results were computed from

queryVars == <<queryKey, querier, counted, program, inputs, answer>>
systemVars == <<shareVars, queryVars>>

QueryTypeOK ==
  /\ ShareTypeOK
  /\ queryKey \in [Queriers -> 0 .. granted]
  /\ querier \in [Queriers -> {"idle", "ready", "connecting", "answered", "finishing", "over"}]
  /\ counted \in [Queriers -> 1 .. Cardinality(Clients) \cup {None}]
  /\ program \in [Parties -> [Queriers -> {"none", "sent", "running", "revealed", "ok", "failed"}]]
  /\ inputs \in [Parties -> [Queriers -> Values \cup {None}]]
  /\ answer \in [Queriers -> [Parties -> Values] \cup {None}]

SetQuerier(q, stage) == querier' = [querier EXCEPT ![q] = stage]
SetProgram(p, q, stage) == program' = [program EXCEPT ![p][q] = stage]

SharingAt(p) == {c \in Clients : handler[p][c] \in ProgramStages}
QueryingAt(p) == {q \in Queriers : program[p][q] \in {"running", "revealed"}}

-----------------------------------------------------------------------------
(***************************************************************************)
(* The client and the coordination server.                                 *)
(***************************************************************************)
GetTurnToQuery(q) ==
  /\ querier[q] = "idle" /\ turn = NoTurn
  /\ Grant(q)
  /\ queryKey' = [queryKey EXCEPT ![q] = granted']
  /\ SetQuerier(q, "ready")
  /\ UNCHANGED <<coordVars, client, told, partyVars, faults>>
  /\ UNCHANGED <<counted, program, inputs, answer>>

MayQuery(q) == turn = [holder |-> q, key |-> queryKey[q]]

\* Mutant: the count is that of the session which is still open.
RequestQueryCountingOpen(q) ==
  /\ querier[q] = "ready" /\ MayQuery(q)
  /\ SetQuerier(q, "connecting")
  /\ counted' = [counted EXCEPT ![q] = Cardinality(Recorded \cup told)]
  /\ counted'[q] # 0
  /\ program' = [p \in Parties |-> [program[p] EXCEPT ![q] = "sent"]]
  /\ UNCHANGED <<shareVars, queryKey, inputs, answer>>

\* Mutant: nobody looks whether there is a row.
RequestQueryUnchecked(q) ==
  /\ querier[q] = "ready" /\ MayQuery(q)
  /\ SetQuerier(q, "connecting")
  /\ counted' = [counted EXCEPT ![q] = Len(db)]
  /\ program' = [p \in Parties |-> [program[p] EXCEPT ![q] = "sent"]]
  /\ UNCHANGED <<shareVars, queryKey, inputs, answer>>

\* query_computation: the rows are counted, without the lock, and the task is
\* created that posts to all parties.
RequestQuery(q) ==
  /\ querier[q] = "ready" /\ MayQuery(q)
  /\ db # <<>>
  /\ SetQuerier(q, "connecting")
  /\ counted' = [counted EXCEPT ![q] = Len(db)]
  /\ program' = [p \in Parties |-> [program[p] EXCEPT ![q] = "sent"]]
  /\ UNCHANGED <<shareVars, queryKey, inputs, answer>>

\* The turn is over, or there is no row to be counted.
RefuseQuery(q) ==
  /\ querier[q] = "ready"
  /\ ~MayQuery(q) \/ db = <<>>
  /\ SetQuerier(q, "finishing")
  /\ UNCHANGED <<shareVars, queryKey, counted, program, inputs, answer>>

ReceiveResults(q) ==
  /\ querier[q] = "answered"
  /\ SetQuerier(q, "finishing")
  /\ UNCHANGED <<shareVars, queryKey, counted, program, inputs, answer>>

\* The client loses a connection, or there is no party to connect to.
QuerierFails(q) ==
  /\ querier[q] = "connecting"
  /\ \/ UNCHANGED faults /\ \E p \in Parties : program[p][q] = "failed"
     \/ Fault("fault", MaxFaults)
  /\ SetQuerier(q, "finishing")
  /\ UNCHANGED <<turn, granted, coordVars, client, told, partyVars>>
  /\ UNCHANGED <<queryKey, counted, program, inputs, answer>>

FinishQuery(q) ==
  /\ querier[q] = "finishing"
  /\ SetQuerier(q, "over")
  /\ IF MayQuery(q) THEN End ELSE UNCHANGED <<turn, granted>>
  /\ UNCHANGED <<coordVars, client, told, partyVars, faults>>
  /\ UNCHANGED <<queryKey, counted, program, inputs, answer>>

-----------------------------------------------------------------------------
(***************************************************************************)
(* The parties.                                                            *)
(***************************************************************************)

\* The program starts and reads the file of shares.
RunQuery(p, q) ==
  /\ program[p][q] = "sent" /\ shares[p] # None
  /\ SetProgram(p, q, "running")
  /\ inputs' = [inputs EXCEPT ![p][q] = shares[p]]
  /\ UNCHANGED <<shareVars, queryKey, querier, counted, answer>>

\* There is no file, or the preparation or the program fails: for a reason of
\* its own, for another party's, or for a sharing program on the same ports.
FailQuery(p, q) ==
  /\ \/ program[p][q] = "sent" /\ shares[p] = None /\ UNCHANGED faults
     \/ program[p][q] \in {"sent", "running"} /\ Fault("fault", MaxFaults)
     \/ /\ program[p][q] = "running" /\ UNCHANGED faults
        /\ \/ SharingAt(p) # {}
           \/ \E r \in Parties \ {p} : program[r][q] = "failed"
  /\ SetProgram(p, q, "failed")
  /\ UNCHANGED <<turn, granted, coordVars, client, told, partyVars>>
  /\ UNCHANGED <<queryKey, querier, counted, inputs, answer>>

\* The programs of all parties have met and the client has joined them: the
\* results are computed over the first entries of what each party has read.
\* These are programs of one query: that those of two overlapping ones, which
\* have the same ports and name, could meet each other is not in the model.
Compute(q) ==
  /\ \A p \in Parties : program[p][q] = "running"
  /\ querier[q] = "connecting"
  /\ SetQuerier(q, "answered")
  /\ program' = [p \in Parties |-> [program[p] EXCEPT ![q] = "revealed"]]
  /\ answer' = [answer EXCEPT ![q] =
       [p \in Parties |-> [i \in Indices |-> IF i <= counted[q] THEN inputs[p][q][i] ELSE None]]]
  /\ UNCHANGED <<shareVars, queryKey, counted, inputs>>

EndQuery(p, q) ==
  /\ program[p][q] = "revealed"
  /\ SetProgram(p, q, "ok")
  /\ UNCHANGED <<shareVars, queryKey, querier, counted, inputs, answer>>

\* A sharing program fails because a query's has its ports.
RollbackForPorts(p, c) ==
  /\ handler[p][c] \in ProgramStages
  /\ QueryingAt(p) # {}
  /\ RestoreShares(p, c)
  /\ PartyStep
  /\ UNCHANGED <<faults, queryVars>>

-----------------------------------------------------------------------------
QueryInit ==
  /\ ShareInit
  /\ queryKey = [q \in Queriers |-> 0]
  /\ querier = [q \in Queriers |-> "idle"]
  /\ counted = [q \in Queriers |-> None]
  /\ program = [p \in Parties |-> [q \in Queriers |-> "none"]]
  /\ inputs = [p \in Parties |-> [q \in Queriers |-> None]]
  /\ answer = [q \in Queriers |-> None]

QuerierStep(q) == \/ GetTurnToQuery(q) \/ RequestQuery(q) \/ RefuseQuery(q)
                  \/ ReceiveResults(q) \/ QuerierFails(q) \/ FinishQuery(q)
                  \/ Compute(q)

ProgramStep(p, q) == RunQuery(p, q) \/ FailQuery(p, q) \/ EndQuery(p, q)

QueryNext == \/ ShareNext /\ UNCHANGED queryVars
             \/ \E q \in Queriers : \/ QuerierStep(q)
                                    \/ \E p \in Parties : ProgramStep(p, q)
             \/ \E p \in Parties, c \in Clients : RollbackForPorts(p, c)

SystemSpec == QueryInit /\ [][QueryNext]_systemVars

-----------------------------------------------------------------------------
(***************************************************************************)
(* Properties.                                                             *)
(***************************************************************************)

\* Results are computed over the shares of the rows that were counted, the
\* same ones at every party: whatever a sharing session writes or rolls back
\* at some of the parties meanwhile, it leaves the entries below alone.
ResultsAreOfRecorded ==
  \A q \in Queriers :
    answer[q] # None =>
      \A p \in Parties, i \in Indices :
        IF i <= counted[q] THEN i \in DOMAIN db /\ answer[q][p][i] = db[i]
        ELSE answer[q][p][i] = None

\* A query that was counted finds a file at every party, so that it never ends
\* because there is no data.
CountedMeansPresent ==
  \A q \in Queriers, p \in Parties : program[p][q] = "sent" => shares[p] # None
=============================================================================
