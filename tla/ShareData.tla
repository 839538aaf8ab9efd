------------------------------ MODULE ShareData ------------------------------
(***************************************************************************)
(* A data provider shares a secret: the handler share_data of the          *)
(* coordination server with its global lock, its background task and the   *)
(* database, the handlers request_sharing_data_mpc of the computation      *)
(* parties with their files of shares, and the client that feeds the MPC.  *)
(*                                                                         *)
(* The user queue appears as the lease that it implements (TurnLease).     *)
(* The coordination server is one event loop: a step here is what it does  *)
(* between two awaits.  The handlers of the parties run in threads of      *)
(* their own and go on whatever happens to the request that started them.  *)
(***************************************************************************)
EXTENDS TurnLease, Sequences, FiniteSets

CONSTANTS Clients,          \* requests to share data, each by another client
          Parties,          \* the computation parties
          Uid(_),           \* the Binance account that a client's proof is of
          MaxDataProviders, \* MAX_DATA_PROVIDERS
          None,             \* no file, no backup, no entry
          MaxEvictions,     \* bound: turns that time out
          MaxFaults,        \* bound: failures of a proof, a party or a client
          MaxLost,          \* bound: connections lost, servers that die
          MaxDbErrors       \* bound: failures of the database

ASSUME ShareAssumption ==
  /\ Clients \subseteq Holders /\ IsFiniteSet(Clients)
  /\ Parties # {}
  /\ None \notin Clients
  /\ None \notin [1 .. Cardinality(Clients) -> Clients \cup {None}]

VARIABLES
  key,      \* client -> the computation key it was given, 0 before
  request,  \* client -> how far share_data and its task are
  client,   \* client -> what the client does
  told,     \* the clients who were told that their data has been shared
  lock,     \* sharing_data_lock: who holds it, then who waits for it
  index,    \* client -> its secret_index
  db,       \* the rows of MPCSession
  proofs,   \* proof_<index>.json: index -> whose proof it is
  handler,  \* party, client -> how far request_sharing_data_mpc is
  backup,   \* party, client -> the backup that the handler made
  memory,   \* party, client -> client_values in the running MPC program
  shares,   \* party -> the values in Transactions-P<party>.data
  faults    \* how often each bound was used

coordVars == <<key, request, lock, index, db, proofs>>
partyVars == <<handler, backup, memory, shares>>
shareVars == <<turn, granted, key, request, client, told, lock, index, db, proofs,
               handler, backup, memory, shares, faults>>

Indices == 1 .. Cardinality(Clients)

\* Shares by index.  An empty entry is a share of zero.
NoShares == [i \in Indices |-> None]
Values == [Indices -> Clients \cup {None}]

ShareTypeOK ==
  /\ turn \in [holder : Holders, key : 1 .. granted] \cup {NoTurn}
  /\ key \in [Clients -> 0 .. granted]
  /\ request \in [Clients -> {"none", "ready", "verifying", "queued", "posting", "ended"}]
  /\ client \in [Clients -> {"idle", "calling", "connecting", "sent", "answered",
                                "finishing", "over"}]
  /\ told \subseteq Clients
  /\ lock \in Seq(Clients)
  /\ index \in [Clients -> Indices \cup {0}]
  /\ db \in Seq(Clients)
  /\ proofs \in Values
  /\ handler \in [Parties -> [Clients -> {"none", "sent", "prepared", "running", "input",
                                          "written", "revealed", "ok", "failed", "dead"}]]
  /\ backup \in [Parties -> [Clients -> Values \cup {None}]]
  /\ memory \in [Parties -> [Clients -> Values \cup {None}]]
  /\ shares \in [Parties -> Values \cup {None}]

HasTurn(c) == turn = [holder |-> c, key |-> key[c]]

SetRequest(c, stage) == request' = [request EXCEPT ![c] = stage]
SetClient(c, stage) == client' = [client EXCEPT ![c] = stage]

\* The response to share_data reaches the client if it still waits for it.
Respond(c, stage) == IF client[c] = "calling" THEN SetClient(c, stage) ELSE UNCHANGED client

Fault(kind, bound) == /\ faults[kind] < bound
                      /\ faults' = [faults EXCEPT ![kind] = @ + 1]

-----------------------------------------------------------------------------
(***************************************************************************)
(* The client and its turn.                                                *)
(***************************************************************************)

\* poll_queue_until_ready returns the key.
GetTurn(c) == /\ request[c] = "none" /\ turn = NoTurn
              /\ Grant(c)
              /\ key' = [key EXCEPT ![c] = granted']
              /\ SetRequest(c, "ready")
              /\ UNCHANGED <<client, told, lock, index, db, proofs, partyVars, faults>>

TurnTimesOut == /\ turn # NoTurn
                /\ Fault("eviction", MaxEvictions)
                /\ End
                /\ UNCHANGED <<coordVars, client, told, partyVars>>

\* The client receives an output from every party.  Nothing is compared.
ReceiveOutputs(c) ==
  /\ client[c] = "answered"
  /\ SetClient(c, "finishing")
  /\ told' = told \cup {c}
  /\ UNCHANGED <<turn, granted, coordVars, partyVars, faults>>

\* It loses a connection instead, or finds no party to connect to; or it gives
\* up its call of share_data, which goes on without it.
ClientFails(c) ==
  /\ \/ client[c] \in {"sent", "answered"} /\ Fault("fault", MaxFaults)
     \/ client[c] \in {"calling", "connecting"} /\ Fault("lost", MaxLost)
     \/ /\ client[c] \in {"connecting", "sent"} /\ UNCHANGED faults
        /\ \E p \in Parties : handler[p][c] \in {"failed", "dead"}
  /\ SetClient(c, "finishing")
  /\ UNCHANGED <<turn, granted, coordVars, told, partyVars>>

\* notarize_and_share_data marks the computation as finished in every case.
MarkFinished(c) == /\ client[c] = "finishing"
                   /\ SetClient(c, "over")
                   /\ IF HasTurn(c) THEN End ELSE UNCHANGED <<turn, granted>>
                   /\ UNCHANGED <<coordVars, told, partyVars, faults>>

-----------------------------------------------------------------------------
(***************************************************************************)
(* The coordination server.                                                *)
(***************************************************************************)

\* share_data until it awaits the verifier of the TLSN proof.
Request(c) ==
  /\ request[c] = "ready"
  /\ IF HasTurn(c)
     THEN SetRequest(c, "verifying") /\ SetClient(c, "calling")
     ELSE SetRequest(c, "ended") /\ SetClient(c, "finishing")
  /\ UNCHANGED <<turn, granted, key, told, lock, index, db, proofs, partyVars, faults>>

Recorded == {db[i] : i \in DOMAIN db}

\* The verifier answers.  The uid is looked up in the database before the lock
\* is asked for; the answer to a refused request ends the client's attempt.
Refuse(c) ==
  /\ request[c] = "verifying"
  /\ \/ UNCHANGED faults /\ \E r \in Recorded : Uid(r) = Uid(c)
     \/ Fault("fault", MaxFaults)
  /\ SetRequest(c, "ended") /\ Respond(c, "finishing")
  /\ UNCHANGED <<turn, granted, key, told, lock, index, db, proofs, partyVars>>

AskForLock(c) ==
  /\ request[c] = "verifying"
  /\ \A r \in Recorded : Uid(r) # Uid(c)
  /\ SetRequest(c, "queued")
  /\ lock' = Append(lock, c)
  /\ UNCHANGED <<turn, granted, key, client, told, index, db, proofs, partyVars, faults>>

\* Mutant: the requests go on without the lock.
StartTaskUnlocked(c) ==
  /\ request[c] = "queued"
  /\ SetRequest(c, "posting") /\ Respond(c, "connecting")
  /\ index' = [index EXCEPT ![c] = Len(db) + 1]
  /\ handler' = [p \in Parties |-> [handler[p] EXCEPT ![c] = "sent"]]
  /\ UNCHANGED <<turn, granted, key, told, lock, db, proofs, backup, memory, shares, faults>>

\* The lock is acquired, the sessions are counted and the task is created that
\* posts to all parties; the client gets its answer.
StartTask(c) ==
  /\ request[c] = "queued" /\ Head(lock) = c
  /\ SetRequest(c, "posting") /\ Respond(c, "connecting")
  /\ index' = [index EXCEPT ![c] = Len(db) + 1]
  /\ handler' = [p \in Parties |-> [handler[p] EXCEPT ![c] = "sent"]]
  /\ UNCHANGED <<turn, granted, key, told, lock, db, proofs, backup, memory, shares, faults>>

\* The count fails.  It stands before the try whose except clause would have
\* released the lock.
CountFails(c) ==
  /\ request[c] = "queued" /\ Head(lock) = c
  /\ Fault("db", MaxDbErrors)
  /\ SetRequest(c, "ended") /\ Respond(c, "finishing")
  /\ UNCHANGED <<turn, granted, key, told, lock, index, db, proofs, partyVars>>

\* All parties answered 200: the proof is written, the row inserted and the
\* lock released.  The next index is counted, the file named by index.
Record(c) ==
  /\ request[c] = "posting"
  /\ \A p \in Parties : handler[p][c] = "ok"
  /\ proofs' = [proofs EXCEPT ![index[c]] = c]
  /\ db' = Append(db, c)
  /\ lock' = Tail(lock)
  /\ SetRequest(c, "ended")
  /\ UNCHANGED <<turn, granted, key, client, told, index, partyVars, faults>>

\* The proof is written, but the row cannot be inserted: the parties keep the
\* share, and the next session has the same index.
CommitFails(c) ==
  /\ request[c] = "posting"
  /\ \A p \in Parties : handler[p][c] = "ok"
  /\ Fault("fault", MaxFaults)
  /\ proofs' = [proofs EXCEPT ![index[c]] = c]
  /\ lock' = Tail(lock)
  /\ SetRequest(c, "ended")
  /\ UNCHANGED <<turn, granted, key, client, told, index, db, partyVars>>

\* Mutant: a failed task keeps the lock.
GiveUpLocked(c) ==
  /\ request[c] = "posting"
  /\ \A p \in Parties : handler[p][c] \in {"ok", "failed"}
  /\ \E p \in Parties : handler[p][c] = "failed"
  /\ SetRequest(c, "ended")
  /\ UNCHANGED <<turn, granted, key, client, told, lock, index, db, proofs, partyVars, faults>>

\* Some party answered otherwise.
GiveUp(c) ==
  /\ request[c] = "posting"
  /\ \A p \in Parties : handler[p][c] \in {"ok", "failed"}
  /\ \E p \in Parties : handler[p][c] = "failed"
  /\ lock' = Tail(lock)
  /\ SetRequest(c, "ended")
  /\ UNCHANGED <<turn, granted, key, client, told, index, db, proofs, partyVars, faults>>

\* A POST raises, by a lost connection, by the death of a party or by the timeout
\* of aiohttp, which must come when all programs wait for a client that has gone:
\* gather does not wait for the others, and no handler is told.
PostFails(c) ==
  /\ request[c] = "posting"
  /\ \E p \in Parties : handler[p][c] \notin {"ok", "failed"}
  /\ \/ Fault("lost", MaxLost)
     \/ UNCHANGED faults /\ \E p \in Parties : handler[p][c] = "dead"
     \/ /\ client[c] \in {"finishing", "over"} /\ UNCHANGED faults
        /\ \A p \in Parties : handler[p][c] = "running"
  /\ lock' = Tail(lock)
  /\ SetRequest(c, "ended")
  /\ UNCHANGED <<turn, granted, key, client, told, index, db, proofs, partyVars>>

\* The server is started anew: the queue, the lock and the background tasks are
\* gone, the database stays, and the handlers of the parties go on.
ServerRestarts ==
  /\ Fault("lost", MaxLost)
  /\ End
  /\ lock' = <<>>
  /\ request' = [c \in Clients |-> IF request[c] \in {"verifying", "queued", "posting"}
                                  THEN "ended" ELSE request[c]]
  /\ client' = [c \in Clients |-> IF client[c] = "calling" THEN "finishing" ELSE client[c]]
  /\ UNCHANGED <<key, told, index, db, proofs, partyVars>>

-----------------------------------------------------------------------------
(***************************************************************************)
(* The parties.                                                            *)
(***************************************************************************)
SetHandler(p, c, stage) == handler' = [handler EXCEPT ![p][c] = stage]
PartyStep == UNCHANGED <<turn, granted, coordVars, client, told>>

\* A handler of c that fails for a reason of its own, or because an MPC with a
\* party that has failed cannot go on.
MayFail(p, c) == \/ Fault("fault", MaxFaults)
                 \/ /\ \E q \in Parties \ {p} : handler[q][c] \in {"failed", "dead"}
                    /\ UNCHANGED faults

\* backup_shares: the copy, or None when there is no file to copy.
BackupOf(p) == shares[p]

\* The proof is verified, the present shares are copied, and the certificates
\* and the program are prepared.
Backup(p, c) ==
  /\ handler[p][c] = "sent"
  /\ index[c] < MaxDataProviders
  /\ SetHandler(p, c, "prepared")
  /\ backup' = [backup EXCEPT ![p][c] = BackupOf(p)]
  /\ PartyStep /\ UNCHANGED <<memory, shares, faults>>

\* The index is too large, the proof is refused, a certificate cannot be had
\* or the program does not compile: nothing was written, nothing is restored.
PrepareFails(p, c) ==
  /\ \/ /\ handler[p][c] = "sent" /\ index[c] >= MaxDataProviders
        /\ UNCHANGED faults
     \/ handler[p][c] \in {"sent", "prepared"} /\ Fault("fault", MaxFaults)
  /\ SetHandler(p, c, "failed")
  /\ backup' = [backup EXCEPT ![p][c] = None]
  /\ PartyStep /\ UNCHANGED <<memory, shares>>

\* What the program finds in client_values: the lines that read the file are
\* left out of it when there was no backup.
Loaded(p, c) ==
  IF backup[p][c] = None \/ shares[p] = None THEN NoShares ELSE shares[p]

\* The MPC program starts.
Run(p, c) ==
  /\ handler[p][c] = "prepared"
  /\ SetHandler(p, c, "running")
  /\ memory' = [memory EXCEPT ![p][c] = Loaded(p, c)]
  /\ PartyStep /\ UNCHANGED <<backup, shares, faults>>

\* All programs have met and the client gives them its input.
Input(c) ==
  /\ \A p \in Parties : handler[p][c] = "running"
  /\ client[c] = "connecting"
  /\ SetClient(c, "sent")
  /\ handler' = [p \in Parties |-> [handler[p] EXCEPT ![c] = "input"]]
  /\ memory' = [p \in Parties |-> [memory[p] EXCEPT ![c][index[c]] = c]]
  /\ UNCHANGED <<turn, granted, coordVars, told, backup, shares, faults>>

\* client_values.write_to_file(0)
Write(p, c) ==
  /\ handler[p][c] = "input"
  /\ SetHandler(p, c, "written")
  /\ shares' = [shares EXCEPT ![p] = memory[p][c]]
  /\ PartyStep /\ UNCHANGED <<backup, memory, faults>>

\* The commitment is opened, which takes all parties, and sent to the client.
Reveal(c) ==
  /\ \A p \in Parties : handler[p][c] = "written"
  /\ handler' = [p \in Parties |-> [handler[p] EXCEPT ![c] = "revealed"]]
  /\ IF client[c] = "sent" THEN SetClient(c, "answered") ELSE UNCHANGED client
  /\ UNCHANGED <<turn, granted, coordVars, told, backup, memory, shares, faults>>

\* The program has ended well and the commitments match.
Answer(p, c) ==
  /\ handler[p][c] = "revealed"
  /\ SetHandler(p, c, "ok")
  /\ backup' = [backup EXCEPT ![p][c] = None]
  /\ memory' = [memory EXCEPT ![p][c] = None]
  /\ PartyStep /\ UNCHANGED <<shares, faults>>

\* The handler's failure, once its program was started.
ProgramStages == {"running", "input", "written", "revealed"}
RestoreShares(p, c) ==
  /\ SetHandler(p, c, "failed")
  /\ shares' = [shares EXCEPT ![p] = backup[p][c]]
  /\ backup' = [backup EXCEPT ![p][c] = None]
  /\ memory' = [memory EXCEPT ![p][c] = None]

\* Mutant: the handler fails and leaves what the program has written.
NoRollback(p, c) ==
  /\ handler[p][c] \in ProgramStages
  /\ MayFail(p, c)
  /\ SetHandler(p, c, "failed")
  /\ backup' = [backup EXCEPT ![p][c] = None]
  /\ memory' = [memory EXCEPT ![p][c] = None]
  /\ PartyStep /\ UNCHANGED shares

\* Mutant: the shares are removed though there is a backup.
RollbackToNothing(p, c) ==
  /\ handler[p][c] \in ProgramStages
  /\ MayFail(p, c)
  /\ SetHandler(p, c, "failed")
  /\ shares' = [shares EXCEPT ![p] = None]
  /\ backup' = [backup EXCEPT ![p][c] = None]
  /\ memory' = [memory EXCEPT ![p][c] = None]
  /\ PartyStep

\* The program fails, or its commitment is not that of the proof: the backup
\* is copied back, and without a backup the file is removed.
Rollback(p, c) ==
  /\ handler[p][c] \in ProgramStages
  /\ MayFail(p, c)
  /\ RestoreShares(p, c)
  /\ PartyStep

\* A party dies with its programs: no handler of it answers or rolls back, and
\* the file stays as it was last written.
Alive == {"sent", "prepared"} \cup ProgramStages
PartyCrashes(p) ==
  /\ \E c \in Clients : handler[p][c] \in Alive
  /\ Fault("lost", MaxLost)
  /\ handler' = [handler EXCEPT ![p] =
       [c \in Clients |-> IF @[c] \in Alive THEN "dead" ELSE @[c]]]
  /\ backup' = [backup EXCEPT ![p] = [c \in Clients |-> None]]
  /\ memory' = [memory EXCEPT ![p] = [c \in Clients |-> None]]
  /\ PartyStep /\ UNCHANGED shares

-----------------------------------------------------------------------------
ShareInit ==
  /\ LeaseInit
  /\ key = [c \in Clients |-> 0]
  /\ request = [c \in Clients |-> "none"]
  /\ client = [c \in Clients |-> "idle"]
  /\ told = {}
  /\ lock = <<>>
  /\ index = [c \in Clients |-> 0]
  /\ db = <<>>
  /\ proofs = NoShares
  /\ handler = [p \in Parties |-> [c \in Clients |-> "none"]]
  /\ backup = [p \in Parties |-> [c \in Clients |-> None]]
  /\ memory = [p \in Parties |-> [c \in Clients |-> None]]
  /\ shares = [p \in Parties |-> None]
  /\ faults = [kind \in {"eviction", "fault", "lost", "db"} |-> 0]

ClientStep(c) == GetTurn(c) \/ ReceiveOutputs(c) \/ ClientFails(c) \/ MarkFinished(c)

ServerStep(c) == \/ Request(c) \/ Refuse(c) \/ AskForLock(c)
                 \/ StartTask(c) \/ CountFails(c)
                 \/ Record(c) \/ CommitFails(c) \/ GiveUp(c) \/ PostFails(c)

HandlerStep(p, c) == \/ Backup(p, c) \/ PrepareFails(p, c) \/ Run(p, c)
                     \/ Write(p, c) \/ Answer(p, c) \/ Rollback(p, c)

MpcStep(c) == Input(c) \/ Reveal(c)

ShareNext == \/ \E c \in Clients : \/ ClientStep(c) \/ ServerStep(c) \/ MpcStep(c)
                                   \/ \E p \in Parties : HandlerStep(p, c)
             \/ TurnTimesOut
             \/ ServerRestarts
             \/ \E p \in Parties : PartyCrashes(p)

\* Every process that can go on without a failure does so: the event loop, the
\* threads of the parties, the programs they run and the clients.  No failure,
\* eviction or restart is forced.
Sound(step) == step /\ faults' = faults
Fairness == \A c \in Clients : /\ WF_shareVars(Sound(ClientStep(c)))
                               /\ WF_shareVars(Sound(ServerStep(c)))
                               /\ WF_shareVars(Sound(MpcStep(c)))
                               /\ \A p \in Parties : WF_shareVars(Sound(HandlerStep(p, c)))

ShareSpec == ShareInit /\ [][ShareNext]_shareVars /\ Fairness

-----------------------------------------------------------------------------
(***************************************************************************)
(* Properties.                                                             *)
(***************************************************************************)

\* Every row of the database stands for a share that all parties hold, at the
\* index which is the number of the row: what query_computation computes over
\* the first num_data_providers entries is what was recorded.  No failure of a
\* later session, in whatever order its parties fail, may change that.
RecordedSharesPresent ==
  \A i \in DOMAIN db : \A p \in Parties : shares[p] # None /\ shares[p][i] = db[i]

\* A session that failed at every party leaves no trace of its secret in any
\* file of shares.
FailedLeavesNoTrace ==
  \A c \in Clients :
    (\A p \in Parties : handler[p][c] = "failed") =>
       \A p \in Parties : shares[p] # None => \A i \in Indices : shares[p][i] # c

\* The proof that is kept for a row is that of its provider.
ProofsAgree == \A i \in DOMAIN db : proofs[i] = db[i]

\* Whoever waits for the lock gets it and comes to an end, and so does its
\* background task: no failure of a session stops those behind it.
RequestsEnd == \A c \in Clients : request[c] = "queued" ~> request[c] = "ended"

\* The lock keeps sharing requests apart, the work of the parties included.
Working(c) == \E p \in Parties : handler[p][c] \in ProgramStages \cup {"prepared"}
OneSessionAtATime == \A c, d \in Clients : Working(c) /\ Working(d) => c = d

\* An account contributes once.
OneContributionPerUid == \A i, j \in DOMAIN db : Uid(db[i]) = Uid(db[j]) => i = j

\* A request that has ended does not hold the lock.
EndedMeansReleased == \A i \in DOMAIN lock : request[lock[i]] # "ended"
=============================================================================
