---------------------------- MODULE ShareProofs ----------------------------
(***************************************************************************)
(* Proofs about ShareData for any clients, parties, accounts and bounds.   *)
(*                                                                         *)
(* What the coordination server does alone, with its lock, its rows and    *)
(* its proofs, is right whatever is lost.                                  *)
(***************************************************************************)
EXTENDS QueryData, ShareSerial, SequenceTheorems, FiniteSetTheorems, FunctionTheorems,
        TLAPS

Kinds == {"eviction", "fault", "lost", "db"}

\* The state has its type, and a program that runs has its memory.
TypeInv == /\ ShareTypeOK
           /\ granted \in Nat
           /\ faults \in [Kinds -> Nat]
           /\ \A p \in Parties, c \in Clients :
                handler[p][c] \in ProgramStages => memory[p][c] # None

-----------------------------------------------------------------------------
\* The lock: no client is in it twice, whoever waits for it or has created its
\* task is in it, and the latter at the head.
LockInv ==
  /\ \A i, j \in DOMAIN lock : lock[i] = lock[j] => i = j
  /\ \A i \in DOMAIN lock : request[lock[i]] \in {"queued", "posting", "ended"}
  /\ \A c \in Clients : request[c] = "queued" => \E i \in DOMAIN lock : lock[i] = c
  /\ \A c \in Clients : request[c] = "posting" => lock # <<>> /\ lock[1] = c

\* The rows: they are of different clients, whose requests have ended.  The
\* session that is open has the index of the next row.
RowsInv ==
  /\ \A i, j \in DOMAIN db : db[i] = db[j] => i = j
  /\ \A i \in DOMAIN db : request[db[i]] = "ended"
  /\ \A c \in Clients : request[c] = "posting" => index[c] = Len(db) + 1

ServerInv == LockInv /\ RowsInv /\ ProofsAgree

IInv == TypeInv /\ ServerInv

-----------------------------------------------------------------------------
(***************************************************************************)
(* The state has its type.                                                 *)
(***************************************************************************)

\* Sequences as functions.
LEMMA SeqFacts ==
  ASSUME TypeInv
  PROVE  /\ Len(lock) \in Nat /\ DOMAIN lock = 1 .. Len(lock)
         /\ lock \in [1 .. Len(lock) -> Clients]
         /\ lock = <<>> <=> Len(lock) = 0
         /\ Len(db) \in Nat /\ DOMAIN db = 1 .. Len(db)
         /\ db \in [1 .. Len(db) -> Clients]
         /\ db = <<>> <=> Len(db) = 0
<1>1. lock \in Seq(Clients) /\ db \in Seq(Clients)
  BY DEF TypeInv, ShareTypeOK
<1> QED BY <1>1, LenProperties, EmptySeq

\* One entry of a list of shares is set.
LEMMA EntrySet ==
  ASSUME NEW v \in Values, NEW i, NEW c \in Clients
  PROVE  /\ [v EXCEPT ![i] = c] \in Values
         /\ [v EXCEPT ![i] = c] # None
         /\ \A j \in Indices : [v EXCEPT ![i] = c][j] = IF j = i THEN c ELSE v[j]
<1>1. v \in [Indices -> Clients \cup {None}]
  BY DEF Values
<1>2. [v EXCEPT ![i] = c] \in [Indices -> Clients \cup {None}]
  BY <1>1
<1>3. None \notin Values
  BY ShareAssumption DEF Values, Indices
<1> QED BY <1>1, <1>2, <1>3 DEF Values

\* As the rows are of different clients, there is an index for one more.
LEMMA RoomForOne ==
  ASSUME IInv, NEW c \in Clients, request[c] # "ended"
  PROVE  Len(db) + 1 \in Indices /\ 1 .. Len(db) + 1 \subseteq Indices
<1>1. /\ Len(db) \in Nat /\ DOMAIN db = 1 .. Len(db)
      /\ db \in [1 .. Len(db) -> Clients]
  BY SeqFacts DEF IInv
<1>2. IsFiniteSet(Clients \ {c}) /\ Cardinality(Clients \ {c}) = Cardinality(Clients) - 1
  BY FS_RemoveElement, ShareAssumption
<1>3. db \in [1 .. Len(db) -> Clients \ {c}]
  BY <1>1 DEF IInv, ServerInv, RowsInv
<1>4. db \in Injection(1 .. Len(db), Clients \ {c})
  BY <1>1, <1>3 DEF IInv, ServerInv, RowsInv, Injection, IsInjective
<1>5. Cardinality(1 .. Len(db)) = Len(db)
  BY <1>1, FS_Interval
<1>6. Cardinality(1 .. Len(db)) <= Cardinality(Clients \ {c})
  BY <1>2, <1>4, FS_Injection
<1>7. Cardinality(Clients) \in Nat
  BY ShareAssumption, FS_CardinalityType
<1> QED BY <1>1, <1>2, <1>5, <1>6, <1>7 DEF Indices

LEMMA InitType == ShareInit => TypeInv
BY EmptySeq DEF ShareInit, LeaseInit, TypeInv, ShareTypeOK, ProgramStages, Values, NoShares, Kinds

LEMMA ClientStepType ==
  ASSUME IInv, NEW c \in Clients, ClientStep(c)
  PROVE  TypeInv'
<1> USE DEF IInv, TypeInv, ShareTypeOK, ProgramStages, SetClient, SetRequest, coordVars, partyVars, Fault, Kinds
<1>1. CASE GetTurn(c)
  BY <1>1, ShareAssumption DEF GetTurn, Grant
<1>2. CASE ReceiveOutputs(c)
  BY <1>2 DEF ReceiveOutputs
<1>3. CASE ClientFails(c)
  BY <1>3 DEF ClientFails
<1>4. CASE MarkFinished(c)
  BY <1>4 DEF MarkFinished, End
<1> QED BY <1>1, <1>2, <1>3, <1>4 DEF ClientStep

LEMMA ServerStepType ==
  ASSUME IInv, NEW c \in Clients, ServerStep(c)
  PROVE  TypeInv'
<1>0. lock \in Seq(Clients) /\ db \in Seq(Clients)
  BY DEF IInv, TypeInv, ShareTypeOK
<1>a. /\ Append(lock, c) \in Seq(Clients) /\ Append(db, c) \in Seq(Clients)
      /\ request[c] = "posting" => Tail(lock) \in Seq(Clients)
  BY <1>0, AppendProperties, HeadTailProperties DEF IInv, ServerInv, LockInv
<1>b. request[c] # "ended" => Len(db) + 1 \in Indices
  BY RoomForOne
<1>c. request[c] = "posting" => index[c] \in Indices
  BY <1>b DEF IInv, ServerInv, RowsInv
<1> USE DEF IInv, TypeInv, ShareTypeOK, ProgramStages, SetClient, SetRequest, coordVars, partyVars, Fault,
            Respond, Kinds
<1>1. CASE Request(c)
  BY <1>1 DEF Request
<1>2. CASE Refuse(c)
  <2>1. faults' \in [Kinds -> Nat]
    BY <1>2 DEF Refuse
  <2>2. request' = [request EXCEPT ![c] = "ended"]
          /\ client' \in {client, [client EXCEPT ![c] = "finishing"]}
          /\ UNCHANGED <<turn, granted, key, told, lock, index, db, proofs, partyVars>>
    BY <1>2 DEF Refuse
  <2> HIDE DEF Fault, Respond, SetClient, SetRequest
  <2> QED BY <2>1, <2>2
<1>3. CASE AskForLock(c)
  BY <1>3, <1>a DEF AskForLock
<1>4. CASE StartTask(c)
  BY <1>4, <1>b DEF StartTask
<1>5. CASE CountFails(c)
  <2>1. faults' \in [Kinds -> Nat]
    BY <1>5 DEF CountFails
  <2>2. request' = [request EXCEPT ![c] = "ended"]
          /\ client' \in {client, [client EXCEPT ![c] = "finishing"]}
          /\ UNCHANGED <<turn, granted, key, told, lock, index, db, proofs, partyVars>>
    BY <1>5 DEF CountFails
  <2> HIDE DEF Fault, Respond, SetClient, SetRequest
  <2> QED BY <2>1, <2>2
<1>6. CASE Record(c)
  BY <1>6, <1>a, <1>c DEF Record, Values
<1>7. CASE CommitFails(c)
  BY <1>7, <1>a, <1>c DEF CommitFails, Values
<1>8. CASE GiveUp(c)
  BY <1>8, <1>a DEF GiveUp
<1>9. CASE PostFails(c)
  BY <1>9, <1>a DEF PostFails
<1> QED BY <1>1, <1>2, <1>3, <1>4, <1>5, <1>6, <1>7, <1>8, <1>9 DEF ServerStep

LEMMA MpcStepType ==
  ASSUME IInv, NEW c \in Clients, MpcStep(c)
  PROVE  TypeInv'
<1>1. CASE Input(c)
  <2> DEFINE given(p) == [memory[p][c] EXCEPT ![index[c]] = c]
  <2>1. /\ memory \in [Parties -> [Clients -> Values \cup {None}]]
        /\ \A p \in Parties : memory[p][c] \in Values
    BY <1>1 DEF Input, IInv, TypeInv, ShareTypeOK, ProgramStages
  <2>2. \A p \in Parties : given(p) \in Values /\ given(p) # None
    BY <2>1, EntrySet
  <2>3. memory' = [p \in Parties |-> [memory[p] EXCEPT ![c] = given(p)]]
    BY <1>1, <2>1 DEF Input
  <2> HIDE DEF given
  <2>4. /\ memory' \in [Parties -> [Clients -> Values \cup {None}]]
        /\ \A p \in Parties, d \in Clients :
             memory'[p][d] = IF d = c THEN given(p) ELSE memory[p][d]
    BY <2>1, <2>2, <2>3
  <2>5. handler' \in [Parties -> [Clients -> {"none", "sent", "prepared", "running", "input",
                                             "written", "revealed", "ok", "failed", "dead"}]]
          /\ \A p \in Parties, d \in Clients : d # c => handler'[p][d] = handler[p][d]
    BY <1>1 DEF Input, IInv, TypeInv, ShareTypeOK
  <2>6. \A p \in Parties, d \in Clients :
          handler'[p][d] \in ProgramStages => memory'[p][d] # None
    BY <2>2, <2>4, <2>5 DEF IInv, TypeInv
  <2> QED BY <1>1, <2>4, <2>5, <2>6 DEF Input, IInv, TypeInv, ShareTypeOK, SetClient, coordVars
<1>2. CASE Reveal(c)
  BY <1>2 DEF Reveal, IInv, TypeInv, ShareTypeOK, ProgramStages, SetClient, coordVars
<1> QED BY <1>1, <1>2 DEF MpcStep

\* Restoring a backup, whatever the reason.
LEMMA RestoreType ==
  ASSUME IInv, NEW p \in Parties, NEW c \in Clients,
         RestoreShares(p, c), PartyStep, faults' \in [Kinds -> Nat]
  PROVE  TypeInv'
BY DEF IInv, TypeInv, ShareTypeOK, ProgramStages, RestoreShares, SetHandler, PartyStep, coordVars

LEMMA HandlerStepType ==
  ASSUME IInv, NEW p \in Parties, NEW c \in Clients, HandlerStep(p, c)
  PROVE  TypeInv'
<1> USE DEF IInv, TypeInv, ShareTypeOK, ProgramStages, SetHandler, PartyStep, coordVars, Fault, Kinds
<1>1. CASE Backup(p, c)
  BY <1>1 DEF Backup, BackupOf
<1>2. CASE PrepareFails(p, c)
  BY <1>2 DEF PrepareFails
<1>3. CASE Run(p, c)
  BY <1>3, ShareAssumption DEF Run, Loaded, NoShares, Values, Indices
<1>4. CASE Write(p, c)
  BY <1>4 DEF Write
<1>5. CASE Answer(p, c)
  BY <1>5 DEF Answer
<1>6. CASE Rollback(p, c)
  <2>1. faults' \in [Kinds -> Nat]
    BY <1>6 DEF Rollback, MayFail
  <2> QED BY <1>6, <2>1, RestoreType DEF Rollback
<1> QED BY <1>1, <1>2, <1>3, <1>4, <1>5, <1>6 DEF HandlerStep

LEMMA StepType ==
  ASSUME IInv, [ShareNext]_shareVars
  PROVE  TypeInv'
<1> USE DEF IInv, TypeInv, ShareTypeOK, ProgramStages, coordVars, partyVars, Fault, Kinds
<1>1. CASE TurnTimesOut
  BY <1>1 DEF TurnTimesOut, End
<1>2. CASE ServerRestarts
  BY <1>2, EmptySeq DEF ServerRestarts, End
<1>3. ASSUME NEW p \in Parties, PartyCrashes(p) PROVE TypeInv'
  BY <1>3 DEF PartyCrashes, PartyStep, Alive, ProgramStages
<1>4. CASE UNCHANGED shareVars
  BY <1>4 DEF shareVars
<1> QED BY <1>1, <1>2, <1>3, <1>4, ClientStepType, ServerStepType, MpcStepType, HandlerStepType
        DEF ShareNext

-----------------------------------------------------------------------------
(***************************************************************************)
(* The coordination server: lock, rows and proofs.                         *)
(***************************************************************************)

\* Whoever has the task that is posting is at the head of the lock, so that
\* there is one such task at most.
LEMMA OneTask ==
  ASSUME IInv, NEW c \in Clients, request[c] = "posting"
  PROVE  /\ lock # <<>> /\ lock[1] = c /\ 1 \in DOMAIN lock
         /\ \A d \in Clients : request[d] = "posting" => d = c
         /\ \A i \in DOMAIN lock : lock[i] = c => i = 1
<1>1. lock # <<>> /\ lock[1] = c /\ 1 \in DOMAIN lock
  BY SeqFacts DEF IInv, ServerInv, LockInv
<1> QED BY <1>1 DEF IInv, ServerInv, LockInv

\* A step that leaves alone whatever concerns the lock, the rows and the proofs.
LEMMA ServerUnchanged ==
  ASSUME IInv, UNCHANGED <<request, lock, index, db, proofs>>
  PROVE  ServerInv'
BY DEF IInv, ServerInv, LockInv, RowsInv, ProofsAgree

\* A request that has not asked for the lock yet.
LEMMA BeforeLock ==
  ASSUME IInv, NEW c \in Clients, request[c] \in {"none", "ready", "verifying"},
         NEW s \in {"ready", "verifying", "ended"}, request' = [request EXCEPT ![c] = s],
         UNCHANGED <<lock, index, db, proofs>>
  PROVE  ServerInv'
<1>1. /\ \A d \in Clients : request'[d] = IF d = c THEN s ELSE request[d]
      /\ lock \in [DOMAIN lock -> Clients] /\ db \in [DOMAIN db -> Clients]
  BY SeqFacts DEF IInv, TypeInv, ShareTypeOK
<1>2. \A i \in DOMAIN lock : lock[i] # c
  BY DEF IInv, ServerInv, LockInv
<1> QED BY <1>1, <1>2 DEF IInv, ServerInv, LockInv, RowsInv, ProofsAgree

\* The head of the lock goes on, or ends without having released the lock.
LEMMA AtLock ==
  ASSUME IInv, NEW c \in Clients, request[c] = "queued", Head(lock) = c, lock # <<>>,
         NEW s \in {"posting", "ended"}, request' = [request EXCEPT ![c] = s],
         UNCHANGED <<lock, db, proofs>>,
         \A d \in Clients : request'[d] = "posting" =>
           index'[d] = IF d = c THEN Len(db) + 1 ELSE index[d]
  PROVE  ServerInv'
<1>1. /\ \A d \in Clients : request'[d] = IF d = c THEN s ELSE request[d]
      /\ lock \in [DOMAIN lock -> Clients] /\ db \in [DOMAIN db -> Clients]
      /\ lock[1] = c /\ 1 \in DOMAIN lock
  BY SeqFacts DEF IInv, TypeInv, ShareTypeOK
<1>2. LockInv'
  BY <1>1 DEF IInv, ServerInv, LockInv
<1>3. RowsInv'
  BY <1>1 DEF IInv, ServerInv, RowsInv
<1> QED BY <1>2, <1>3 DEF IInv, ServerInv, ProofsAgree

\* The task of c ends and releases the lock.
LEMMA LockReleased ==
  ASSUME IInv, NEW c \in Clients, request[c] = "posting",
         lock' = Tail(lock), request' = [request EXCEPT ![c] = "ended"]
  PROVE  LockInv'
<1>1. /\ \A d \in Clients : request'[d] = IF d = c THEN "ended" ELSE request[d]
      /\ lock \in Seq(Clients) /\ lock # <<>>
  BY OneTask DEF IInv, TypeInv, ShareTypeOK
<1>2. /\ Len(lock') = Len(lock) - 1 /\ lock' \in Seq(Clients)
      /\ \A i \in 1 .. Len(lock') : lock'[i] = lock[i + 1]
  BY <1>1, HeadTailProperties
<1>3. DOMAIN lock = 1 .. Len(lock) /\ Len(lock) \in Nat /\ DOMAIN lock' = 1 .. Len(lock')
  BY <1>1, <1>2, LenProperties
<1>4. \A i \in DOMAIN lock' : i + 1 \in DOMAIN lock /\ lock'[i] = lock[i + 1] /\ lock'[i] # c
  BY <1>2, <1>3, OneTask
<1>5. \A i, j \in DOMAIN lock' : lock'[i] = lock'[j] => i = j
  BY <1>3, <1>4 DEF IInv, ServerInv, LockInv
<1>6. \A i \in DOMAIN lock' : request'[lock'[i]] \in {"queued", "posting", "ended"}
  BY <1>1, <1>2, <1>3, <1>4, ElementOfSeq DEF IInv, ServerInv, LockInv
<1>7. ASSUME NEW d \in Clients, request'[d] = "queued"
      PROVE  \E i \in DOMAIN lock' : lock'[i] = d
  <2>1. d # c /\ request[d] = "queued"
    BY <1>1, <1>7
  <2>2. PICK i \in DOMAIN lock : lock[i] = d
    BY <2>1 DEF IInv, ServerInv, LockInv
  <2>3. i # 1
    BY <2>1, <2>2, OneTask
  <2>4. i - 1 \in DOMAIN lock' /\ lock'[i - 1] = lock[(i - 1) + 1] /\ (i - 1) + 1 = i
    BY <1>2, <1>3, <2>2, <2>3
  <2> QED BY <2>2, <2>4
<1>8. \A d \in Clients : request'[d] # "posting"
  BY <1>1, OneTask
<1> QED BY <1>5, <1>6, <1>7, <1>8 DEF LockInv

\* It ends without a row, after it may have written the proof.
LEMMA EndsWithoutRow ==
  ASSUME IInv, NEW c \in Clients, request[c] = "posting",
         lock' = Tail(lock), request' = [request EXCEPT ![c] = "ended"],
         UNCHANGED <<index, db>>,
         proofs' \in {proofs, [proofs EXCEPT ![index[c]] = c]}
  PROVE  ServerInv'
<1>1. \A d \in Clients : request'[d] = IF d = c THEN "ended" ELSE request[d]
  BY DEF IInv, TypeInv, ShareTypeOK
<1>2. /\ Len(db) \in Nat /\ DOMAIN db = 1 .. Len(db) /\ db \in [DOMAIN db -> Clients]
      /\ index[c] = Len(db) + 1 /\ DOMAIN db \subseteq Indices
  BY SeqFacts, RoomForOne DEF IInv, ServerInv, RowsInv
<1>3. RowsInv'
  BY <1>1, <1>2, OneTask DEF IInv, ServerInv, RowsInv
<1>4. ProofsAgree'
  <2>1. \A i \in DOMAIN db : proofs'[i] = proofs[i]
    BY <1>2 DEF IInv, TypeInv, ShareTypeOK, Values
  <2> QED BY <2>1 DEF IInv, ServerInv, ProofsAgree
<1> QED BY <1>3, <1>4, LockReleased DEF ServerInv

\* It ends with a row.
LEMMA EndsWithRow ==
  ASSUME IInv, NEW c \in Clients, Record(c)
  PROVE  ServerInv'
<1>1. /\ request[c] = "posting" /\ lock' = Tail(lock) /\ UNCHANGED index
      /\ request' = [request EXCEPT ![c] = "ended"]
      /\ \A d \in Clients : request'[d] = IF d = c THEN "ended" ELSE request[d]
  BY DEF Record, SetRequest, IInv, TypeInv, ShareTypeOK
<1>2. /\ Len(db) \in Nat /\ DOMAIN db = 1 .. Len(db) /\ db \in [DOMAIN db -> Clients]
      /\ index[c] = Len(db) + 1 /\ 1 .. Len(db) + 1 \subseteq Indices
  BY <1>1, SeqFacts, RoomForOne DEF IInv, ServerInv, RowsInv
<1>3. /\ DOMAIN db' = 1 .. Len(db) + 1
      /\ \A i \in DOMAIN db' : db'[i] = IF i = Len(db) + 1 THEN c ELSE db[i]
  <2>1. db \in Seq(Clients) /\ db' = Append(db, c)
    BY DEF Record, IInv, TypeInv, ShareTypeOK
  <2>2. db' \in Seq(Clients) /\ Len(db') = Len(db) + 1
          /\ (\A i \in 1 .. Len(db) : db'[i] = db[i]) /\ db'[Len(db) + 1] = c
    BY <2>1, AppendProperties
  <2> QED BY <1>2, <2>2, LenProperties
<1>4. \A i \in DOMAIN db : db[i] # c
  BY <1>1 DEF IInv, ServerInv, RowsInv
<1>5. RowsInv'
  <2>1. \A i, j \in DOMAIN db' : db'[i] = db'[j] => i = j
    BY <1>2, <1>3, <1>4 DEF IInv, ServerInv, RowsInv
  <2>2. \A i \in DOMAIN db' : request'[db'[i]] = "ended"
    BY <1>1, <1>2, <1>3 DEF IInv, ServerInv, RowsInv
  <2>3. \A d \in Clients : request'[d] # "posting"
    BY <1>1, OneTask
  <2> QED BY <2>1, <2>2, <2>3 DEF RowsInv
<1>6. ProofsAgree'
  <2>1. \A i \in Indices : proofs'[i] = IF i = Len(db) + 1 THEN c ELSE proofs[i]
    BY <1>2 DEF Record, IInv, TypeInv, ShareTypeOK, Values
  <2>2. DOMAIN db' \subseteq Indices
    BY <1>2, <1>3
  <2> QED BY <1>2, <1>3, <2>1, <2>2 DEF IInv, ServerInv, ProofsAgree
<1> QED BY <1>1, <1>5, <1>6, LockReleased DEF ServerInv

LEMMA LockAppended ==
  ASSUME TypeInv, NEW c \in Clients, lock' = Append(lock, c)
  PROVE  /\ DOMAIN lock' = 1 .. Len(lock) + 1
         /\ \A i \in DOMAIN lock' : lock'[i] = IF i = Len(lock) + 1 THEN c ELSE lock[i]
         /\ lock' # <<>>
<1>1. lock \in Seq(Clients) /\ Len(lock) \in Nat
  BY SeqFacts DEF TypeInv, ShareTypeOK
<1>2. /\ lock' \in Seq(Clients) /\ Len(lock') = Len(lock) + 1
      /\ (\A i \in 1 .. Len(lock) : lock'[i] = lock[i]) /\ lock'[Len(lock) + 1] = c
  BY <1>1, AppendProperties
<1> QED BY <1>1, <1>2, LenProperties, EmptySeq

LEMMA AskForLockServer ==
  ASSUME IInv, NEW c \in Clients, AskForLock(c)
  PROVE  ServerInv'
<1>1. /\ request[c] = "verifying" /\ UNCHANGED <<index, db, proofs>>
      /\ \A d \in Clients : request'[d] = IF d = c THEN "queued" ELSE request[d]
  BY DEF AskForLock, SetRequest, IInv, TypeInv, ShareTypeOK
<1>2. /\ Len(lock) \in Nat /\ DOMAIN lock = 1 .. Len(lock) /\ lock \in [DOMAIN lock -> Clients]
      /\ db \in [DOMAIN db -> Clients]
      /\ lock # <<>> => 1 \in DOMAIN lock
  BY SeqFacts DEF IInv
<1>3. /\ DOMAIN lock' = 1 .. Len(lock) + 1
      /\ \A i \in DOMAIN lock' : lock'[i] = IF i = Len(lock) + 1 THEN c ELSE lock[i]
      /\ lock' # <<>>
  BY LockAppended DEF AskForLock, IInv
<1>4. \A i \in DOMAIN lock : lock[i] # c
  BY <1>1 DEF IInv, ServerInv, LockInv
<1>5. \A i, j \in DOMAIN lock' : lock'[i] = lock'[j] => i = j
  BY <1>2, <1>3, <1>4 DEF IInv, ServerInv, LockInv
<1>6. \A i \in DOMAIN lock' : request'[lock'[i]] \in {"queued", "posting", "ended"}
  BY <1>1, <1>2, <1>3, <1>4 DEF IInv, ServerInv, LockInv
<1>7. \A d \in Clients : request'[d] = "queued" => \E i \in DOMAIN lock' : lock'[i] = d
  <2> SUFFICES ASSUME NEW d \in Clients, request'[d] = "queued"
               PROVE  \E i \in DOMAIN lock' : lock'[i] = d
    OBVIOUS
  <2>1. CASE d = c
    BY <1>2, <1>3, <2>1
  <2>2. CASE d # c
    <3>1. PICK i \in DOMAIN lock : lock[i] = d
      BY <1>1, <2>2 DEF IInv, ServerInv, LockInv
    <3> QED BY <1>2, <1>3, <3>1
  <2> QED BY <2>1, <2>2
<1>8. \A d \in Clients : request'[d] = "posting" => lock' # <<>> /\ lock'[1] = d
  BY <1>1, <1>2, <1>3 DEF IInv, ServerInv, LockInv
<1>9. RowsInv'
  BY <1>1, <1>2 DEF IInv, ServerInv, RowsInv
<1> QED BY <1>1, <1>5, <1>6, <1>7, <1>8, <1>9 DEF IInv, ServerInv, LockInv, ProofsAgree

LEMMA RestartServer ==
  ASSUME IInv, ServerRestarts
  PROVE  ServerInv'
<1>1. /\ lock' = <<>> /\ UNCHANGED <<index, db, proofs>>
      /\ \A d \in Clients : request'[d] = IF request[d] \in {"verifying", "queued", "posting"}
                                          THEN "ended" ELSE request[d]
  BY DEF ServerRestarts, IInv, TypeInv, ShareTypeOK
<1>2. db \in [DOMAIN db -> Clients]
  BY SeqFacts DEF IInv
<1> QED BY <1>1, <1>2 DEF IInv, ServerInv, LockInv, RowsInv, ProofsAgree

LEMMA StepServer ==
  ASSUME IInv, [ShareNext]_shareVars
  PROVE  ServerInv'
<1>1. ASSUME NEW c \in Clients, ClientStep(c) PROVE ServerInv'
  <2>1. CASE GetTurn(c)
    BY <2>1, BeforeLock DEF GetTurn, SetRequest
  <2>2. CASE ReceiveOutputs(c) \/ ClientFails(c) \/ MarkFinished(c)
    BY <2>2, ServerUnchanged DEF ReceiveOutputs, ClientFails, MarkFinished, coordVars
  <2> QED BY <1>1, <2>1, <2>2 DEF ClientStep
<1>2. ASSUME NEW c \in Clients, ServerStep(c) PROVE ServerInv'
  <2>0. request[c] = "queued" => lock # <<>>
    BY SeqFacts DEF IInv, ServerInv, LockInv
  <2>1. CASE Request(c)
    BY <2>1, BeforeLock DEF Request, SetRequest
  <2>2. CASE Refuse(c)
    BY <2>2, BeforeLock DEF Refuse, SetRequest
  <2>3. CASE AskForLock(c)
    BY <2>3, AskForLockServer
  <2>4. CASE StartTask(c)
    <3>1. \A d \in Clients : index'[d] = IF d = c THEN Len(db) + 1 ELSE index[d]
      BY <2>4 DEF StartTask, IInv, TypeInv, ShareTypeOK
    <3> QED BY <2>0, <2>4, <3>1, AtLock DEF StartTask, SetRequest
  <2>5. CASE CountFails(c)
    <3>1. \A d \in Clients : request'[d] = "posting" => d # c
      BY <2>5 DEF CountFails, SetRequest, IInv, TypeInv, ShareTypeOK
    <3> QED BY <2>0, <2>5, <3>1, AtLock DEF CountFails, SetRequest
  <2>6. CASE Record(c)
    BY <2>6, EndsWithRow
  <2>7. CASE CommitFails(c)
    BY <2>7, EndsWithoutRow DEF CommitFails, SetRequest
  <2>8. CASE GiveUp(c)
    BY <2>8, EndsWithoutRow DEF GiveUp, SetRequest
  <2>9. CASE PostFails(c)
    BY <2>9, EndsWithoutRow DEF PostFails, SetRequest
  <2> QED BY <1>2, <2>1, <2>2, <2>3, <2>4, <2>5, <2>6, <2>7, <2>8, <2>9 DEF ServerStep
<1>3. ASSUME NEW c \in Clients, MpcStep(c) PROVE ServerInv'
  BY <1>3, ServerUnchanged DEF MpcStep, Input, Reveal, coordVars
<1>4. ASSUME NEW p \in Parties, NEW c \in Clients, HandlerStep(p, c) PROVE ServerInv'
  BY <1>4, ServerUnchanged DEF HandlerStep, Backup, PrepareFails, Run, Write, Answer, Rollback,
                               PartyStep, coordVars
<1>5. CASE TurnTimesOut
  BY <1>5, ServerUnchanged DEF TurnTimesOut, coordVars
<1>6. CASE ServerRestarts
  BY <1>6, RestartServer
<1>7. ASSUME NEW p \in Parties, PartyCrashes(p) PROVE ServerInv'
  BY <1>7, ServerUnchanged DEF PartyCrashes, PartyStep, coordVars
<1>8. CASE UNCHANGED shareVars
  BY <1>8, ServerUnchanged DEF shareVars
<1> QED BY <1>1, <1>2, <1>3, <1>4, <1>5, <1>6, <1>7, <1>8 DEF ShareNext

LEMMA InitServer == ShareInit => ServerInv
BY EmptySeq DEF ShareInit, ServerInv, LockInv, RowsInv, ProofsAgree

LEMMA Always == ShareSpec => []IInv
<1>1. ShareInit => IInv
  BY InitType, InitServer DEF IInv
<1>2. IInv /\ [ShareNext]_shareVars => IInv'
  BY StepType, StepServer DEF IInv
<1> QED BY <1>1, <1>2, PTL DEF ShareSpec

\* The variables have the values they are meant to have, whatever is lost.
THEOREM ShareTypeCorrect == ShareSpec => []ShareTypeOK
<1>1. IInv => ShareTypeOK
  BY DEF IInv, TypeInv
<1> QED BY <1>1, Always, PTL

\* The proof kept for a row is that of its provider, whatever is lost, dies or
\* fails, the insertion of a row after its proof was written included.
THEOREM ProofsCorrect == ShareSpec => []ProofsAgree
<1>1. IInv => ProofsAgree
  BY DEF IInv, ServerInv
<1> QED BY <1>1, Always, PTL

LEMMA StepReleases ==
  ASSUME MaxDbErrors = 0, IInv, EndedMeansReleased, [ShareNext]_shareVars
  PROVE  EndedMeansReleased'
<1> USE DEF EndedMeansReleased
<1>0. lock \in [DOMAIN lock -> Clients] /\ DOMAIN lock = 1 .. Len(lock)
  BY SeqFacts DEF IInv
<1>1. CASE UNCHANGED <<request, lock>>
  BY <1>1
<1>2. ASSUME NEW c \in Clients, request[c] \in {"none", "ready", "verifying"},
             NEW s \in {"ready", "verifying", "ended"},
             request' = [request EXCEPT ![c] = s], UNCHANGED lock
      PROVE  EndedMeansReleased'
  <2>1. \A i \in DOMAIN lock : lock[i] # c
    BY <1>2 DEF IInv, ServerInv, LockInv
  <2> QED BY <1>0, <1>2, <2>1 DEF IInv, TypeInv, ShareTypeOK
<1>3. ASSUME NEW c \in Clients, AskForLock(c) PROVE EndedMeansReleased'
  <2>1. /\ DOMAIN lock' = 1 .. Len(lock) + 1 /\ Len(lock) \in Nat
        /\ \A i \in DOMAIN lock' : lock'[i] = IF i = Len(lock) + 1 THEN c ELSE lock[i]
    BY <1>3, LockAppended, SeqFacts DEF AskForLock, IInv
  <2>2. \A d \in Clients : request'[d] = IF d = c THEN "queued" ELSE request[d]
    BY <1>3 DEF AskForLock, SetRequest, IInv, TypeInv, ShareTypeOK
  <2>3. SUFFICES ASSUME NEW i \in DOMAIN lock' PROVE request'[lock'[i]] # "ended"
    OBVIOUS
  <2>4. CASE i = Len(lock) + 1
    BY <2>1, <2>2, <2>4
  <2>5. CASE i # Len(lock) + 1
    <3>1. i \in 1 .. Len(lock) /\ lock'[i] = lock[i]
      BY <2>1, <2>5
    <3> QED BY <1>0, <2>2, <3>1
  <2> QED BY <2>4, <2>5
<1>4. ASSUME NEW c \in Clients, StartTask(c) PROVE EndedMeansReleased'
  BY <1>0, <1>4 DEF StartTask, SetRequest, IInv, TypeInv, ShareTypeOK
<1>5. ASSUME NEW c \in Clients, CountFails(c) PROVE FALSE
  BY <1>5 DEF CountFails, Fault, IInv, TypeInv, Kinds
<1>6. ASSUME NEW c \in Clients, request[c] = "posting", lock' = Tail(lock),
             request' = [request EXCEPT ![c] = "ended"]
      PROVE  EndedMeansReleased'
  <2>1. lock \in Seq(Clients) /\ lock # <<>>
    BY <1>6, OneTask DEF IInv, TypeInv, ShareTypeOK
  <2>2. \A i \in DOMAIN lock' : i + 1 \in DOMAIN lock /\ lock'[i] = lock[i + 1] /\ i + 1 # 1
    BY <1>6, <2>1, HeadTailProperties, LenProperties
  <2> QED BY <1>0, <1>6, <2>2, OneTask DEF IInv, TypeInv, ShareTypeOK
<1>7. CASE ServerRestarts
  BY <1>7 DEF ServerRestarts
<1>8. ASSUME NEW c \in Clients, ServerStep(c) PROVE EndedMeansReleased'
  BY <1>2, <1>3, <1>4, <1>5, <1>6, <1>8
     DEF ServerStep, Request, Refuse, Record, CommitFails, GiveUp, PostFails, SetRequest
<1>9. ASSUME NEW c \in Clients, ClientStep(c) PROVE EndedMeansReleased'
  BY <1>1, <1>2, <1>9
     DEF ClientStep, GetTurn, ReceiveOutputs, ClientFails, MarkFinished, SetRequest, coordVars
<1>10. ASSUME NEW c \in Clients, MpcStep(c) PROVE UNCHANGED <<request, lock>>
  BY <1>10 DEF MpcStep, Input, Reveal, coordVars
<1>11. ASSUME NEW p \in Parties, NEW c \in Clients, HandlerStep(p, c)
       PROVE  UNCHANGED <<request, lock>>
  BY <1>11 DEF HandlerStep, Backup, PrepareFails, Run, Write, Answer, Rollback, PartyStep,
               coordVars
<1>12. ASSUME NEW p \in Parties, TurnTimesOut \/ PartyCrashes(p) \/ UNCHANGED shareVars
       PROVE  UNCHANGED <<request, lock>>
  BY <1>12 DEF TurnTimesOut, PartyCrashes, PartyStep, coordVars, shareVars
<1> QED BY <1>1, <1>7, <1>8, <1>9, <1>10, <1>11, <1>12, ShareAssumption DEF ShareNext

\* A request that has ended does not hold the lock: only a failure of the
\* database between acquiring it and the try keeps it for good.
THEOREM ReleaseCorrect ==
  ASSUME MaxDbErrors = 0
  PROVE  ShareSpec => []EndedMeansReleased
<1>1. ShareInit => EndedMeansReleased
  BY DEF ShareInit, EndedMeansReleased
<1>2. IInv /\ EndedMeansReleased /\ [ShareNext]_shareVars => EndedMeansReleased'
  BY StepReleases
<1> QED BY <1>1, <1>2, Always, PTL DEF ShareSpec

-----------------------------------------------------------------------------
(***************************************************************************)
(* What the parties do, when no connection is lost and nothing dies        *)
(* (MaxLost = 0): they work for one client at a time and hold what was     *)
(* recorded, and a session that failed leaves no trace, in whatever order  *)
(* their handlers run and fail.                                            *)
(***************************************************************************)

\* A handler works only while the task of its client awaits it, and a client
\* that has gone was able to go because some handler was past its input.
Passed == {"input", "written", "revealed", "ok", "failed"}
SerialInv ==
  /\ \A p \in Parties, c \in Clients :
       /\ handler[p][c] # "dead"
       /\ handler[p][c] \in Alive => request[c] = "posting"
       /\ request[c] \in {"none", "ready", "verifying", "queued"} => handler[p][c] = "none"
  /\ \A c \in Clients :
       /\ request[c] \in {"verifying", "queued"} => client[c] = "calling"
       /\ client[c] \in {"sent", "answered", "finishing", "over"} /\ request[c] = "posting"
            => \E p \in Parties : handler[p][c] \in Passed

\* Shares that a party may fall back on: every row has its entry.
Agrees(v) == /\ v = None => db = <<>>
             /\ v # None => v \in Values /\ \A i \in DOMAIN db : v[i] = db[i]

\* The files agree with the rows, and so do the backups and the programs'
\* memories, in which the client of the open session has the next entry.
FilesInv ==
  \A p \in Parties :
    /\ Agrees(shares[p])
    /\ \A c \in Clients :
         /\ handler[p][c] \in ProgramStages \cup {"prepared"} => Agrees(backup[p][c])
         /\ handler[p][c] \in ProgramStages => memory[p][c] # None /\ Agrees(memory[p][c])
         /\ handler[p][c] \in {"input", "written", "revealed"} => memory[p][c][index[c]] = c
         /\ handler[p][c] \in {"written", "revealed", "ok"} /\ request[c] = "posting"
              => shares[p] # None /\ shares[p][index[c]] = c

\* Where a client's share is, its handler has not failed.
Holds(v, c) == v # None /\ \E i \in Indices : v[i] = c
TraceInv ==
  \A p \in Parties, c \in Clients :
    /\ Holds(shares[p], c) => handler[p][c] \in {"written", "revealed", "ok"}
    /\ \A d \in Clients :
         /\ Holds(backup[p][d], c) => handler[p][c] = "ok"
         /\ Holds(memory[p][d], c) =>
              handler[p][c] \in IF c = d THEN {"input", "written", "revealed"} ELSE {"ok"}

PartyInv == SerialInv /\ FilesInv /\ TraceInv

-----------------------------------------------------------------------------
(***************************************************************************)
(* The parties, when nothing is lost: one client at a time.                *)
(***************************************************************************)
LEMMA NothingLost ==
  ASSUME MaxLost = 0, TypeInv
  PROVE  ~Fault("lost", MaxLost)
BY DEF Fault, TypeInv, Kinds

\* A step of one handler that neither begins nor revives it.
LEMMA HandlerMoves ==
  ASSUME IInv, SerialInv, NEW p \in Parties, NEW c \in Clients,
         handler[p][c] \in Alive \cup {"ok", "failed"},
         NEW s \in Alive \cup {"ok", "failed"},
         handler[p][c] \in {"ok", "failed"} => s \in {"ok", "failed"},
         handler[p][c] \in Passed => s \in Passed,
         SetHandler(p, c, s), UNCHANGED <<request, client>>
  PROVE  SerialInv'
<1>1. \A q \in Parties, d \in Clients :
        handler'[q][d] = IF q = p /\ d = c THEN s ELSE handler[q][d]
  BY DEF SetHandler, IInv, TypeInv, ShareTypeOK
<1> QED BY <1>1 DEF SerialInv, Alive, ProgramStages, Passed

LEMMA ClientStepSerial ==
  ASSUME MaxLost = 0, IInv, SerialInv, NEW c \in Clients, ClientStep(c)
  PROVE  SerialInv'
<1>1. CASE GetTurn(c)
  <2>1. /\ request[c] = "none" /\ UNCHANGED <<client, handler>>
        /\ \A d \in Clients : request'[d] = IF d = c THEN "ready" ELSE request[d]
    BY <1>1 DEF GetTurn, SetRequest, IInv, TypeInv, ShareTypeOK, partyVars
  <2> QED BY <2>1 DEF SerialInv, Alive
<1>2. CASE ReceiveOutputs(c) \/ ClientFails(c) \/ MarkFinished(c)
  <2>1. /\ UNCHANGED <<request, handler>>
        /\ client[c] # "calling"
        /\ client[c] \in {"sent", "answered", "finishing"}
             \/ \E p \in Parties : handler[p][c] \in {"failed", "dead"}
    BY <1>2, NothingLost
       DEF ReceiveOutputs, ClientFails, MarkFinished, coordVars, partyVars, IInv
  <2>2. \A d \in Clients : d # c => client'[d] = client[d]
    BY <1>2 DEF ReceiveOutputs, ClientFails, MarkFinished, SetClient, IInv, TypeInv, ShareTypeOK
  <2> QED BY <2>1, <2>2 DEF SerialInv, Passed
<1> QED BY <1>1, <1>2 DEF ClientStep

LEMMA ServerStepSerial ==
  ASSUME MaxLost = 0, IInv, SerialInv, NEW c \in Clients, ServerStep(c)
  PROVE  SerialInv'
<1> USE DEF SetRequest, SetClient, Respond
<1>1. CASE Request(c)
  <2>1. /\ request[c] = "ready" /\ UNCHANGED handler
        /\ \A d \in Clients : d # c => request'[d] = request[d] /\ client'[d] = client[d]
        /\ request'[c] \in {"verifying", "ended"}
        /\ request'[c] = "verifying" => client'[c] = "calling"
    BY <1>1 DEF Request, IInv, TypeInv, ShareTypeOK, partyVars
  <2> QED BY <2>1 DEF SerialInv, Alive
<1>2. CASE Refuse(c) \/ CountFails(c)
  <2>1. /\ request[c] \in {"verifying", "queued"} /\ UNCHANGED handler
        /\ \A d \in Clients : d # c => request'[d] = request[d] /\ client'[d] = client[d]
        /\ request'[c] = "ended"
    BY <1>2 DEF Refuse, CountFails, IInv, TypeInv, ShareTypeOK, partyVars
  <2> QED BY <2>1 DEF SerialInv, Alive
<1>3. CASE AskForLock(c)
  <2>1. /\ request[c] = "verifying" /\ UNCHANGED <<handler, client>>
        /\ \A d \in Clients : request'[d] = IF d = c THEN "queued" ELSE request[d]
    BY <1>3 DEF AskForLock, IInv, TypeInv, ShareTypeOK, partyVars
  <2> QED BY <2>1 DEF SerialInv, Alive
<1>4. CASE StartTask(c)
  <2>1. /\ request[c] = "queued" /\ client[c] = "calling"
        /\ \A d \in Clients : d # c => request'[d] = request[d] /\ client'[d] = client[d]
        /\ request'[c] = "posting" /\ client'[c] = "connecting"
    BY <1>4 DEF StartTask, SerialInv, IInv, TypeInv, ShareTypeOK
  <2>2. \A p \in Parties, d \in Clients :
          handler'[p][d] = IF d = c THEN "sent" ELSE handler[p][d]
    BY <1>4 DEF StartTask, IInv, TypeInv, ShareTypeOK
  <2> QED BY <2>1, <2>2 DEF SerialInv
<1>5. CASE Record(c) \/ CommitFails(c) \/ GiveUp(c)
  <2>1. /\ UNCHANGED <<client, handler>>
        /\ \A p \in Parties : handler[p][c] \in {"ok", "failed"}
        /\ \A d \in Clients : request'[d] = IF d = c THEN "ended" ELSE request[d]
    BY <1>5 DEF Record, CommitFails, GiveUp, IInv, TypeInv, ShareTypeOK, partyVars
  <2> QED BY <2>1 DEF SerialInv, Alive, ProgramStages
<1>6. CASE PostFails(c)
  \* A POST can only raise when all programs wait for a client that has gone,
  \* which it has not.
  <2>1. request[c] = "posting" /\ ~Fault("lost", MaxLost)
    BY <1>6, NothingLost DEF PostFails, IInv
  <2>2. /\ client[c] \in {"finishing", "over"}
        /\ \A p \in Parties : handler[p][c] = "running"
    BY <1>6, <2>1 DEF PostFails, SerialInv
  <2> QED BY <2>1, <2>2 DEF SerialInv, Passed
<1> QED BY <1>1, <1>2, <1>3, <1>4, <1>5, <1>6 DEF ServerStep

LEMMA MpcStepSerial ==
  ASSUME IInv, SerialInv, NEW c \in Clients, MpcStep(c)
  PROVE  SerialInv'
<1>1. CASE Input(c)
  <2>1. /\ UNCHANGED request
        /\ \A p \in Parties : handler[p][c] = "running"
        /\ \A d \in Clients : client'[d] = IF d = c THEN "sent" ELSE client[d]
        /\ client[c] = "connecting"
        /\ \A p \in Parties, d \in Clients :
             handler'[p][d] = IF d = c THEN "input" ELSE handler[p][d]
    BY <1>1 DEF Input, SetClient, IInv, TypeInv, ShareTypeOK, coordVars
  <2> QED BY <2>1, ShareAssumption DEF SerialInv, Alive, ProgramStages, Passed
<1>2. CASE Reveal(c)
  <2>1. /\ UNCHANGED request
        /\ \A p \in Parties : handler[p][c] = "written"
        /\ \A d \in Clients : d # c => client'[d] = client[d]
        /\ client'[c] = client[c] \/ client[c] = "sent"
        /\ \A p \in Parties, d \in Clients :
             handler'[p][d] = IF d = c THEN "revealed" ELSE handler[p][d]
    BY <1>2 DEF Reveal, SetClient, IInv, TypeInv, ShareTypeOK, coordVars
  <2> QED BY <2>1, ShareAssumption DEF SerialInv, Alive, ProgramStages, Passed
<1> QED BY <1>1, <1>2 DEF MpcStep

LEMMA RestoreSerial ==
  ASSUME IInv, SerialInv, NEW p \in Parties, NEW c \in Clients,
         handler[p][c] \in ProgramStages, RestoreShares(p, c), PartyStep
  PROVE  SerialInv'
BY HandlerMoves DEF RestoreShares, PartyStep, coordVars, Alive, Passed

LEMMA HandlerStepSerial ==
  ASSUME IInv, SerialInv, NEW p \in Parties, NEW c \in Clients, HandlerStep(p, c)
  PROVE  SerialInv'
<1> USE DEF PartyStep, coordVars, Alive, ProgramStages, Passed
<1>1. CASE Backup(p, c)
  BY <1>1, HandlerMoves DEF Backup
<1>2. CASE PrepareFails(p, c)
  BY <1>2, HandlerMoves DEF PrepareFails
<1>3. CASE Run(p, c)
  BY <1>3, HandlerMoves DEF Run
<1>4. CASE Write(p, c)
  BY <1>4, HandlerMoves DEF Write
<1>5. CASE Answer(p, c)
  BY <1>5, HandlerMoves DEF Answer
<1>6. CASE Rollback(p, c)
  BY <1>6, RestoreSerial DEF Rollback
<1> QED BY <1>1, <1>2, <1>3, <1>4, <1>5, <1>6 DEF HandlerStep

LEMMA SerialUnchanged ==
  ASSUME SerialInv, UNCHANGED <<request, client, handler>>
  PROVE  SerialInv'
BY DEF SerialInv

LEMMA StepSerial ==
  ASSUME MaxLost = 0, IInv, SerialInv, [ShareNext]_shareVars
  PROVE  SerialInv'
<1>1. CASE TurnTimesOut \/ UNCHANGED shareVars
  BY <1>1, SerialUnchanged DEF TurnTimesOut, coordVars, partyVars, shareVars
<1>2. ~ServerRestarts /\ \A p \in Parties : ~PartyCrashes(p)
  BY NothingLost DEF ServerRestarts, PartyCrashes, IInv
<1> QED BY <1>1, <1>2, ClientStepSerial, ServerStepSerial, MpcStepSerial, HandlerStepSerial
        DEF ShareNext

LEMMA InitSerial == ShareInit => SerialInv
BY DEF ShareInit, SerialInv, Alive, ProgramStages

LEMMA SerialMeans == ASSUME IInv, SerialInv PROVE OneSessionAtATime
BY OneTask DEF SerialInv, OneSessionAtATime, Working, Alive

-----------------------------------------------------------------------------
(***************************************************************************)
(* The files of shares agree with the rows.                                *)
(***************************************************************************)

\* While handlers of a client work, no other client's work nor is another's task
\* open, and its entry is the next one.
AloneInv ==
  \A p \in Parties, c \in Clients : handler[p][c] \in Alive =>
    /\ index[c] = Len(db) + 1
    /\ \A d \in Clients : request[d] = "posting" => d = c
    /\ \A q \in Parties, d \in Clients : handler[q][d] \in Alive => d = c

LEMMA SerialIsAlone == ASSUME IInv, SerialInv PROVE AloneInv
BY OneTask DEF SerialInv, AloneInv, IInv, ServerInv, RowsInv

LEMMA OneAlive ==
  ASSUME IInv, AloneInv, NEW p \in Parties, NEW c \in Clients, handler[p][c] \in Alive
  PROVE  /\ index[c] \in Indices /\ index[c] \notin DOMAIN db /\ DOMAIN db \subseteq Indices
         /\ \A d \in Clients : request[d] = "posting" => d = c
         /\ \A q \in Parties, d \in Clients : handler[q][d] \in Alive => d = c
<1>1. Len(db) \in Nat /\ DOMAIN db = 1 .. Len(db)
  BY SeqFacts DEF IInv
<1>2. index[c] = Len(db) + 1 /\ index[c] \in Indices \cup {0}
  BY DEF AloneInv, IInv, TypeInv, ShareTypeOK
<1>3. index[c] \in Indices /\ DOMAIN db \subseteq Indices
  BY <1>1, <1>2, ShareAssumption, FS_CardinalityType DEF Indices
<1> QED BY <1>1, <1>2, <1>3 DEF AloneInv

\* A step that changes none of it, and opens no session.
LEMMA FilesUnchanged ==
  ASSUME FilesInv, UNCHANGED <<db, index, partyVars>>,
         \A c \in Clients : request'[c] = "posting" => request[c] = "posting"
  PROVE  FilesInv'
BY DEF FilesInv, Agrees, partyVars

LEMMA StartTaskFiles ==
  ASSUME IInv, FilesInv, NEW c \in Clients, StartTask(c)
  PROVE  FilesInv'
<1>1. /\ UNCHANGED <<db, backup, memory, shares>>
      /\ \A d \in Clients : d # c => request'[d] = request[d] /\ index'[d] = index[d]
      /\ \A p \in Parties, d \in Clients :
           handler'[p][d] = IF d = c THEN "sent" ELSE handler[p][d]
  BY DEF StartTask, SetRequest, IInv, TypeInv, ShareTypeOK
<1> QED BY <1>1 DEF FilesInv, Agrees, ProgramStages

\* All parties hold the entry of the new row.
LEMMA RecordFiles ==
  ASSUME IInv, AloneInv, FilesInv, NEW c \in Clients, Record(c)
  PROVE  FilesInv'
<1>1. /\ request[c] = "posting" /\ UNCHANGED <<index, partyVars>>
      /\ \A p \in Parties : handler[p][c] = "ok"
      /\ \A d \in Clients : request'[d] = IF d = c THEN "ended" ELSE request[d]
  BY DEF Record, SetRequest, IInv, TypeInv, ShareTypeOK
<1>2. index[c] = Len(db) + 1 /\ Len(db) \in Nat /\ DOMAIN db = 1 .. Len(db)
  BY <1>1, SeqFacts DEF IInv, ServerInv, RowsInv
<1>3. \A i \in DOMAIN db' : db'[i] = IF i = index[c] THEN c ELSE db[i]
  <2>1. db \in Seq(Clients) /\ db' = Append(db, c)
    BY DEF Record, IInv, TypeInv, ShareTypeOK
  <2> QED BY <1>2, <2>1, AppendProperties, LenProperties
<1>4. \A i \in DOMAIN db' : i = index[c] \/ i \in DOMAIN db
  <2>1. db \in Seq(Clients) /\ db' = Append(db, c)
    BY DEF Record, IInv, TypeInv, ShareTypeOK
  <2>2. db' \in Seq(Clients) /\ Len(db') = Len(db) + 1
    BY <2>1, AppendProperties
  <2>3. DOMAIN db' = 1 .. Len(db) + 1
    BY <2>2, LenProperties
  <2> QED BY <1>2, <2>3
<1>5. \A d \in Clients : request'[d] # "posting"
  BY <1>1, OneTask
<1>6. \A p \in Parties, d \in Clients : handler[p][d] \notin Alive
  BY <1>1, OneTask DEF AloneInv, Alive, ProgramStages
<1>7. \A p \in Parties : Agrees(shares[p])'
  BY <1>1, <1>3, <1>4 DEF FilesInv, Agrees, partyVars
<1> QED BY <1>1, <1>5, <1>6, <1>7 DEF FilesInv, Alive, ProgramStages, partyVars

LEMMA InputFiles ==
  ASSUME IInv, AloneInv, FilesInv, NEW c \in Clients, Input(c)
  PROVE  FilesInv'
<1> DEFINE given(p) == [memory[p][c] EXCEPT ![index[c]] = c]
<1>0. \A p \in Parties : handler[p][c] = "running"
  BY DEF Input
<1>1. \A p \in Parties : /\ memory[p][c] \in Values /\ memory[p][c] # None
                         /\ index[c] \in Indices /\ index[c] \notin DOMAIN db
                         /\ Agrees(memory[p][c])
  BY <1>0, OneAlive DEF FilesInv, Agrees, Alive, ProgramStages
<1>2. \A p \in Parties : /\ given(p) \in Values /\ given(p) # None
                         /\ \A i \in Indices : given(p)[i] = IF i = index[c] THEN c ELSE memory[p][c][i]
  BY <1>1, EntrySet
<1>3. memory \in [Parties -> [Clients -> Values \cup {None}]]
  BY DEF IInv, TypeInv, ShareTypeOK
<1>4. \A p \in Parties, d \in Clients :
        memory'[p][d] = IF d = c THEN given(p) ELSE memory[p][d]
  BY <1>3 DEF Input
<1> HIDE DEF given
<1>5. /\ UNCHANGED <<db, index, request, backup, shares>>
      /\ \A p \in Parties, d \in Clients :
           handler'[p][d] = IF d = c THEN "input" ELSE handler[p][d]
  BY DEF Input, IInv, TypeInv, ShareTypeOK, coordVars
<1>6. DOMAIN db \subseteq Indices
  BY <1>0, ShareAssumption, OneAlive DEF Alive, ProgramStages
<1>7. \A p \in Parties : Agrees(given(p))
  BY <1>1, <1>2, <1>6 DEF Agrees
<1> QED BY <1>0, <1>1, <1>2, <1>4, <1>5, <1>7 DEF FilesInv, Agrees, ProgramStages

LEMMA RevealFiles ==
  ASSUME IInv, FilesInv, NEW c \in Clients, Reveal(c)
  PROVE  FilesInv'
<1>1. /\ UNCHANGED <<db, index, request, backup, memory, shares>>
      /\ \A p \in Parties : handler[p][c] = "written"
      /\ \A p \in Parties, d \in Clients :
           handler'[p][d] = IF d = c THEN "revealed" ELSE handler[p][d]
  BY DEF Reveal, IInv, TypeInv, ShareTypeOK, coordVars
<1> QED BY <1>1 DEF FilesInv, Agrees, ProgramStages

LEMMA RestoreFiles ==
  ASSUME IInv, AloneInv, FilesInv, NEW p \in Parties, NEW c \in Clients,
         handler[p][c] \in ProgramStages, RestoreShares(p, c), PartyStep
  PROVE  FilesInv'
<1>1. /\ UNCHANGED <<db, index, request>>
      /\ \A q \in Parties, d \in Clients :
           /\ handler'[q][d] = IF q = p /\ d = c THEN "failed" ELSE handler[q][d]
           /\ backup'[q][d] = IF q = p /\ d = c THEN None ELSE backup[q][d]
           /\ memory'[q][d] = IF q = p /\ d = c THEN None ELSE memory[q][d]
      /\ \A q \in Parties : shares'[q] = IF q = p THEN backup[p][c] ELSE shares[q]
  BY DEF RestoreShares, SetHandler, PartyStep, coordVars, IInv, TypeInv, ShareTypeOK
<1>2. \A d \in Clients : request[d] = "posting" => d = c
  BY OneAlive DEF Alive
<1> QED BY <1>1, <1>2 DEF FilesInv, Agrees, ProgramStages

LEMMA HandlerStepFiles ==
  ASSUME IInv, AloneInv, FilesInv, NEW p \in Parties, NEW c \in Clients, HandlerStep(p, c)
  PROVE  FilesInv'
<1> USE DEF SetHandler, PartyStep, coordVars, ProgramStages
<1>1. CASE Backup(p, c)
  <2>1. /\ UNCHANGED <<db, index, request, memory, shares>>
        /\ \A q \in Parties, d \in Clients :
             /\ handler'[q][d] = IF q = p /\ d = c THEN "prepared" ELSE handler[q][d]
             /\ backup'[q][d] = IF q = p /\ d = c THEN shares[p] ELSE backup[q][d]
    BY <1>1 DEF Backup, BackupOf, IInv, TypeInv, ShareTypeOK
  <2> QED BY <2>1 DEF FilesInv, Agrees
<1>2. CASE PrepareFails(p, c)
  <2>1. /\ UNCHANGED <<db, index, request, memory, shares>>
        /\ \A q \in Parties, d \in Clients :
             /\ handler'[q][d] = IF q = p /\ d = c THEN "failed" ELSE handler[q][d]
             /\ backup'[q][d] = IF q = p /\ d = c THEN None ELSE backup[q][d]
    BY <1>2 DEF PrepareFails, IInv, TypeInv, ShareTypeOK
  <2> QED BY <2>1 DEF FilesInv, Agrees
<1>3. CASE Run(p, c)
  <2>1. /\ UNCHANGED <<db, index, request, backup, shares>> /\ handler[p][c] = "prepared"
        /\ \A q \in Parties, d \in Clients :
             /\ handler'[q][d] = IF q = p /\ d = c THEN "running" ELSE handler[q][d]
             /\ memory'[q][d] = IF q = p /\ d = c THEN Loaded(p, c) ELSE memory[q][d]
    BY <1>3 DEF Run, IInv, TypeInv, ShareTypeOK
  <2>2. Agrees(backup[p][c]) /\ Agrees(shares[p])
    BY <2>1 DEF FilesInv
  <2>3. NoShares \in Values /\ None \notin Values
    BY ShareAssumption DEF NoShares, Values, Indices
  <2>4. Loaded(p, c) # None /\ Agrees(Loaded(p, c))
    <3>1. CASE backup[p][c] = None \/ shares[p] = None
      <4>1. DOMAIN db = {}
        BY <2>2, <3>1 DEF Agrees
      <4> QED BY <2>3, <3>1, <4>1 DEF Loaded, Agrees
    <3>2. CASE backup[p][c] # None /\ shares[p] # None
      BY <2>2, <3>2 DEF Loaded
    <3> QED BY <3>1, <3>2
  <2> QED BY <2>1, <2>4 DEF FilesInv, Agrees
<1>4. CASE Write(p, c)
  <2>1. /\ UNCHANGED <<db, index, request, backup, memory>> /\ handler[p][c] = "input"
        /\ \A q \in Parties, d \in Clients :
             handler'[q][d] = IF q = p /\ d = c THEN "written" ELSE handler[q][d]
        /\ \A q \in Parties : shares'[q] = IF q = p THEN memory[p][c] ELSE shares[q]
    BY <1>4 DEF Write, IInv, TypeInv, ShareTypeOK
  <2>2. \A d \in Clients : request[d] = "posting" => d = c
    BY <2>1, OneAlive DEF Alive
  <2> QED BY <2>1, <2>2 DEF FilesInv, Agrees
<1>5. CASE Answer(p, c)
  <2>1. /\ UNCHANGED <<db, index, request, shares>> /\ handler[p][c] = "revealed"
        /\ \A q \in Parties, d \in Clients :
             /\ handler'[q][d] = IF q = p /\ d = c THEN "ok" ELSE handler[q][d]
             /\ backup'[q][d] = IF q = p /\ d = c THEN None ELSE backup[q][d]
             /\ memory'[q][d] = IF q = p /\ d = c THEN None ELSE memory[q][d]
    BY <1>5 DEF Answer, IInv, TypeInv, ShareTypeOK
  <2> QED BY <2>1 DEF FilesInv, Agrees
<1>6. CASE Rollback(p, c)
  BY <1>6, RestoreFiles DEF Rollback
<1> QED BY <1>1, <1>2, <1>3, <1>4, <1>5, <1>6 DEF HandlerStep

\* What a party had in its handlers is gone with it.
LEMMA CrashFiles ==
  ASSUME IInv, FilesInv, NEW p \in Parties, PartyCrashes(p)
  PROVE  FilesInv'
<1>1. /\ UNCHANGED <<db, index, request, shares>>
      /\ \A q \in Parties, d \in Clients :
           /\ handler'[q][d] =
                IF q = p /\ handler[p][d] \in Alive THEN "dead" ELSE handler[q][d]
           /\ backup'[q][d] = IF q = p THEN None ELSE backup[q][d]
           /\ memory'[q][d] = IF q = p THEN None ELSE memory[q][d]
  BY DEF PartyCrashes, PartyStep, coordVars, IInv, TypeInv, ShareTypeOK
<1> QED BY <1>1 DEF FilesInv, Agrees, Alive, ProgramStages

LEMMA StepFiles ==
  ASSUME IInv, AloneInv, FilesInv, [ShareNext]_shareVars
  PROVE  FilesInv'
<1>1. ASSUME NEW c \in Clients, ClientStep(c) PROVE FilesInv'
  <2>1. UNCHANGED <<db, index, partyVars>>
    BY <1>1 DEF ClientStep, GetTurn, ReceiveOutputs, ClientFails, MarkFinished, coordVars
  <2>2. \A d \in Clients : request'[d] = "posting" => request[d] = "posting"
    BY <1>1 DEF ClientStep, GetTurn, ReceiveOutputs, ClientFails, MarkFinished, coordVars,
                SetRequest, IInv, TypeInv, ShareTypeOK
  <2> QED BY <2>1, <2>2, FilesUnchanged
<1>2. ASSUME NEW c \in Clients, ServerStep(c) PROVE FilesInv'
  <2>1. CASE StartTask(c)
    BY <2>1, StartTaskFiles
  <2>2. CASE Record(c)
    BY <2>2, RecordFiles
  <2>3. CASE \/ Request(c) \/ Refuse(c) \/ AskForLock(c) \/ CountFails(c)
             \/ CommitFails(c) \/ GiveUp(c) \/ PostFails(c)
    <3>1. UNCHANGED <<db, index, partyVars>>
      BY <2>3 DEF Request, Refuse, AskForLock, CountFails, CommitFails, GiveUp, PostFails
    <3>2. \E s \in {"verifying", "queued", "ended"} : request' = [request EXCEPT ![c] = s]
      BY <2>3 DEF Request, Refuse, AskForLock, CountFails, CommitFails, GiveUp, PostFails,
                  SetRequest
    <3>3. \A d \in Clients : request'[d] = "posting" => request[d] = "posting"
      BY <3>2 DEF IInv, TypeInv, ShareTypeOK
    <3> QED BY <3>1, <3>3, FilesUnchanged
  <2> QED BY <1>2, <2>1, <2>2, <2>3 DEF ServerStep
<1>3. CASE TurnTimesOut \/ UNCHANGED shareVars
  BY <1>3, FilesUnchanged DEF TurnTimesOut, coordVars, partyVars, shareVars
<1>4. CASE ServerRestarts
  <2>1. UNCHANGED <<db, index, partyVars>>
    BY <1>4 DEF ServerRestarts
  <2>2. \A d \in Clients : request'[d] = "posting" => request[d] = "posting"
    BY <1>4 DEF ServerRestarts
  <2> QED BY <2>1, <2>2, FilesUnchanged
<1> QED BY <1>1, <1>2, <1>3, <1>4, CrashFiles, InputFiles, RevealFiles, HandlerStepFiles
        DEF ShareNext, MpcStep

LEMMA InitFiles == ShareInit => FilesInv
BY DEF ShareInit, FilesInv, Agrees, ProgramStages

-----------------------------------------------------------------------------
(***************************************************************************)
(* A session that failed leaves no trace.                                  *)
(***************************************************************************)
LEMMA TraceUnchanged ==
  ASSUME TraceInv, UNCHANGED partyVars
  PROVE  TraceInv'
BY DEF TraceInv, Holds, partyVars

\* While the handler of c works, the file has only shares of those whose
\* handlers have ended well, and perhaps that of c.
LEMMA OthersAreOk ==
  ASSUME IInv, SerialInv, TraceInv, NEW p \in Parties, NEW c \in Clients,
         handler[p][c] \in {"sent", "prepared"}, NEW d \in Clients, Holds(shares[p], d)
  PROVE  handler[p][d] = "ok"
<1>1. handler[p][d] \in {"written", "revealed", "ok"}
  BY DEF TraceInv
<1>2. handler[p][d] \in Alive => d = c
  BY SerialIsAlone, OneAlive DEF Alive
<1> QED BY <1>1, <1>2 DEF Alive, ProgramStages

LEMMA StartTaskTrace ==
  ASSUME IInv, SerialInv, TraceInv, NEW c \in Clients, StartTask(c)
  PROVE  TraceInv'
<1>1. /\ UNCHANGED <<backup, memory, shares>> /\ request[c] = "queued"
      /\ \A p \in Parties, d \in Clients :
           handler'[p][d] = IF d = c THEN "sent" ELSE handler[p][d]
  BY DEF StartTask, IInv, TypeInv, ShareTypeOK
<1>2. \A p \in Parties : handler[p][c] = "none"
  BY <1>1 DEF SerialInv
<1> QED BY <1>1, <1>2 DEF TraceInv, Holds

LEMMA InputTrace ==
  ASSUME IInv, SerialInv, TraceInv, NEW c \in Clients, Input(c)
  PROVE  TraceInv'
<1> DEFINE given(p) == [memory[p][c] EXCEPT ![index[c]] = c]
<1>1. /\ UNCHANGED <<backup, shares>>
      /\ \A p \in Parties : handler[p][c] = "running"
      /\ \A p \in Parties, d \in Clients :
           handler'[p][d] = IF d = c THEN "input" ELSE handler[p][d]
  BY DEF Input, IInv, TypeInv, ShareTypeOK
<1>2. memory \in [Parties -> [Clients -> Values \cup {None}]]
  BY DEF IInv, TypeInv, ShareTypeOK
<1>3. \A p \in Parties, d \in Clients :
        memory'[p][d] = IF d = c THEN given(p) ELSE memory[p][d]
  BY <1>2 DEF Input
<1>4. \A p \in Parties : memory[p][c] \in Values /\ memory[p][c] # None
  BY <1>1, <1>2 DEF IInv, TypeInv, ProgramStages
<1>5. \A p \in Parties, i \in Indices :
        given(p)[i] = IF i = index[c] THEN c ELSE memory[p][c][i]
  BY <1>4 DEF Values
<1> HIDE DEF given
<1>6. \A p \in Parties, d \in Clients : Holds(given(p), d) => d = c \/ Holds(memory[p][c], d)
  BY <1>4, <1>5 DEF Holds
<1> QED BY <1>1, <1>3, <1>6 DEF TraceInv, Holds

LEMMA RevealTrace ==
  ASSUME IInv, TraceInv, NEW c \in Clients, Reveal(c)
  PROVE  TraceInv'
<1>1. /\ UNCHANGED <<backup, memory, shares>>
      /\ \A p \in Parties : handler[p][c] = "written"
      /\ \A p \in Parties, d \in Clients :
           handler'[p][d] = IF d = c THEN "revealed" ELSE handler[p][d]
  BY DEF Reveal, IInv, TypeInv, ShareTypeOK
<1> QED BY <1>1 DEF TraceInv, Holds

LEMMA RestoreTrace ==
  ASSUME IInv, TraceInv, NEW p \in Parties, NEW c \in Clients,
         handler[p][c] \in ProgramStages, RestoreShares(p, c)
  PROVE  TraceInv'
<1>1. /\ \A q \in Parties, d \in Clients :
           /\ handler'[q][d] = IF q = p /\ d = c THEN "failed" ELSE handler[q][d]
           /\ backup'[q][d] = IF q = p /\ d = c THEN None ELSE backup[q][d]
           /\ memory'[q][d] = IF q = p /\ d = c THEN None ELSE memory[q][d]
      /\ \A q \in Parties : shares'[q] = IF q = p THEN backup[p][c] ELSE shares[q]
  BY DEF RestoreShares, SetHandler, IInv, TypeInv, ShareTypeOK
<1>2. \A d \in Clients : Holds(backup[p][c], d) => d # c /\ handler[p][d] = "ok"
  BY DEF TraceInv, ProgramStages
<1> QED BY <1>1, <1>2 DEF TraceInv, Holds, ProgramStages

LEMMA HandlerStepTrace ==
  ASSUME IInv, SerialInv, TraceInv, NEW p \in Parties, NEW c \in Clients, HandlerStep(p, c)
  PROVE  TraceInv'
<1> USE DEF SetHandler
<1>1. CASE Backup(p, c)
  <2>1. /\ UNCHANGED <<memory, shares>> /\ handler[p][c] = "sent"
        /\ \A q \in Parties, d \in Clients :
             /\ handler'[q][d] = IF q = p /\ d = c THEN "prepared" ELSE handler[q][d]
             /\ backup'[q][d] = IF q = p /\ d = c THEN shares[p] ELSE backup[q][d]
    BY <1>1 DEF Backup, BackupOf, IInv, TypeInv, ShareTypeOK
  <2>2. \A d \in Clients : Holds(shares[p], d) => handler[p][d] = "ok"
    BY <2>1, OthersAreOk
  <2> QED BY <2>1, <2>2 DEF TraceInv, Holds
<1>2. CASE PrepareFails(p, c)
  <2>1. /\ UNCHANGED <<memory, shares>> /\ handler[p][c] \in {"sent", "prepared"}
        /\ \A q \in Parties, d \in Clients :
             /\ handler'[q][d] = IF q = p /\ d = c THEN "failed" ELSE handler[q][d]
             /\ backup'[q][d] = IF q = p /\ d = c THEN None ELSE backup[q][d]
    BY <1>2 DEF PrepareFails, IInv, TypeInv, ShareTypeOK
  <2> QED BY <2>1 DEF TraceInv, Holds
<1>3. CASE Run(p, c)
  <2>1. /\ UNCHANGED <<backup, shares>> /\ handler[p][c] = "prepared"
        /\ \A q \in Parties, d \in Clients :
             /\ handler'[q][d] = IF q = p /\ d = c THEN "running" ELSE handler[q][d]
             /\ memory'[q][d] = IF q = p /\ d = c THEN Loaded(p, c) ELSE memory[q][d]
    BY <1>3 DEF Run, IInv, TypeInv, ShareTypeOK
  <2>2. \A d \in Clients : Holds(Loaded(p, c), d) => Holds(shares[p], d)
    BY ShareAssumption DEF Loaded, NoShares, Holds
  <2>3. \A d \in Clients : Holds(Loaded(p, c), d) => d # c /\ handler[p][d] = "ok"
    BY <2>1, <2>2, OthersAreOk
  <2> QED BY <2>1, <2>3 DEF TraceInv, Holds
<1>4. CASE Write(p, c)
  <2>1. /\ UNCHANGED <<backup, memory>> /\ handler[p][c] = "input"
        /\ \A q \in Parties, d \in Clients :
             handler'[q][d] = IF q = p /\ d = c THEN "written" ELSE handler[q][d]
        /\ \A q \in Parties : shares'[q] = IF q = p THEN memory[p][c] ELSE shares[q]
    BY <1>4 DEF Write, IInv, TypeInv, ShareTypeOK
  <2> QED BY <2>1 DEF TraceInv, Holds
<1>5. CASE Answer(p, c)
  <2>1. /\ UNCHANGED shares /\ handler[p][c] = "revealed"
        /\ \A q \in Parties, d \in Clients :
             /\ handler'[q][d] = IF q = p /\ d = c THEN "ok" ELSE handler[q][d]
             /\ backup'[q][d] = IF q = p /\ d = c THEN None ELSE backup[q][d]
             /\ memory'[q][d] = IF q = p /\ d = c THEN None ELSE memory[q][d]
    BY <1>5 DEF Answer, IInv, TypeInv, ShareTypeOK
  <2> QED BY <2>1 DEF TraceInv, Holds
<1>6. CASE Rollback(p, c)
  BY <1>6, RestoreTrace DEF Rollback
<1> QED BY <1>1, <1>2, <1>3, <1>4, <1>5, <1>6 DEF HandlerStep

LEMMA StepTrace ==
  ASSUME MaxLost = 0, IInv, SerialInv, TraceInv, [ShareNext]_shareVars
  PROVE  TraceInv'
<1>1. ASSUME NEW c \in Clients, ClientStep(c) PROVE TraceInv'
  BY <1>1, TraceUnchanged
     DEF ClientStep, GetTurn, ReceiveOutputs, ClientFails, MarkFinished, partyVars
<1>2. ASSUME NEW c \in Clients, ServerStep(c) PROVE TraceInv'
  <2>1. CASE StartTask(c)
    BY <2>1, StartTaskTrace
  <2>2. CASE ~StartTask(c)
    BY <1>2, <2>2, TraceUnchanged
       DEF ServerStep, Request, Refuse, AskForLock, CountFails, Record, CommitFails, GiveUp,
           PostFails
  <2> QED BY <2>1, <2>2
<1>3. CASE TurnTimesOut \/ UNCHANGED shareVars
  BY <1>3, TraceUnchanged DEF TurnTimesOut, partyVars, shareVars
<1>4. ~ServerRestarts /\ \A p \in Parties : ~PartyCrashes(p)
  BY NothingLost DEF ServerRestarts, PartyCrashes, IInv
<1> QED BY <1>1, <1>2, <1>3, <1>4, InputTrace, RevealTrace, HandlerStepTrace DEF ShareNext, MpcStep

LEMMA InitTrace == ShareInit => TraceInv
BY DEF ShareInit, TraceInv, Holds

-----------------------------------------------------------------------------
(***************************************************************************)
(* Theorems.                                                               *)
(***************************************************************************)
LEMMA FilesMean == ASSUME FilesInv PROVE RecordedSharesPresent
<1> SUFFICES ASSUME NEW i \in DOMAIN db, NEW p \in Parties
             PROVE  shares[p] # None /\ shares[p][i] = db[i]
  BY DEF RecordedSharesPresent
<1>1. db # <<>>
  OBVIOUS
<1> QED BY <1>1 DEF FilesInv, Agrees

LEMMA TraceMeans == ASSUME TraceInv PROVE FailedLeavesNoTrace
BY DEF TraceInv, Holds, FailedLeavesNoTrace

LEMMA PartyAlways ==
  ASSUME MaxLost = 0
  PROVE  ShareSpec => [](IInv /\ PartyInv)
<1>1. ShareInit => PartyInv
  BY InitSerial, InitFiles, InitTrace DEF PartyInv
<1>2. IInv /\ PartyInv /\ [ShareNext]_shareVars => PartyInv'
  BY SerialIsAlone, StepSerial, StepFiles, StepTrace DEF PartyInv
<1> QED BY <1>1, <1>2, Always, PTL DEF ShareSpec

\* The work of two sessions never overlaps at the parties, as long as no
\* connection is lost and nothing dies: no POST can time out while a handler
\* still works, since a client only goes when some handler is past its input.
THEOREM SessionsCorrect ==
  ASSUME MaxLost = 0
  PROVE  ShareSpec => []OneSessionAtATime
<1>1. IInv /\ PartyInv => OneSessionAtATime
  BY SerialMeans DEF PartyInv
<1> QED BY <1>1, PartyAlways, PTL

\* Every row stands for a share that all parties hold at the index of the row,
\* whichever sessions fail at which parties and in whatever order they roll
\* back, with any number of clients and parties.
THEOREM SharesCorrect ==
  ASSUME MaxLost = 0
  PROVE  ShareSpec => []RecordedSharesPresent
<1>1. PartyInv => RecordedSharesPresent
  BY FilesMean DEF PartyInv
<1> QED BY <1>1, PartyAlways, PTL

\* A session that failed at every party leaves its secret in no file.
THEOREM TraceCorrect ==
  ASSUME MaxLost = 0
  PROVE  ShareSpec => []FailedLeavesNoTrace
<1>1. PartyInv => FailedLeavesNoTrace
  BY TraceMeans DEF PartyInv
<1> QED BY <1>1, PartyAlways, PTL

-----------------------------------------------------------------------------
(***************************************************************************)
(* ShareSerial: what is lost and who dies does not matter to what was      *)
(* recorded, while sessions do not overlap.                                *)
(***************************************************************************)

HistoryInv == ~overlapped => AloneInv /\ FilesInv

-----------------------------------------------------------------------------
(***************************************************************************)
(* The handlers of one client at a time.                                   *)
(***************************************************************************)

\* A step that opens no session and adds no row.
LEMMA AloneUnchanged ==
  ASSUME AloneInv, UNCHANGED <<index, db>>,
         \A d \in Clients : request'[d] = "posting" => request[d] = "posting",
         \A p \in Parties, d \in Clients : handler'[p][d] \in Alive => handler[p][d] \in Alive
  PROVE  AloneInv'
BY DEF AloneInv

LEMMA ServerStepAlone ==
  ASSUME IInv, IInv', AloneInv, NEW c \in Clients, ServerStep(c),
         \A d, e \in Clients : Busy(d)' /\ Busy(e)' => d = e
  PROVE  AloneInv'
<1>1. CASE StartTask(c)
  <2>1. /\ UNCHANGED db /\ request'[c] = "posting" /\ index'[c] = Len(db) + 1
        /\ \A p \in Parties : handler'[p][c] = "sent"
    BY <1>1 DEF StartTask, SetRequest, IInv, TypeInv, ShareTypeOK
  <2>2. \A d \in Clients : request'[d] = "posting" => d = c
    BY <2>1 DEF IInv, ServerInv, LockInv
  <2>3. \A p \in Parties, d \in Clients : handler'[p][d] \in Alive => d = c
    BY <2>1 DEF Busy, Alive
  <2> QED BY <2>1, <2>2, <2>3 DEF AloneInv
<1>2. CASE Record(c)
  <2>1. request[c] = "posting" /\ UNCHANGED handler
    BY <1>2 DEF Record, partyVars
  <2>2. \A p \in Parties : handler[p][c] \notin Alive
    BY <1>2 DEF Record, Alive, ProgramStages
  <2>3. \A p \in Parties, d \in Clients : handler[p][d] \notin Alive
    BY <2>1, <2>2 DEF AloneInv
  <2> QED BY <2>1, <2>3 DEF AloneInv
<1>3. CASE \/ Request(c) \/ Refuse(c) \/ AskForLock(c) \/ CountFails(c)
           \/ CommitFails(c) \/ GiveUp(c) \/ PostFails(c)
  <2>1. UNCHANGED <<index, db, handler>>
    BY <1>3 DEF Request, Refuse, AskForLock, CountFails, CommitFails, GiveUp, PostFails, partyVars
  <2>2. \E s \in {"verifying", "queued", "ended"} : request' = [request EXCEPT ![c] = s]
    BY <1>3 DEF Request, Refuse, AskForLock, CountFails, CommitFails, GiveUp, PostFails, SetRequest
  <2>3. \A d \in Clients : request'[d] = "posting" => request[d] = "posting"
    BY <2>2 DEF IInv, TypeInv, ShareTypeOK
  <2> QED BY <2>1, <2>3, AloneUnchanged
<1> QED BY <1>1, <1>2, <1>3 DEF ServerStep

LEMMA StepAlone ==
  ASSUME IInv, IInv', AloneInv, [ShareNext]_shareVars,
         \A d, e \in Clients : Busy(d)' /\ Busy(e)' => d = e
  PROVE  AloneInv'
<1>1. ASSUME NEW c \in Clients, ClientStep(c) PROVE AloneInv'
  <2>1. UNCHANGED <<index, db, handler>>
    BY <1>1 DEF ClientStep, GetTurn, ReceiveOutputs, ClientFails, MarkFinished, coordVars, partyVars
  <2>2. \A d \in Clients : request'[d] = "posting" => request[d] = "posting"
    BY <1>1 DEF ClientStep, GetTurn, ReceiveOutputs, ClientFails, MarkFinished, coordVars,
                SetRequest, IInv, TypeInv, ShareTypeOK
  <2> QED BY <2>1, <2>2, AloneUnchanged
<1>2. ASSUME NEW c \in Clients, MpcStep(c) PROVE AloneInv'
  <2>1. UNCHANGED <<index, db, request>>
    BY <1>2 DEF MpcStep, Input, Reveal, coordVars
  <2>2. \A p \in Parties, d \in Clients : handler'[p][d] \in Alive => handler[p][d] \in Alive
    BY <1>2 DEF MpcStep, Input, Reveal, Alive, ProgramStages, IInv, TypeInv, ShareTypeOK
  <2> QED BY <2>1, <2>2, AloneUnchanged
<1>3. ASSUME NEW p \in Parties, NEW c \in Clients, HandlerStep(p, c) PROVE AloneInv'
  <2>1. UNCHANGED <<index, db, request>>
    BY <1>3 DEF HandlerStep, Backup, PrepareFails, Run, Write, Answer, Rollback, PartyStep, coordVars
  <2>2. /\ handler[p][c] \in Alive
        /\ \A q \in Parties, d \in Clients : ~(q = p /\ d = c) => handler'[q][d] = handler[q][d]
    BY <1>3 DEF HandlerStep, Backup, PrepareFails, Run, Write, Answer, Rollback, RestoreShares,
                SetHandler, Alive, ProgramStages, IInv, TypeInv, ShareTypeOK
  <2> QED BY <2>1, <2>2, AloneUnchanged
<1>4. ASSUME NEW p \in Parties, PartyCrashes(p) PROVE AloneInv'
  <2>1. /\ UNCHANGED <<index, db, request>>
        /\ \A q \in Parties, d \in Clients :
             handler'[q][d] = IF q = p /\ handler[p][d] \in Alive THEN "dead" ELSE handler[q][d]
    BY <1>4 DEF PartyCrashes, PartyStep, coordVars, IInv, TypeInv, ShareTypeOK
  <2> QED BY <2>1, AloneUnchanged DEF Alive, ProgramStages
<1>5. CASE TurnTimesOut \/ UNCHANGED shareVars
  BY <1>5, AloneUnchanged DEF TurnTimesOut, coordVars, partyVars, shareVars
<1>6. CASE ServerRestarts
  <2>1. /\ UNCHANGED <<index, db, handler>>
        /\ \A d \in Clients : request'[d] = "posting" => request[d] = "posting"
    BY <1>6 DEF ServerRestarts, partyVars
  <2> QED BY <2>1, AloneUnchanged
<1> QED BY <1>1, <1>2, <1>3, <1>4, <1>5, <1>6, ServerStepAlone DEF ShareNext

-----------------------------------------------------------------------------
(***************************************************************************)
(* The theorem.                                                            *)
(***************************************************************************)
LEMMA StepHistory ==
  ASSUME IInv, HistoryInv, [SerialNext]_serialVars
  PROVE  IInv' /\ HistoryInv'
<1>1. [ShareNext]_shareVars
  BY DEF SerialNext, serialVars
<1>2. IInv'
  BY <1>1, StepType, StepServer DEF IInv
<1>3. ASSUME ~overlapped' PROVE AloneInv' /\ FilesInv'
  <2>1. CASE SerialNext
    <3>1. ~overlapped /\ \A d, e \in Clients : Busy(d)' /\ Busy(e)' => d = e
      BY <1>3, <2>1 DEF SerialNext
    <3>2. AloneInv'
      BY <1>1, <1>2, <3>1, StepAlone DEF HistoryInv
    <3> QED BY <1>1, <3>1, <3>2, StepFiles DEF HistoryInv
  <2>2. CASE UNCHANGED serialVars
    BY <1>3, <2>2
       DEF HistoryInv, AloneInv, FilesInv, Agrees, serialVars, shareVars
  <2> QED BY <2>1, <2>2
<1> QED BY <1>2, <1>3 DEF HistoryInv

\* Whatever is lost, whoever dies and whenever the server restarts: every row has
\* its share at every party, with any number of clients and parties, unless the
\* handlers of two sessions have been at work at a time.  It is the overlap that
\* does the harm, and nothing else.
THEOREM SerialSessionsCorrect == SerialSpec => []SerialSessionsKeepShares
<1>1. SerialInit => IInv /\ HistoryInv
  <2>1. ShareInit => AloneInv
    BY DEF ShareInit, AloneInv, Alive, ProgramStages
  <2> QED BY <2>1, InitType, InitServer, InitFiles DEF SerialInit, IInv, HistoryInv
<1>2. IInv /\ HistoryInv /\ [SerialNext]_serialVars => IInv' /\ HistoryInv'
  BY StepHistory
<1>3. HistoryInv => SerialSessionsKeepShares
  BY FilesMean DEF HistoryInv, SerialSessionsKeepShares
<1> QED BY <1>1, <1>2, <1>3, PTL DEF SerialSpec

-----------------------------------------------------------------------------
(***************************************************************************)
(* QueryData: queries leave sharing correct, although their programs may   *)
(* make sharing programs fail, and what they compute is over the recorded  *)
(* shares, when no connection is lost and nothing dies.                    *)
(***************************************************************************)

\* What a query has counted is recorded, and the programs have read it.
ReadInv ==
  \A q \in Queriers :
    /\ querier[q] \in {"idle", "ready"} => answer[q] = None
    /\ answer[q] # None => counted[q] \in 1 .. Len(db)
    /\ \A p \in Parties :
         /\ program[p][q] # "none" => counted[q] \in 1 .. Len(db)
         /\ program[p][q] = "running" =>
              inputs[p][q] # None /\ \A i \in 1 .. counted[q] : inputs[p][q][i] = db[i]

SystemInv == /\ IInv /\ PartyInv
             /\ QueryTypeOK
             /\ ReadInv /\ ResultsAreOfRecorded

-----------------------------------------------------------------------------
(***************************************************************************)
(* Sharing goes on as it does without queries.                             *)
(***************************************************************************)

\* Steps of a query: of what belongs to sharing, they may give or end the turn
\* and use up a failure.
LEMMA QueryStepShares ==
  ASSUME SystemInv, NEW q \in Queriers,
         QuerierStep(q) \/ \E p \in Parties : ProgramStep(p, q)
  PROVE  /\ UNCHANGED <<coordVars, client, told, partyVars>>
         /\ turn' \in [holder : Holders, key : 1 .. granted'] \cup {NoTurn}
         /\ granted' \in Nat /\ granted' >= granted
         /\ faults' \in [Kinds -> Nat]
<1> USE DEF SystemInv, IInv, TypeInv, ShareTypeOK, Kinds, Fault, shareVars
<1>1. CASE GetTurnToQuery(q)
  <2>1. q \in Holders
    BY QueryAssumption
  <2> QED BY <1>1, <2>1 DEF GetTurnToQuery, Grant
<1>2. CASE RequestQuery(q) \/ RefuseQuery(q) \/ ReceiveResults(q) \/ Compute(q)
  BY <1>2 DEF RequestQuery, RefuseQuery, ReceiveResults, Compute, coordVars, partyVars
<1>3. CASE QuerierFails(q)
  <2>1. faults' = faults \/ faults' = [faults EXCEPT !["fault"] = @ + 1]
    BY <1>3 DEF QuerierFails
  <2>2. UNCHANGED <<turn, granted, coordVars, client, told, partyVars>>
    BY <1>3 DEF QuerierFails
  <2>3. faults \in [Kinds -> Nat] /\ granted \in Nat
        /\ turn \in [holder : Holders, key : 1 .. granted] \cup {NoTurn}
    OBVIOUS
  <2> HIDE DEF SystemInv, IInv, TypeInv, ShareTypeOK, Fault, shareVars
  <2>4. faults' \in [Kinds -> Nat]
    BY <2>1, <2>3
  <2> QED BY <2>2, <2>3, <2>4
<1>4. CASE FinishQuery(q)
  BY <1>4 DEF FinishQuery, End
<1>5. ASSUME NEW p \in Parties, RunQuery(p, q) \/ EndQuery(p, q)
      PROVE  UNCHANGED shareVars
  BY <1>5 DEF RunQuery, EndQuery
<1>6. ASSUME NEW p \in Parties, FailQuery(p, q)
      PROVE  /\ UNCHANGED <<turn, granted, coordVars, client, told, partyVars>>
             /\ faults' \in [Kinds -> Nat]
  <2>1. faults' = faults \/ faults' = [faults EXCEPT !["fault"] = @ + 1]
    BY <1>6 DEF FailQuery
  <2>2. UNCHANGED <<turn, granted, coordVars, client, told, partyVars>>
    BY <1>6 DEF FailQuery
  <2>3. faults \in [Kinds -> Nat]
    OBVIOUS
  <2> HIDE DEF SystemInv, IInv, TypeInv, ShareTypeOK, Fault, shareVars
  <2> QED BY <2>1, <2>2, <2>3
<1> QED BY <1>1, <1>2, <1>3, <1>4, <1>5, <1>6 DEF QuerierStep, ProgramStep, coordVars, partyVars

LEMMA StepShares ==
  ASSUME MaxLost = 0, SystemInv, [QueryNext]_systemVars
  PROVE  IInv' /\ PartyInv'
<1> USE DEF SystemInv, PartyInv
<1>1. CASE [ShareNext]_shareVars
  BY <1>1, SerialIsAlone, StepType, StepServer, StepSerial, StepFiles, StepTrace DEF IInv
<1>2. ASSUME NEW q \in Queriers, QuerierStep(q) \/ \E p \in Parties : ProgramStep(p, q)
      PROVE  IInv' /\ PartyInv'
  <2>1. /\ UNCHANGED <<coordVars, client, told, partyVars>>
        /\ turn' \in [holder : Holders, key : 1 .. granted'] \cup {NoTurn}
        /\ granted' \in Nat /\ granted' >= granted
        /\ faults' \in [Kinds -> Nat]
    BY <1>2, QueryStepShares
  <2>2. TypeInv'
    <3>1. key' \in [Clients -> 0 .. granted']
      BY <2>1 DEF IInv, TypeInv, ShareTypeOK, coordVars
    <3> QED BY <2>1, <3>1 DEF IInv, TypeInv, ShareTypeOK, coordVars, partyVars
  <2>3. ServerInv'
    BY <2>1, ServerUnchanged DEF coordVars
  <2>4. SerialInv'
    BY <2>1, SerialUnchanged DEF coordVars, partyVars
  <2>5. FilesInv'
    BY <2>1, FilesUnchanged DEF coordVars
  <2>6. TraceInv'
    BY <2>1, TraceUnchanged
  <2> QED BY <2>2, <2>3, <2>4, <2>5, <2>6 DEF IInv
<1>3. ASSUME NEW p \in Parties, NEW c \in Clients, RollbackForPorts(p, c)
      PROVE  IInv' /\ PartyInv'
  <2>1. /\ handler[p][c] \in ProgramStages /\ RestoreShares(p, c) /\ PartyStep
        /\ faults' \in [Kinds -> Nat]
    BY <1>3 DEF RollbackForPorts, IInv, TypeInv
  <2>2. ServerInv'
    BY <2>1, ServerUnchanged DEF PartyStep, coordVars
  <2> QED BY <2>1, <2>2, SerialIsAlone, RestoreType, RestoreSerial, RestoreFiles, RestoreTrace
          DEF IInv
<1>4. CASE UNCHANGED systemVars
  BY <1>1, <1>4 DEF systemVars
<1> QED BY <1>1, <1>2, <1>3, <1>4 DEF QueryNext

\* A row that has been inserted stays what it is.
LEMMA RowsStay ==
  ASSUME SystemInv, [QueryNext]_systemVars
  PROVE  /\ Len(db) \in Nat /\ Len(db') \in Nat /\ Len(db') >= Len(db)
         /\ \A i \in 1 .. Len(db) : db'[i] = db[i]
<1>0. db \in Seq(Clients) /\ Len(db) \in Nat
  BY SeqFacts DEF SystemInv, IInv, TypeInv, ShareTypeOK
<1>1. CASE UNCHANGED db
  BY <1>0, <1>1
<1>2. ASSUME NEW c \in Clients, db' = Append(db, c)
      PROVE  Len(db') = Len(db) + 1 /\ \A i \in 1 .. Len(db) : db'[i] = db[i]
  BY <1>0, <1>2, AppendProperties
<1>3. db' = db \/ \E c \in Clients : db' = Append(db, c)
  <2>1. CASE ShareNext
    <3>1. ASSUME NEW c \in Clients, ServerStep(c) PROVE db' \in {db, Append(db, c)}
      BY <3>1 DEF ServerStep, Request, Refuse, AskForLock, StartTask, CountFails, Record,
                  CommitFails, GiveUp, PostFails
    <3>2. ASSUME NEW c \in Clients, ClientStep(c) \/ MpcStep(c) PROVE UNCHANGED db
      BY <3>2 DEF ClientStep, GetTurn, ReceiveOutputs, ClientFails, MarkFinished, MpcStep, Input,
                  Reveal, coordVars
    <3>3. ASSUME NEW p \in Parties, NEW c \in Clients, HandlerStep(p, c) PROVE UNCHANGED db
      BY <3>3 DEF HandlerStep, Backup, PrepareFails, Run, Write, Answer, Rollback, PartyStep,
                  coordVars
    <3>4. ASSUME NEW p \in Parties, TurnTimesOut \/ ServerRestarts \/ PartyCrashes(p)
          PROVE  UNCHANGED db
      BY <3>4 DEF TurnTimesOut, ServerRestarts, PartyCrashes, PartyStep, coordVars
    <3> QED BY <2>1, <3>1, <3>2, <3>3, <3>4, ShareAssumption DEF ShareNext
  <2>2. ASSUME NEW q \in Queriers, QuerierStep(q) \/ \E p \in Parties : ProgramStep(p, q)
        PROVE  UNCHANGED db
    BY <2>2, QueryStepShares DEF coordVars
  <2>3. ASSUME NEW p \in Parties, NEW c \in Clients, RollbackForPorts(p, c) PROVE UNCHANGED db
    BY <2>3 DEF RollbackForPorts, PartyStep, coordVars
  <2>4. CASE UNCHANGED systemVars
    BY <2>4 DEF systemVars, shareVars
  <2> QED BY <2>1, <2>2, <2>3, <2>4 DEF QueryNext
<1> QED BY <1>0, <1>1, <1>2, <1>3

-----------------------------------------------------------------------------
(***************************************************************************)
(* What the programs of the queries have read.                             *)
(***************************************************************************)
LEMMA RowsAreIndices ==
  ASSUME IInv
  PROVE  1 .. Len(db) \subseteq Indices
<1>1. /\ Len(db) \in Nat /\ DOMAIN db = 1 .. Len(db)
      /\ db \in [1 .. Len(db) -> Clients]
  BY SeqFacts DEF IInv
<1>2. db \in Injection(1 .. Len(db), Clients)
  BY <1>1 DEF IInv, ServerInv, RowsInv, Injection, IsInjective
<1>3. Cardinality(1 .. Len(db)) = Len(db)
  BY <1>1, FS_Interval
<1>4. Cardinality(1 .. Len(db)) <= Cardinality(Clients)
  BY <1>2, FS_Injection, ShareAssumption
<1>5. Cardinality(Clients) \in Nat
  BY ShareAssumption, FS_CardinalityType
<1> QED BY <1>1, <1>3, <1>4, <1>5 DEF Indices

\* A step that leaves the queries alone.
LEMMA QueriesUnchanged ==
  ASSUME SystemInv, IInv', [QueryNext]_systemVars, UNCHANGED queryVars,
         granted' \in Nat, granted' >= granted
  PROVE  QueryTypeOK' /\ ReadInv' /\ ResultsAreOfRecorded'
<1>1. /\ Len(db) \in Nat /\ Len(db') \in Nat /\ Len(db') >= Len(db)
      /\ DOMAIN db' = 1 .. Len(db')
      /\ \A i \in 1 .. Len(db) : db'[i] = db[i]
  BY RowsStay, SeqFacts DEF IInv, TypeInv, ShareTypeOK
<1>2. QueryTypeOK'
  <2>1. ShareTypeOK' /\ granted \in Nat
    BY DEF IInv, TypeInv, SystemInv
  <2>2. queryKey' \in [Queriers -> 0 .. granted']
    BY <2>1 DEF SystemInv, QueryTypeOK, queryVars
  <2> QED BY <2>1, <2>2 DEF SystemInv, QueryTypeOK, queryVars
<1>3. ASSUME NEW n \in 1 .. Len(db)
      PROVE  n \in 1 .. Len(db') /\ \A i \in 1 .. n : i \in 1 .. Len(db) /\ db'[i] = db[i]
  BY <1>1, <1>3
<1>4. ReadInv'
  BY <1>3 DEF SystemInv, ReadInv, queryVars
<1>5. ResultsAreOfRecorded'
  <2> SUFFICES ASSUME NEW q \in Queriers, answer[q] # None, NEW p \in Parties, NEW i \in Indices
               PROVE  IF i <= counted[q] THEN i \in DOMAIN db' /\ answer[q][p][i] = db'[i]
                      ELSE answer[q][p][i] = None
    BY DEF ResultsAreOfRecorded, queryVars
  <2>1. counted[q] \in 1 .. Len(db) /\ i \in Nat \ {0}
    BY ShareAssumption, FS_CardinalityType DEF SystemInv, ReadInv, Indices
  <2>2. IF i <= counted[q] THEN i \in DOMAIN db /\ answer[q][p][i] = db[i]
        ELSE answer[q][p][i] = None
    BY DEF SystemInv, ResultsAreOfRecorded
  <2>3. CASE i <= counted[q]
    BY <1>1, <1>3, <2>1, <2>2, <2>3
  <2>4. CASE ~(i <= counted[q])
    BY <2>2, <2>4
  <2> QED BY <2>3, <2>4
<1> QED BY <1>2, <1>4, <1>5


\* Keys are only ever granted.
LEMMA KeysGrow ==
  ASSUME SystemInv, [QueryNext]_systemVars
  PROVE  granted' \in Nat /\ granted' >= granted
<1>0. granted \in Nat
  BY DEF SystemInv, IInv, TypeInv
<1>1. CASE ShareNext
  <2>1. ASSUME NEW c \in Clients, ClientStep(c) \/ ServerStep(c) \/ MpcStep(c)
        PROVE  granted' \in {granted, granted + 1}
    BY <2>1 DEF ClientStep, GetTurn, ReceiveOutputs, ClientFails, MarkFinished, Grant, End,
                ServerStep, Request, Refuse, AskForLock, StartTask, CountFails, Record,
                CommitFails, GiveUp, PostFails, MpcStep, Input, Reveal
  <2>2. ASSUME NEW p \in Parties, NEW c \in Clients, HandlerStep(p, c)
        PROVE  UNCHANGED granted
    BY <2>2 DEF HandlerStep, Backup, PrepareFails, Run, Write, Answer, Rollback, PartyStep
  <2>3. ASSUME NEW p \in Parties, TurnTimesOut \/ ServerRestarts \/ PartyCrashes(p)
        PROVE  UNCHANGED granted
    BY <2>3 DEF TurnTimesOut, ServerRestarts, PartyCrashes, PartyStep, End
  <2> QED BY <1>0, <1>1, <2>1, <2>2, <2>3, ShareAssumption DEF ShareNext
<1>2. ASSUME NEW q \in Queriers, QuerierStep(q) \/ \E p \in Parties : ProgramStep(p, q)
      PROVE  granted' \in Nat /\ granted' >= granted
  BY <1>2, QueryStepShares
<1>3. ASSUME NEW p \in Parties, NEW c \in Clients, RollbackForPorts(p, c) PROVE UNCHANGED granted
  BY <1>3 DEF RollbackForPorts, PartyStep
<1>4. CASE UNCHANGED systemVars
  BY <1>0, <1>4 DEF systemVars, shareVars
<1> QED BY <1>0, <1>1, <1>2, <1>3, <1>4 DEF QueryNext

\* Steps of a query that touch neither its count, its answer nor what has been read.
LEMMA QueryStages ==
  ASSUME SystemInv, NEW q \in Queriers, UNCHANGED <<db, counted, inputs, answer>>,
         \A r \in Queriers : /\ querier'[r] \in {"idle", "ready"} => querier[r] \in {"idle", "ready"}
                             /\ \A p \in Parties :
                                  /\ program'[p][r] # "none" => program[p][r] # "none"
                                  /\ program'[p][r] = "running" => program[p][r] = "running"
  PROVE  ReadInv' /\ ResultsAreOfRecorded'
BY DEF SystemInv, ReadInv, ResultsAreOfRecorded

LEMMA RequestQueryReads ==
  ASSUME SystemInv, NEW q \in Queriers, RequestQuery(q)
  PROVE  ReadInv' /\ ResultsAreOfRecorded'
<1>1. /\ querier[q] = "ready" /\ answer[q] = None /\ UNCHANGED <<db, inputs, answer>>
      /\ Len(db) \in 1 .. Len(db)
  BY SeqFacts DEF RequestQuery, SystemInv, IInv, ReadInv, shareVars
<1>2. /\ \A r \in Queriers : /\ querier'[r] = IF r = q THEN "connecting" ELSE querier[r]
                             /\ counted'[r] = IF r = q THEN Len(db) ELSE counted[r]
      /\ \A p \in Parties, r \in Queriers :
           program'[p][r] = IF r = q THEN "sent" ELSE program[p][r]
  BY DEF RequestQuery, SetQuerier, SystemInv, QueryTypeOK
<1> QED BY <1>1, <1>2 DEF SystemInv, ReadInv, ResultsAreOfRecorded

LEMMA RunQueryReads ==
  ASSUME SystemInv, PartyInv, NEW q \in Queriers, NEW p \in Parties, RunQuery(p, q)
  PROVE  ReadInv' /\ ResultsAreOfRecorded'
<1>1. /\ program[p][q] = "sent" /\ shares[p] # None
      /\ UNCHANGED <<db, querier, counted, answer>>
      /\ \A s \in Parties, r \in Queriers :
           /\ program'[s][r] = IF s = p /\ r = q THEN "running" ELSE program[s][r]
           /\ inputs'[s][r] = IF s = p /\ r = q THEN shares[p] ELSE inputs[s][r]
  BY DEF RunQuery, SetProgram, SystemInv, QueryTypeOK, shareVars
<1>2. \A i \in 1 .. Len(db) : shares[p][i] = db[i]
  BY <1>1, SeqFacts DEF SystemInv, IInv, PartyInv, FilesInv, Agrees
<1>3. counted[q] \in 1 .. Len(db) /\ Len(db) \in Nat
  BY <1>1, SeqFacts DEF SystemInv, IInv, ReadInv
<1>4. \A i \in 1 .. counted[q] : shares[p][i] = db[i]
  BY <1>2, <1>3
<1>5. ReadInv'
  BY <1>1, <1>4 DEF SystemInv, ReadInv
<1> QED BY <1>1, <1>5 DEF SystemInv, ResultsAreOfRecorded

LEMMA ComputeReads ==
  ASSUME SystemInv, NEW q \in Queriers, Compute(q)
  PROVE  ReadInv' /\ ResultsAreOfRecorded'
<1> DEFINE result == [p \in Parties |->
             [i \in Indices |-> IF i <= counted[q] THEN inputs[p][q][i] ELSE None]]
<1>1. /\ \A p \in Parties : program[p][q] = "running"
      /\ UNCHANGED <<db, inputs, counted>>
      /\ \A r \in Queriers : /\ querier'[r] = IF r = q THEN "answered" ELSE querier[r]
                             /\ answer'[r] = IF r = q THEN result ELSE answer[r]
      /\ \A p \in Parties, r \in Queriers :
           program'[p][r] = IF r = q THEN "revealed" ELSE program[p][r]
  BY DEF Compute, SetQuerier, SystemInv, QueryTypeOK, shareVars
<1>2. /\ counted[q] \in 1 .. Len(db) /\ Len(db) \in Nat /\ DOMAIN db = 1 .. Len(db)
      /\ \A p \in Parties, i \in 1 .. counted[q] : inputs[p][q][i] = db[i]
  BY <1>1, SeqFacts, ShareAssumption DEF SystemInv, IInv, ReadInv
<1>3. \A p \in Parties, i \in Indices :
        IF i <= counted[q] THEN i \in DOMAIN db /\ result[p][i] = db[i] ELSE result[p][i] = None
  BY <1>2, ShareAssumption, FS_CardinalityType DEF Indices
<1> HIDE DEF result
<1>4. ReadInv'
  BY <1>1, <1>2 DEF SystemInv, ReadInv
<1>5. ResultsAreOfRecorded'
  BY <1>1, <1>3 DEF SystemInv, ResultsAreOfRecorded
<1> QED BY <1>4, <1>5

LEMMA QueryStepReads ==
  ASSUME SystemInv, NEW q \in Queriers,
         QuerierStep(q) \/ \E p \in Parties : ProgramStep(p, q)
  PROVE  ReadInv' /\ ResultsAreOfRecorded'
<1>0. UNCHANGED db
  BY QueryStepShares DEF coordVars
<1> USE DEF SetQuerier, SetProgram, SystemInv, QueryTypeOK
<1>1. CASE GetTurnToQuery(q)
  BY <1>0, <1>1, QueryStages DEF GetTurnToQuery
<1>2. CASE RequestQuery(q)
  BY <1>2, RequestQueryReads
<1>3. CASE RefuseQuery(q) \/ ReceiveResults(q) \/ QuerierFails(q) \/ FinishQuery(q)
  BY <1>0, <1>3, QueryStages DEF RefuseQuery, ReceiveResults, QuerierFails, FinishQuery
<1>4. CASE Compute(q)
  BY <1>4, ComputeReads
<1>5. ASSUME NEW p \in Parties, RunQuery(p, q)
      PROVE  ReadInv' /\ ResultsAreOfRecorded'
  BY <1>5, RunQueryReads
<1>6. ASSUME NEW p \in Parties, FailQuery(p, q) \/ EndQuery(p, q)
      PROVE  ReadInv' /\ ResultsAreOfRecorded'
  <2>1. \E stage \in {"failed", "ok"} : \A s \in Parties, r \in Queriers :
          program'[s][r] = IF s = p /\ r = q THEN stage ELSE program[s][r]
    BY <1>6 DEF FailQuery, EndQuery
  <2>2. UNCHANGED <<querier, counted, inputs, answer>> /\ program[p][q] # "none"
    BY <1>6 DEF FailQuery, EndQuery
  <2> HIDE DEF SystemInv, QueryTypeOK
  <2> QED BY <1>0, <2>1, <2>2, QueryStages
<1> QED BY <1>1, <1>2, <1>3, <1>4, <1>5, <1>6 DEF QuerierStep, ProgramStep


LEMMA QueryStepType ==
  ASSUME SystemInv, ShareTypeOK', NEW q \in Queriers,
         QuerierStep(q) \/ \E p \in Parties : ProgramStep(p, q)
  PROVE  QueryTypeOK'
<1>0. granted \in Nat /\ granted' \in Nat /\ granted' >= granted /\ UNCHANGED shares
  BY QueryStepShares DEF SystemInv, IInv, TypeInv, partyVars
<1> USE DEF SetQuerier, SetProgram, SystemInv, QueryTypeOK
<1>1. CASE GetTurnToQuery(q)
  BY <1>0, <1>1 DEF GetTurnToQuery, Grant
<1>2. CASE RequestQuery(q)
  <2>1. Len(db) \in 1 .. Len(db)
    BY <1>2, SeqFacts DEF RequestQuery, IInv
  <2>2. Len(db) \in 1 .. Cardinality(Clients)
    BY <2>1, RowsAreIndices DEF Indices
  <2> QED BY <1>0, <1>2, <2>2 DEF RequestQuery, shareVars
<1>3. CASE RefuseQuery(q) \/ ReceiveResults(q)
  BY <1>0, <1>3 DEF RefuseQuery, ReceiveResults, shareVars
<1>4. CASE QuerierFails(q)
  BY <1>0, <1>4 DEF QuerierFails
<1>5. CASE FinishQuery(q)
  BY <1>0, <1>5 DEF FinishQuery, End
<1>6. CASE Compute(q)
  <2> DEFINE result == [p \in Parties |->
               [i \in Indices |-> IF i <= counted[q] THEN inputs[p][q][i] ELSE None]]
  <2>1. \A p \in Parties : inputs[p][q] \in Values
    BY <1>6 DEF Compute, ReadInv
  <2>2. result \in [Parties -> Values]
    BY <2>1 DEF Values
  <2> HIDE DEF result
  <2>3. answer' \in [Queriers -> [Parties -> Values] \cup {None}]
    BY <1>6, <2>2 DEF Compute, result
  <2> QED BY <1>0, <1>6, <2>3 DEF Compute, shareVars
<1>7. ASSUME NEW p \in Parties, RunQuery(p, q) PROVE QueryTypeOK'
  <2>1. shares[p] \in Values \cup {None}
    BY DEF ShareTypeOK
  <2>2. inputs' \in [Parties -> [Queriers -> Values \cup {None}]]
    BY <1>7, <2>1 DEF RunQuery
  <2> QED BY <1>0, <1>7, <2>2 DEF RunQuery, shareVars
<1>8. ASSUME NEW p \in Parties, FailQuery(p, q) PROVE QueryTypeOK'
  BY <1>0, <1>8 DEF FailQuery
<1>9. ASSUME NEW p \in Parties, EndQuery(p, q) PROVE QueryTypeOK'
  BY <1>0, <1>9 DEF EndQuery, shareVars
<1> QED BY <1>1, <1>2, <1>3, <1>4, <1>5, <1>6, <1>7, <1>8, <1>9 DEF QuerierStep, ProgramStep

-----------------------------------------------------------------------------
(***************************************************************************)
(* The theorems.                                                           *)
(***************************************************************************)
LEMMA InitSystem == QueryInit => SystemInv
<1> SUFFICES ASSUME QueryInit PROVE SystemInv
  OBVIOUS
<1>1. IInv /\ PartyInv
  BY InitType, InitServer, InitSerial, InitFiles, InitTrace DEF QueryInit, IInv, PartyInv
<1>2. QueryTypeOK
  BY <1>1 DEF QueryInit, QueryTypeOK, IInv, TypeInv
<1>3. ReadInv /\ ResultsAreOfRecorded
  BY DEF QueryInit, ReadInv, ResultsAreOfRecorded
<1> QED BY <1>1, <1>2, <1>3 DEF SystemInv

LEMMA StepSystem ==
  ASSUME MaxLost = 0, SystemInv, [QueryNext]_systemVars
  PROVE  SystemInv'
<1>1. IInv' /\ PartyInv'
  BY StepShares
<1>2. CASE UNCHANGED queryVars
  BY <1>1, <1>2, KeysGrow, QueriesUnchanged DEF SystemInv
<1>3. ASSUME NEW q \in Queriers, QuerierStep(q) \/ \E p \in Parties : ProgramStep(p, q)
      PROVE  SystemInv'
  BY <1>1, <1>3, QueryStepType, QueryStepReads DEF SystemInv, IInv, TypeInv
<1>4. UNCHANGED queryVars \/ \E q \in Queriers : QuerierStep(q) \/ \E p \in Parties : ProgramStep(p, q)
  BY DEF QueryNext, systemVars, RollbackForPorts
<1> QED BY <1>2, <1>3, <1>4

LEMMA SystemAlways ==
  ASSUME MaxLost = 0
  PROVE  SystemSpec => []SystemInv
<1>1. SystemInv /\ [QueryNext]_systemVars => SystemInv'
  BY StepSystem
<1> QED BY <1>1, InitSystem, PTL DEF SystemSpec

\* Each query counts no more rows than there are clients, reads shares that
\* somebody has sent, and gets one result from all parties or none.
THEOREM QueryTypeCorrect ==
  ASSUME MaxLost = 0
  PROVE  SystemSpec => []QueryTypeOK
<1>1. SystemInv => QueryTypeOK
  BY DEF SystemInv
<1> QED BY <1>1, SystemAlways, PTL

\* Results are of the recorded shares, for any number of clients, queriers and
\* parties: whatever sharing sessions write and roll back at the parties while
\* the programs of a query read their files, and whichever programs fail because
\* others have their ports.
THEOREM ResultsCorrect ==
  ASSUME MaxLost = 0
  PROVE  SystemSpec => []ResultsAreOfRecorded
<1>1. SystemInv => ResultsAreOfRecorded
  BY DEF SystemInv
<1> QED BY <1>1, SystemAlways, PTL

\* Once a row is counted no party lacks a file, so that no query ends for want
\* of data: a rollback never removes the file that a query will read.
THEOREM CountedCorrect ==
  ASSUME MaxLost = 0
  PROVE  SystemSpec => []CountedMeansPresent
<1>1. ASSUME SystemInv PROVE CountedMeansPresent
  <2> SUFFICES ASSUME NEW q \in Queriers, NEW p \in Parties, program[p][q] = "sent"
               PROVE  shares[p] # None
    BY DEF CountedMeansPresent
  <2>1. counted[q] \in 1 .. Len(db)
    BY <1>1 DEF SystemInv, ReadInv
  <2>2. db # <<>>
    BY <1>1, <2>1, SeqFacts DEF SystemInv, IInv
  <2> QED BY <1>1, <2>2 DEF SystemInv, PartyInv, FilesInv, Agrees
<1> QED BY <1>1, SystemAlways, PTL

\* Queries do not disturb sharing: its sessions stay apart, the parties hold
\* what was recorded and a failed session leaves no trace, although a query may
\* take the ports of a sharing program and make it roll back.
THEOREM SharingBesideQueriesCorrect ==
  ASSUME MaxLost = 0
  PROVE  SystemSpec => [](OneSessionAtATime /\ RecordedSharesPresent /\ FailedLeavesNoTrace)
<1>1. SystemInv => OneSessionAtATime /\ RecordedSharesPresent /\ FailedLeavesNoTrace
  BY SerialMeans, FilesMean, TraceMeans DEF SystemInv, PartyInv
<1> QED BY <1>1, SystemAlways, PTL
=============================================================================
