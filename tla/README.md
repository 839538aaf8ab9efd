# Verification of mpc-demo-infra

TLA+ models, TLC runs and TLAPS proofs for the MPC demo: a service in which people share a
secret (their Binance balance, proved with TLSNotary) with three MPC parties, and in which
anybody can query statistics of what was shared. Paths below are relative to
`src/mpc_demo_infra/`.

## The system

| part | state | operations | interacts with |
|---|---|---|---|
| user queue, `coordination_server/user_queue.py` | linked list of users, dictionary of positions, the key and start time of the head | `add_user`, `add_priority_user`, `get_position`, `get_computation_key`, `validate_computation_key`, `finish_computation`, `_timeout_head_user` | called by the handlers of the coordination server |
| coordination server, `coordination_server/routes.py`, `database.py` | `sharing_data_lock`, background tasks, table `mpc_sessions`, files of proofs | `share_data`, `query_computation`, and the queue's endpoints | posts to all parties, answers clients |
| computation party, `computation_party_server/routes.py` | file of shares `Transactions-P<i>.data`, backups of it, directory of certificates, generated programs | `request_sharing_data_mpc`, `request_querying_computation_mpc`, `get_party_cert` | runs the MPC programs, which meet those of the other parties |
| MPC programs, `program/*.mpc` | `client_values`, `commitment_values` | take an input, write it, reveal a commitment; compute statistics | the client's sockets, the file of shares |
| client library and command line, `client_lib`, `client_cli` | access key, computation key, sockets | enter the queue, poll, ask, run the client side of the MPC, mark as finished | coordination server, parties |
| data consumer API, `data_consumer_api/routes.py` | cached statistics, flag, background task | one GET | a priority client of the queue |
| configuration, limiters, schemas, logging, middleware, notary, docker | constants | none that change state | |

What is hard here:

- A computation needs *three* servers, the client and the coordinator to agree, but the
  coordinator's `share_data` answers the client before the parties have done anything, and the
  client has its output before the parties have decided to keep the share.
- The parties' handlers are threads that nobody cancels; the coordinator's tasks and lock live
  in memory; only the table, the proofs and the files of shares are persistent.
- Two mechanisms serialise computations, the turn in the queue and the lock, and either can end
  while the parties are still working: the turn by its timeout, the lock by a failed POST.
- The parties prepare an MPC with files whose names earlier sessions have used, and in the
  default configuration and in the tests all parties share one directory.
- The client talks to three programs, of which one may deviate, fail or close its connection at
  any point, and numbers change their representation four times between a client's float and the
  hash that the program opens.
- The queue keeps the same fact (who is where) twice and updates the copies differently.
- The data consumer API reads a flag before an `await` and sets it after.

What makes the parts correct: the queue agrees with its dictionary, gives the turn to one user
at a time under a fresh key, and lets nobody overtake; a session is recorded only if every party
holds its share, and a failed one leaves nothing and blocks nobody; a query computes over what
was recorded, the same at every party; programs that meet know the client and each other and are
those of this session; a client sends nothing under masks it has not checked, the program opens
the commitment of TLSNotary to its data, and the client ends; the cache fills, and catches up as
long as queries return. The list of hazards, each at its line and with the properties that watch
it, is in `PROJECT.json`.

## The modules

Each line: a module, those that extend it or implement it by a refinement, and its proofs.

    TurnLease       ShareData, UserQueue (which implements it)
    UserQueue       QueueClients, UserQueueList (which implements it)   UserQueueProofs
    UserQueueList                                          UserQueueListProofs
    QueueClients                                           QueueClientsProofs
    ShareData       ShareSerial, QueryData                 ShareProofs
    ShareSerial                                            ShareProofs
    QueryData                                              ShareProofs
    ConsumerCache                                          CacheProofs
    PartyFiles                                             PartyFilesProofs
    Encodings       Statistics, and from there MpcClient   NumberProofs
    MpcClient                                              MpcClientProofs, from NumberProofs

Modules whose names begin with MC give the constants of a run.

**TurnLease** is the abstract specification: at most one holder of the turn, each under a new
key. It stands for the queue wherever the queue's inside does not matter.

**UserQueue** has one action per method. `users` is the list, `user_positions` the dictionary,
`issued` counts the computation keys drawn (a token is named by its rank; tokens never repeat).
The time of the head is kept as its age, since only the difference to now is ever used, and
`Tick` stops one unit after the timeout, when nothing more can change. The endpoints are
`async def` functions without an `await` between reading and writing the queue, and the server
runs one event loop, so a method is one step; the reader-writer lock has then nothing to do.
`Restart` is a new server process (`lifespan`).

**UserQueueList** is the same class with `User` objects, `next`, `users_head`, `users_tail` and
`users_len` in a heap; the private methods are functions from queue to queue, composed as the
public ones call them. Objects nobody refers to are collected, so that a bounded number is
enough.

**QueueClients** composes the queue with the functions of `client_lib/lib.py` that use it. A
client that gets any result but an error leaves `add_user_to_queue` (see the findings), polls,
receives the position read *before* and the key read *after* the eviction of the head, asks, and
marks its computation as finished in all cases. Clients may be slow (up to `PollDuration`
between polls) and may die. A priority user that is done may `ComeAgain` under a new access key,
as the data consumer API does every period. Tokens are ranks, and `Rename` closes the gap of the
old one, so that a bounded number is enough for any number of visits.

**ShareData** is sharing. The coordinator's steps are cut at its awaits: `Request` (up to the
await of the verifier), `Refuse`/`AskForLock` (verifier's answer, check of the uid, `acquire`),
`StartTask` (lock held, rows counted, task created, response sent), then the task: `Record`,
`CommitFails`, `GiveUp`, `PostFails`. `CommitFails` has
written the proof when the row cannot be inserted. `CountFails` is the database failing between `acquire` and `try`. A
handler at a party goes through `Backup`, `Run`, (input), `Write`, (reveal), `Answer`, or
`PrepareFails` / `Rollback`. `Input` and `Reveal` need all parties at once, as the MPC does.
`shares[p]` is the array `client_values` of party p with the provider whose share an entry is;
the shares themselves are not numbers here. `faults` bounds each kind of failure. A client may
fail before it has connected only at the cost of the bound `MaxLost`: the program then waits for
it until the POST times out (`PostFails`). `MaxLost` also bounds the restarts of the server
and the deaths of parties (`PartyCrashes`), whose handlers are gone and whose files stay.

**ShareSerial** adds a history variable to it, `overlapped`: whether handlers of two sessions
have ever been at work at a time. No step reads it.

**QueryData** adds queries to ShareData without changing its steps. A query takes no lock, and
its program reads the files while a sharing session of an earlier turn may still be writing or
rolling back. Programs at one party have the same ports, so either may fail because of the other
(`FailQuery`, `RollbackForPorts`). `Compute` needs the programs of one query at all parties; the
programs of two queries whose turns overlap, which have the same ports and the same name, are
never mixed in the model, and nothing is claimed about them.

**PartyFiles** is what the handlers do before and while a program runs, file by file:
`clean_up_player_data_dir` (list, then remove), the client's certificate, `c_rehash`, one thread
per other party that fetches a certificate and writes it under the file's lock (opening empties
the file), the generated program, its bytecode, the running program. `root` says which directory
a party uses: its own, or one for all. `client` is the id under which the certificate is stored
and `circuit` the name of the program; both come from the request. A client who shares has the
time modulo `MAX_CLIENT_ID` as its id and one who queries has 0, so ids may come again. `c_rehash`
is an external tool and one step, also in a directory in which other handlers are at work. What a file holds is an origin
(a session, the certificate in use, an older one, nothing yet). Sessions follow one another, as
`OneSessionAtATime` of ShareData says; a death of a party may come at any step and leaves the
files as they are.

**Encodings** has the conversions: bytes and integers with `reverse_bytes`, which takes as many
bytes as the number needs; `hex`, the text of a number without leading zeros (a byte has two
digits of `Nibble` values each); `Domain` with the sign of its upper half; the amount as an integer,
where `Inexact` are the amounts whose product in floating point is cut to one unit less (0.09
and 0.57 with `int(value * 10 * scale)`); and the nonce's bytes and the text's digits as the
program computes them from what it has received. SHA-3 and the encoding of TLSNotary are external:
a commitment is the pair of nonce and text, so equal hashes are equal pairs.

**Statistics** is `query_computation.mpc` on opened values and `run_computation_query_client` on
its outputs, with quotients as pairs of integers and hashes as the texts that it gives out, and
next to them what they mean. The median of `mpcstats_lib` is external: any of the values it may be
for an even number is allowed, and no property is about it.

**MpcClient** is the client of an MPC over its sockets and the two programs as far as they talk
to it. `pc` and `at` are the client's place in the code and in the list of sockets;
`wait_count`, `message`, `missing` and `first` are the variables of `Client.__init__` and
`octetStream.Receive`. A message is a header and units of body, of which a call of `recv` takes
any number. `deviation` is what one party does differently: another specification, another
number of shares, or wrong shares. Shares are true or not; the values and results are chosen
when the client has added up the last output (`OpenResult`), since nobody can know them before;
`receive_outputs` takes them through the ring and its sign.

**ConsumerCache** is the data consumer API. Statistics are named by how many shares they were
computed over. One browser's GET and the background task it created share the variable
`updater`, as they never run `update_cache` at the same time. `QueryHangs` is a query that never
returns: a priority user that the queue has refused, evicted or forgotten polls for good, and a
client may spin in `Receive`. Its GET is never answered, its task never wakes.

`PROJECT.json` maps every definition to the lines it models. Operators whose comment begins with
"Mutant" are plausible mistakes and no part of a specification; each property is shown to notice
one of them.

## The runs

| run | bounds | shows |
|---|---|---|
| `queue` | 4 users, 3 places, timeout 1, 8 keys | list and dictionary agree, no duplicates, size respected, one running turn, nobody overtakes, reads under the read lock do not write, the lease is implemented |
| `queue_list` | 4 users, 3 places, 4 objects, 7 keys | pointers implement the sequence, the tail is right whenever it matters |
| `clients` | 3 clients (1 with priority, which comes again and again), room for all, 1 death, 9 keys | waiting clients are queued, "ready" comes with a key, late finishes harm nobody, everyone is served |
| `share_progress` | 2 clients, 2 parties, 1 eviction, 1 failure, 1 lost connection, death or restart, `MAX_DATA_PROVIDERS` 3 | every request behind the lock ends, ended requests have released the lock, no proof is mixed up, and without overlapping sessions recorded shares stay |
| `query_faults` | 3 clients, 1 querier, 2 parties, 1 eviction, 1 failure, 1 database error, `MAX_DATA_PROVIDERS` 3 | recorded rows have their shares at all parties, failed sessions leave nothing, sessions do not overlap; results are over the recorded shares, the same at all parties; a counted query finds its data |
| `cache` | 2 browsers, 2 shares, 2 failures, any number of hanging queries | nobody is answered 503, and the cache catches up, whatever fails, if there is a task that does not hang |
| `party_files` | 2 parties with one or two directories, 3 client ids, 3 sessions, 1 failure, 1 death | programs that meet know the client and each other and run what was generated in this session; a death costs one computation |
| `mpc_client` | 3 parties, patience of 1, 2 failures, bytes of 4 values (two digits of 2), nonces and hashes of 3 bytes, a ring of 2^19, 30 inputs, 312 files of 1 to 3 values | deviations are caught before an input is sent, the commitment is that of TLSNotary unless two named reasons, results are true and the text of a hash is right exactly if it has no zero digit in front and no zero byte at its end, the client ends |

Runs that show a disagreement between the code and what it says of itself:

| run | property | what happens |
|---|---|---|
| `clients_full` | `EveryoneServed` | a client refused by the full queue never tries again: `2 == AddResult.QUEUE_IS_FULL` is false for an `Enum` |
| `share_lost` | `OneSessionAtATime` | after a lost POST the lock is free while the parties work |
| `share_uid` | `OneContributionPerUid` | the uid is checked before the lock, and the row is written after the turn is over |
| `client_nonce` | `CommitmentsMatch` | a nonce that begins with a zero byte reaches the program shifted by a place |

Further places where the code does not do what its text says; the models contain them, no run is
spent on each:

- A head that polls after the timeout evicts itself and is told position 0 with the key `None`
  (`get_position` reads the place before `get_computation_key` evicts). `clients` therefore
  bounds the time between polls by the timeout.
- The count of rows stands between `acquire` and `try`: if the database fails there the lock is
  never released (`CountFails`). `share_progress` has no database error for that reason;
  `query_faults`, which checks no progress, has one.
- The index of a provider counts from 1 and is compared with `>=`: `MAX_DATA_PROVIDERS` is one
  more than the providers there can be. In `query_faults` the third client meets it.
- The row of a session is written after its client has its output: a query right after may count
  without it, and still answers over what is recorded (`ResultsAreOfRecorded`).
- A turn may time out while its computation runs, and the next computation then starts on the
  same ports (`FailQuery`, `RollbackForPorts`).
- A client is told of a success before a party may still roll back, and before the row is
  written.
- Two early GETs create two background tasks. With two recurring priority users the regular ones
  can starve: each of the two goes to the second place while the other has the turn. `clients`
  therefore has one.
- Handlers of two sessions at a time remove each other's client certificates.
- In a directory that all parties share, a certificate that is being written can be read empty by
  its owner's `get_party_cert`, fetched, and stored for good. `PartiesAreKnown` is about
  directories of their own.
- `query_computation.mpc:58` takes `result[1]`, the maximum, for the divisor of the Gini
  coefficient; the client divides by the sum, as it should. Of zeros only the coefficient is -1.
- The text of a hash that a query gives out is another one if the hash begins with a zero digit,
  which `hex(...)[2:]` drops (one hash in 16), or ends with a zero byte, which `reverse_bytes`
  drops (`ResultsAreTrue` says so).
- A background task whose query never returns never queries again, nor does anything tell. If all
  of them hang the cache stays as it is; a first GET that hangs is never answered (`QueryHangs`).
- `query_computation_and_verify` prints `results` after an exception that has left it unbound
  (`client_cli/main.py:156`).
- The proof is written to a temporary file that the verifier opens by name before anything has
  flushed it (both `routes.py`).
- `Receive` spins when its connection is closed within a body (`Spinning`).
- The data consumer API never looks at the age of its cache: it serves whatever it has.

Why the bounds are enough: three places are the least for which head, second place and tail
differ, and a fourth user meets the full queue. Keys bound how often users enter again; seven or
eight let everyone leave and come back. Two parties are the least that can disagree, and the code
treats all alike; three parties in `party_files` give more than 11 million states and no case
that two and the shared directory do not have, while `mpc_client` has three, so that one is first,
one last and one between. With three clients a session can fail behind one success and before
another. One failure of a kind is enough to separate the parties, as its consequences for the
others cost nothing. Three sessions let a death in one be seen in the next and be repaired in the
one after. Bytes of four values and three of them have every pattern of leading and trailing
zeros; of the hashes one comes back, one begins with a zero digit, one with a zero byte and one ends
with a zero byte. The timeouts of one unit separate "before", "at" and "after" the limit. Parties and
clients are interchangeable, so `query_faults` and `party_files`, which check invariants only, use
symmetry. Deadlock is checked for the queue; the other systems end when every client has ended.

## Fairness

- `QueueClients`: weak fairness of each living client's next step (its loops have no exit but
  the ones modelled), of the computation's end, and of time. A computation that never ends, as
  `Receive` spins when its connection is closed within a body, is a `Crash`: for the queue such a
  client equals a dead one. Nothing forces a client to die, to come again or a request to succeed.
- `ShareData`: weak fairness of each client, of the server's steps for each request (an event
  loop runs what is ready), of each party's handler (a thread of its own), and of the joint steps
  of the MPC. The fair steps are those
  that leave the counters of failures alone (`Sound`), so no failure, eviction, death or restart is
  ever forced. A POST to parties that all wait
  for a client that is gone does end, by the timeout of the HTTP session; `share_progress`, which
  checks liveness, assumes only that the database does not fail while the lock is held.
- `MpcClient`: weak fairness of the client's next step that is no failure, of the common
  computation, and of each program's next step; the client's loops have no other exits and the
  sockets have a timeout, which is only taken when something has failed.
- `ConsumerCache`: weak fairness of each update step and of time. Nothing makes a query return: it
  may hang at any time (`QueryHangs`), after which no step of its update is enabled. So
  `EventuallyFresh` has the condition that some task does not hang, which the code does not
  ensure. An update may also end by raising, but only `MaxFailures` times: if queries fail forever
  the cache stays old.

## The proofs

`UserQueueProofs` proves, for any set of access keys, any size of the queue, any timeout and any
bound on the keys (assumption `QueueAssumption` only):

- `QueueCorrect`: `QueueSpec => [](QueueTypeOK /\ QueueInv)`, and for each part of `QueueInv`
  `OnePlaceEach`, `PositionsCorrect`, `NeverTooLong`, `HeadCorrect`;
- `OrderCorrect`: `QueueSpec => NobodyOvertakes`;
- `ReadLockCorrect`: `QueueSpec => ReadLockReads`;
- `LeaseCorrect`: `QueueSpec => ImplementsTurnLease`.

The inductive invariant is `QueueTypeOK /\ QueueInv`: no part is inductive alone.
`PositionsAgree` needs `NoDuplicates`, since the dictionary keeps one entry per key;
`NoDuplicates` needs `PositionsAgree`, since `add_user` asks the dictionary and not the list;
`OnlyHeadHasTurn` is what makes a key of `finish_computation` belong to the head. The lemmas say
what appending, inserting at the second place and popping do to the list and to the map of
positions; each action's step cites them. The two action properties and the refinement follow
from the invariant, step by step.

`UserQueueListProofs` proves of the linked list, for any number of users, places and objects
(`ListAssumption`: there are more objects than places), `ListTypeOK`, `TailIsLast`,
`DictionaryPointsIntoList` and the refinement `ImplementsUserQueue`. The invariant `LInv` says that
some sequence of different objects is the list: the head is its first, each but the last has the
next one as `next`, the last has none and is the tail, its length is `users_len`, and the
dictionary leads to objects of it. `ChainIs` shows that the walk along `next` finds just that
sequence, which needs an induction over its length; it goes by the library's theorem on
well-founded relations, for a set of numbers (`NatSet`). That an object is free when one is needed
is counting: a list with a place left and an old tail are together no more objects than there are
places. Then each private method has a lemma on the sequence (append, insert behind the head,
drop the first), and each public one a lemma that composes them as the code does. `StepView` is the
refinement step by step; `ListQueueCorrect` carries `QueueInv` over to the pointers, by an
instance of `UserQueueProofs` under the same mapping.

`QueueClientsProofs` is about the clients, for any number of them, with or without priority, alive
or dead, and any bounds: `ClientsTypeCorrect` (the queue keeps `QueueInv` under its clients, too)
and `LateFinishCorrect` without further assumptions; `ReadyCorrect` (`ReadyMeansKey`) if clients
poll within the timeout (`Punctual`), which the code does not ensure (see the findings);
`WaitersCorrect` (`WaitersAreQueued`) if the queue has room for all as well (`Roomy`), since
`clients_full` shows what else happens. The invariant adds that clients hold no key that has not
been drawn (`HeldInv`), that one who has yet to enter has no place (`NewcomersInv`), and that the
turn of a client who does not know of it is no older than the client's last poll (`FreshInv`): this
is why nobody is evicted while waiting. `RenamingIsInvisible` says that closing the gap of an old
key, a device of the model, changes the validity of no key.

`ShareProofs` is about sharing, for any clients, parties, accounts and bounds (`ShareAssumption`: the clients are finitely many, there is a party, and `None` is neither
a client nor a list of shares).

- `ShareTypeCorrect` and `ProofsCorrect` hold whatever is lost, dies or restarts.
- `ReleaseCorrect` (`EndedMeansReleased`) assumes `MaxDbErrors = 0`: `CountFails` does keep the
  lock.
- `SessionsCorrect` (`OneSessionAtATime`), `SharesCorrect` (`RecordedSharesPresent`) and
  `TraceCorrect` (`FailedLeavesNoTrace`) assume `MaxLost = 0`: run `share_lost` shows the first to
  fail otherwise.

The server's part of the invariant is that the lock holds whoever waits for it once and the open
session at its head (`LockInv`), that the open session has the index of the next row and rows are
of different clients (`RowsInv`), and that proofs agree with rows; `ProofsAgree` alone is not
inductive, because a session writes a proof at the index it has counted earlier. The parties' part
begins with `SerialInv`: a handler works only while the task of its client awaits it. That needs
the other half, that a client only leaves when some handler is past its input, as else the POST
could time out with programs running. With one session at a time `FilesInv` follows: files,
backups and memories agree with the rows, and the open session has its own entry where a program
has got that far. The backups must be in it since `Rollback` makes one the file, and the memories
since `Write` does. `TraceInv` says of each of the three where a client's entry can be, and is
what a rollback at the last party relies on.

Its second part proves `SerialSessionsCorrect` (`SerialSessionsKeepShares`), of `ShareSerial`, whatever
is lost, dies or restarts, for any clients, parties and bounds. `SerialInv` does not hold then; what
takes its place, as long as sessions have not overlapped, is `AloneInv`: while handlers of a
client work, nobody else's do, no other client's task is open, and the entry they write is that
of the next row. `SerialInv` implies it, so both theorems share the lemmas on `FilesInv`. So it is overlapping, and
no single loss, that takes a recorded share away.

Its last part, on QueryData, is about queries beside sharing: `ResultsCorrect`, `CountedCorrect` and
`SharingBesideQueriesCorrect`, again for `MaxLost = 0`, and `QueryTypeCorrect`. Steps of queries leave the invariant above
alone, except that `RollbackForPorts` is a rollback for another reason; rows only ever grow, so
what a query has counted and a program has read stays true (`ReadInv`).

`CacheProofs` proves `CacheTypeOK` and `NeverUninitialised` (`CacheAssumption`), whichever queries
fail or hang: the flag is only set where a result is stored in the same step.

`PartyFilesProofs` proves `FilesTypeOK`, `ClientIsKnown`, `PartiesAreKnown`, `RunsOwnProgram` and
`DeathCostsOneComputation` for any number of parties, sessions, failures and deaths
(`FilesAssumption`), the second for any sharing of directories. Its invariant says that the client's
certificate is there unless somebody in that directory has removed it and has yet to write it
again, or has ended, with which the programs do not meet; and the same for its link, one stage
later. For deaths `LinkInv` says when a certificate may be empty or a link missing: while a thread
writes, or since a death, or until the computation that suffers from it has ended.

`MpcClientProofs` proves `ClientTypeOK` and `DeviationsAreCaught` for any number of parties from two
on, wherever the deviation is, and whatever fails, comes in pieces or comes late
(`ClientAssumption`). `Due(p)` is what the client does next with a socket. `FlowInv` ties to it how
far that party's program can be, and that nothing comes down a socket but the message that is due or
the rest of it; so a length that is read is one that was sent, and no body runs into the next
header. `KnownInv` is what the client has learnt: the specifications it has taken are like the
first one, the shares it has added up have the length of the first, and `wrong` says whether one of
these was. With the last socket `NobodyDeviates` closes the argument: of two parties or more one
deviates at most, so an honest one exposes a length, and a length of three makes the client check
the sum. The invariant was checked on the instance of `mpc_client` before.

Its second half proves the two invariants about numbers, for every base and width of bytes, every
ring, and all amounts and files, on the lemmas of `NumberProofs`:

- `CommitmentsCorrect` (`CommitmentsMatchUnless`): nonce and amount pass through `hex_to_int`,
  `reverse_bytes`, the ring and the program's divisions, and come out as TLSNotary has committed
  to them exactly if the nonce does not begin with a zero byte (or is zero) and the product with
  the scale is exact. `NonceArrives` follows the bytes: dropping k leading zeros before the
  reversal shifts the number by k places. `TextArrives` follows the digits: a division by a power
  of ten after a remainder with a larger one gives the digit of the text, and one unit less at the
  last place gives another text.
- `StatisticsCorrect` (`ResultsAreTrue`): sorting only permutes, so the sum is the same
  (`TotalPermuted`, by removing the last value and wherever it came from) and so is the sum of all
  differences (`DifferencesPermuted`); the area of the sorted values is that sum's half plus n
  times the total (`AreaIsOfDifferences`), from which the Gini coefficient follows. `SortingExists`
  shows that there is a sorted order to choose. `SumsAreBounded` and `FiguresAreBounded` bound every
  figure, and `RingIsLarge` the ring, so that `OutputsReceived` finds each output on the client's
  side as it was opened. `HashArrives` does for the hashes what `NonceArrives` does for nonces, on
  the way back: the number comes back unless the last byte is zero. `TextComesBack` then says of
  the text that it has all digits exactly if the first one is not zero (`FirstByte`, `FullText`),
  and is another text otherwise, also when a last byte was lost (`LastByteLost`).

`OpenedInv`, which both rest on, says that a result is what the programs have opened for one of
the inputs or files. Two assumptions bound the data. `EncodingsAssumption`: a byte is two digits
(`Base = Nibble * Nibble`), the ring has room for twice the largest number of `Width` bytes (the code: 32 bytes and
`program_bits + 1`, 257 bits), and no money loses nothing. `NumbersAssumption`: an amount has a
text of `Digits` digits, a file holds values of such amounts, one at least and no more than its
arrays have places, nonces and hashes are `Width` bytes, and twice the largest of the outputs (the
area: squared places times the largest value) is less than the modulus. The program is generated
for the number of digits in the proof, a party refuses an index beyond the arrays, and 257 bits
leave room for amounts of 60 digits and more with a thousand providers.
TLC evaluates both on the instance of the run. The total of zero balances is treated apart in
`ResultsAreTrue`, as in the code.

The provers cannot use the library's induction theorems, whose parameter is an operator. Induction
goes over sets of numbers instead: `NatSet` says that a set with 0 and every successor is `Nat`, and
`Recursion` that a function defined by recursion is there and satisfies its equation. So powers,
`hex_to_int` and `Total` are recursive functions, with a lemma each (`PowerIs`, `HexIs`, `TotalIs`)
that everything else cites.

Model-checked only:

- All liveness (`EveryoneServed`, `RequestsEnd`, `EventuallyFresh`, `ClientEnds`): TLAPS has no
  proofs under fairness, as they need `ENABLED`.
- The four runs that show a disagreement.

## Not modelled

- The databases and the middleware of the parties, the limiters, schemas, settings and logs: no
  handler keeps state in them that another reads.
- The notary server, the docker files and the generated configuration: third-party programs and
  text.
- The line that logs the opened commitment as a text (`client_lib/lib.py:63`): nothing reads it.
- `send_public_inputs`, `receive_plain_values` and the domain `Fp` of the client: nobody calls
  them.
- SHA-3 in the circuit, the encodings of TLSNotary, its prover and verifier, and the rounding of
  results in floating point: external, or outside of what TLC can check. How MP-SPDZ divides a
  number by a power of ten with fewer bits than it has is up to that library.
- The shutdown event of the data consumer API: it reads a module variable that nobody sets and
  does nothing.
- Threads in the coordination server: its handlers are all on the event loop.
- Files of certificates while two sessions overlap: `PartyFiles` takes one session after another.

## Plan

1. (done) Queue: `TurnLease`, `UserQueue`, `UserQueueList`, `UserQueueProofs`; its clients.
2. (done) `ShareData`, `QueryData`, `ConsumerCache`, model-checked.
3. (done) `Encodings` and `Statistics`: conversions and results against their definitions.
4. (done) `MpcClient`: the client's sockets against one party that deviates or fails.
5. (done) `PartyFiles`: certificates and programs at the parties, and their death.
6. (done) A data consumer that comes again and again, deaths of parties, failed commits.
7. (done) Theorems about sharing, queries, the cache and the files of the parties.
8. (done) Theorems about the linked list and its refinement, the clients of the queue, deaths of
   parties, and the client of an MPC.
9. (done) Theorems about the numbers: conversions, commitments and statistics, for all inputs.
10. Left: `PartyFiles` with overlapping sessions; restarts of the server in `QueueClients`.
