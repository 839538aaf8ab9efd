------------------------------ MODULE MpcClient ------------------------------
(***************************************************************************)
(* The client side of an MPC: Client and octetStream of                    *)
(* client_lib/client.py, run_data_sharing_client and                       *)
(* run_computation_query_client of client_lib/lib.py, and the programs at  *)
(* the parties as far as they talk to the client.                          *)
(*                                                                         *)
(* A connection delivers units in order, as many at a time as it likes: a  *)
(* header, which carries the length, and as many units of body.  Shares    *)
(* and masks are no numbers here: shares are true, or those of a party     *)
(* that deviates.  Three of them (a value, a second one and their product) *)
(* are sent under a protocol for malicious parties, else only the value.   *)
(***************************************************************************)
EXTENDS Statistics, FiniteSets

CONSTANTS N,                 \* the parties are 1 .. N, in the order of the sockets
          MaxWait,           \* max_client_wait
          MAX_DATA_PROVIDERS,
          Digits,            \* of the amount in the notarised text
          Inputs,            \* what clients share: amounts and nonces
          Files,             \* what is in the files: values, hashes, a remainder
          None,
          MaxFaults          \* bound: failures of programs and connections

ASSUME ClientAssumption == /\ N \in Nat \ {0, 1} /\ MaxWait \in Nat
                           /\ MAX_DATA_PROVIDERS \in Nat \ {0}
                           /\ None \notin [size : 0 .. 3, true : BOOLEAN]

\* An amount has a text of so many digits; the files have room for what is
\* recorded, and the ring, in its lower half, for any output over such amounts.
\* Nobody queries when nothing is recorded.
ASSUME NumbersAssumption ==
  /\ Digits \in Nat \ {0}
  /\ Modulus > 20 * Power(10, Digits) * (MAX_DATA_PROVIDERS * MAX_DATA_PROVIDERS)
  /\ Inputs \subseteq [cents : 0 .. Power(10, Digits) - 1, nonce : [1 .. Width -> Bytes]]
  /\ \A file \in Files :
       /\ file.values \in Seq(0 .. 10 * Power(10, Digits) - 1)
       /\ Len(file.values) \in 1 .. MAX_DATA_PROVIDERS
       /\ file.hashes \in [1 .. Len(file.values) -> [1 .. Width -> Bytes]]
       /\ file.rest[2] \in [1 .. Width -> Bytes]

Sockets == 1 .. N

VARIABLES
  kind,      \* "share" or "query": the program
  active,    \* is it compiled for a protocol that tolerates malicious parties?
  deviation, \* socket -> how that party's messages differ, if at all
  pc, at,    \* the client: what it does, with which socket
  wait_count,
  message,   \* the header that has been read, or None
  missing,   \* units of its body that have not
  first,     \* the specification of the first socket
  checks,    \* active as the client has it, from the length at the first socket
  wrong,     \* has a wrong share been added up?
  sent,      \* has the client sent inputs?
  result,    \* of the client: what it has opened and from what, or None
  program,   \* socket -> how far the party's program is
  down, up,  \* socket -> what is under way to the client, to the party
  faults

clientVars == <<pc, at, wait_count, message, missing, first, checks, wrong, sent, result>>
setting == <<kind, active, deviation>>
mpcVars == <<setting, clientVars, program, down, up, faults>>

Ended == pc \in {"done", "failed"}
Steps == {"connect", "spec", "zero", "triples", "inputs", "outputs", "done", "failed"}

ClientTypeOK ==
  /\ pc \in Steps /\ at \in Sockets
  /\ wait_count \in 0 .. MaxWait
  /\ missing \in 0 .. 3
  /\ message = None => missing = 0
  /\ sent => kind = "share" /\ pc \in {"inputs", "outputs", "done", "failed"}
  /\ \A p \in Sockets : /\ Len(up[p]) <= 1
                        /\ program[p] = "silent" => up[p] = <<>> /\ down[p] = <<>>

-----------------------------------------------------------------------------
(***************************************************************************)
(* Messages.                                                               *)
(***************************************************************************)
Unit == [size |-> 0, true |-> TRUE]
Message(size, true) == <<[size |-> size, true |-> true]>> \o [i \in 1 .. size |-> Unit]

Specification(p) == Message(2, deviation[p] # "spec")
Shares(p) == LET honest == IF active THEN 3 ELSE 1
             IN  Message(IF deviation[p] = "size" THEN 4 - honest ELSE honest,
                         deviation[p] # "share")

Closed(p) == program[p] \in {"closed", "failed"}
Fault == faults < MaxFaults /\ faults' = faults + 1

Fail == pc' = "failed" /\ UNCHANGED at

\* The same with the next socket, or the next thing with the first.
Advance(next) == /\ pc' = IF at < N THEN pc ELSE next
                 /\ at' = IF at < N THEN at + 1 ELSE 1

-----------------------------------------------------------------------------
(***************************************************************************)
(* Client.__init__: connecting.                                            *)
(***************************************************************************)

\* The program accepts and sends its specification.
Connect ==
  /\ pc = "connect" /\ program[at] = "listening"
  /\ Advance("spec")
  /\ program' = [program EXCEPT ![at] = "accepted"]
  /\ down' = [down EXCEPT ![at] = Specification(at)]
  /\ UNCHANGED <<setting, wait_count, message, missing, first, checks, wrong, sent, result,
                 up, faults>>

\* Mutant: one attempt more.
AttemptFailsLate ==
  /\ pc = "connect"
  /\ \/ program[at] \in {"silent", "failed"} /\ UNCHANGED faults
     \/ Fault
  /\ \/ wait_count > MaxWait /\ Fail /\ UNCHANGED wait_count
     \/ wait_count <= MaxWait /\ wait_count' = wait_count + 1 /\ UNCHANGED <<pc, at>>
  /\ UNCHANGED <<setting, message, missing, first, checks, wrong, sent, result,
                 program, down, up>>

\* The attempts to connect are counted over all parties.
AttemptFails ==
  /\ pc = "connect"
  /\ \/ program[at] \in {"silent", "failed"} /\ UNCHANGED faults
     \/ Fault
  /\ \/ wait_count = MaxWait /\ Fail /\ UNCHANGED wait_count
     \/ wait_count < MaxWait /\ wait_count' = wait_count + 1 /\ UNCHANGED <<pc, at>>
  /\ UNCHANGED <<setting, message, missing, first, checks, wrong, sent, result,
                 program, down, up>>

-----------------------------------------------------------------------------
(***************************************************************************)
(* octetStream.Receive.                                                    *)
(***************************************************************************)
Receiving == pc \in {"spec", "triples", "outputs"}
Received == message # None /\ missing = 0

ReadHeader ==
  /\ Receiving /\ message = None /\ down[at] # <<>>
  /\ message' = Head(down[at]) /\ missing' = Head(down[at]).size
  /\ down' = [down EXCEPT ![at] = Tail(@)]
  /\ UNCHANGED <<setting, pc, at, wait_count, first, checks, wrong, sent, result,
                 program, up, faults>>

\* struct.unpack fails: the connection is closed, or recv(4) returns less.
ReadHeaderFails ==
  /\ Receiving /\ message = None
  /\ \/ down[at] = <<>> /\ Closed(at) /\ UNCHANGED faults
     \/ down[at] # <<>> /\ Fault
  /\ Fail
  /\ UNCHANGED <<setting, wait_count, message, missing, first, checks, wrong, sent, result,
                 program, down, up>>

\* Mutant: one call of recv is taken for the whole body.
ReadBodyOnce ==
  /\ Receiving /\ missing > 0
  /\ \E k \in 1 .. missing :
       /\ k <= Len(down[at])
       /\ missing' = 0
       /\ down' = [down EXCEPT ![at] = SubSeq(@, k + 1, Len(@))]
  /\ UNCHANGED <<setting, pc, at, wait_count, message, first, checks, wrong, sent, result,
                 program, up, faults>>

\* One call of recv in the loop.
ReadBody ==
  /\ Receiving /\ missing > 0
  /\ \E k \in 1 .. missing :
       /\ k <= Len(down[at])
       /\ missing' = missing - k
       /\ down' = [down EXCEPT ![at] = SubSeq(@, k + 1, Len(@))]
  /\ UNCHANGED <<setting, pc, at, wait_count, message, first, checks, wrong, sent, result,
                 program, up, faults>>

\* After the end of a connection recv returns nothing at once, and the loop has
\* no other exit: it spins.
Spinning == Receiving /\ missing > 0 /\ down[at] = <<>> /\ Closed(at)

\* CLIENT_TIMEOUT: nothing comes because programs have failed, or too late.
TimesOut ==
  /\ Receiving /\ ~Received
  /\ down[at] = <<>> /\ ~Closed(at)
  /\ \/ (\E q \in Sockets : program[q] = "failed") /\ UNCHANGED faults
     \/ Fault
  /\ Fail
  /\ UNCHANGED <<setting, wait_count, message, missing, first, checks, wrong, sent, result,
                 program, down, up>>

-----------------------------------------------------------------------------
(***************************************************************************)
(* What the programs compute.  The values are shared: nobody knows them    *)
(* before the client adds up the outputs, and only then are they chosen.   *)
(***************************************************************************)

\* T(value) and what it is in the program, of the amount and of the nonce.
Sent(i) == [value |-> ToInt(Domain(Scaled(i.cents))),
            nonce |-> ToInt(Domain(reverse_bytes(hex_to_int(i.nonce))))]

Commitments == {[input |-> i, opened |-> Opened(Sent(i).nonce, Sent(i).value, Digits)] : i \in Inputs}

\* client_values from 0, its first entry the number of sharings there ever were.
\* The entry behind the last recorded one may be filled: a party may have died.
ClientValues(file) ==
  LET n == Len(file.values)
  IN  [i \in 0 .. MAX_DATA_PROVIDERS |->
         IF i = 0 THEN n ELSE IF i <= n THEN file.values[i] ELSE file.rest[1]]

\* share_data has stored the hash of provider i, as a number, at i - 1.
CommitmentValues(file) ==
  [i \in 0 .. MAX_DATA_PROVIDERS - 1 |->
     hex_to_int(Reverse(IF i < Len(file.values) THEN file.hashes[i + 1] ELSE file.rest[2]))]

\* What the client makes of them.
receive_outputs(opened) == [j \in DOMAIN opened |-> ToInt(Domain(opened[j]))]

Answers ==
  UNION {{[file |-> file, outputs |-> receive_outputs(o)] :
            o \in Outputs(ClientValues(file), CommitmentValues(file), Len(file.values))}
         : file \in Files}

\* Sums of wrong shares mean nothing.
OpenResult == result' \in IF wrong' THEN {None}
                          ELSE IF kind = "share" THEN Commitments ELSE Answers

-----------------------------------------------------------------------------
(***************************************************************************)
(* What is done with a message.                                            *)
(***************************************************************************)

\* The specifications must be the same.
TakeSpecification ==
  /\ pc = "spec" /\ Received
  /\ message' = None /\ first' = IF at = 1 THEN message ELSE first
  /\ IF at > 1 /\ message # first THEN Fail ELSE Advance("zero")
  /\ UNCHANGED <<setting, wait_count, missing, checks, wrong, sent, result,
                 program, down, up, faults>>

\* Mutant: every socket's length decides anew.
TakeSharesEach ==
  /\ pc \in {"triples", "outputs"} /\ Received
  /\ message' = None /\ checks' = (message.size = 3)
  /\ wrong' = ((at > 1 /\ wrong) \/ ~message.true)
  /\ IF at = N /\ checks' /\ wrong'
     THEN Fail ELSE Advance(IF pc = "triples" THEN "inputs" ELSE "done")
  /\ IF pc' = "done" THEN OpenResult ELSE UNCHANGED result
  /\ UNCHANGED <<setting, wait_count, missing, first, sent, program, down, up, faults>>

\* receive_triples: the length at the first socket tells the protocol; with the
\* last one the product of what was added up is checked.
TakeShares ==
  /\ pc \in {"triples", "outputs"} /\ Received
  /\ message' = None
  /\ checks' = IF at = 1 THEN message.size = 3 ELSE checks
  /\ wrong' = ((at > 1 /\ wrong) \/ ~message.true)
  /\ IF \/ message.size # IF checks' THEN 3 ELSE 1
        \/ at = N /\ checks' /\ wrong'
     THEN Fail ELSE Advance(IF pc = "triples" THEN "inputs" ELSE "done")
  /\ IF pc' = "done" THEN OpenResult ELSE UNCHANGED result
  /\ UNCHANGED <<setting, wait_count, missing, first, sent, program, down, up, faults>>

Send(text) == up' = [up EXCEPT ![at] = Append(@, text)]

SendZero ==
  /\ pc = "zero"
  /\ Send("zero")
  /\ Advance(IF kind = "share" THEN "triples" ELSE "outputs")
  /\ UNCHANGED <<setting, wait_count, message, missing, first, checks, wrong, sent, result,
                 program, down, faults>>

SendInputs ==
  /\ pc = "inputs"
  /\ sent' = TRUE
  /\ Send("inputs")
  /\ Advance("outputs")
  /\ UNCHANGED <<setting, wait_count, message, missing, first, checks, wrong, result,
                 program, down, faults>>

\* sendall to a program that is gone.
SendFails ==
  /\ pc \in {"zero", "inputs"} /\ Closed(at)
  /\ Fail
  /\ UNCHANGED <<setting, wait_count, message, missing, first, checks, wrong, sent, result,
                 program, down, up, faults>>

-----------------------------------------------------------------------------
(***************************************************************************)
(* The programs share_data.mpc and query_computation.mpc.                  *)
(***************************************************************************)
Listen(p) ==
  /\ program[p] = "silent"
  /\ program' = [program EXCEPT ![p] = "listening"]
  /\ UNCHANGED <<setting, clientVars, down, up, faults>>

\* accept_client reads the zero; receive_from_client sends the shares of masks.
ReadPlaceholder(p) ==
  /\ program[p] = "accepted" /\ up[p] # <<>>
  /\ up' = [up EXCEPT ![p] = <<>>]
  /\ program' = [program EXCEPT ![p] = IF kind = "share" THEN "offered" ELSE "ready"]
  /\ down' = IF kind = "share" THEN [down EXCEPT ![p] = @ \o Shares(p)] ELSE down
  /\ UNCHANGED <<setting, clientVars, faults>>

ReceiveInputs(p) ==
  /\ program[p] = "offered" /\ up[p] # <<>>
  /\ up' = [up EXCEPT ![p] = <<>>]
  /\ program' = [program EXCEPT ![p] = "ready"]
  /\ UNCHANGED <<setting, clientVars, down, faults>>

\* All programs together; nobody computes without the others.
Compute ==
  /\ \A p \in Sockets : program[p] = "ready"
  /\ program' = [p \in Sockets |-> "computed"]
  /\ UNCHANGED <<setting, clientVars, down, up, faults>>

\* reveal_to_clients and closeclientconnection.
RevealToClient(p) ==
  /\ program[p] = "computed"
  /\ program' = [program EXCEPT ![p] = "closed"]
  /\ down' = [down EXCEPT ![p] = @ \o Shares(p)]
  /\ UNCHANGED <<setting, clientVars, up, faults>>

\* By itself or because the client or another program is gone.  What it has
\* sent may arrive in part.
ProgramFails(p) ==
  /\ ~Closed(p)
  /\ \/ /\ pc = "failed" \/ \E q \in Sockets : program[q] = "failed"
        /\ UNCHANGED faults
     \/ Fault
  /\ program' = [program EXCEPT ![p] = "failed"]
  /\ \E k \in 0 .. Len(down[p]) : down' = [down EXCEPT ![p] = SubSeq(@, 1, k)]
  /\ up' = [up EXCEPT ![p] = <<>>]
  /\ UNCHANGED <<setting, clientVars>>

-----------------------------------------------------------------------------
Honest == [p \in Sockets |-> "none"]
Deviations == {Honest} \cup {[Honest EXCEPT ![p] = d] : p \in Sockets, d \in {"spec", "size", "share"}}

MpcInit ==
  /\ kind \in {"share", "query"} /\ active \in BOOLEAN /\ deviation \in Deviations
  /\ pc = "connect" /\ at = 1 /\ wait_count = 0
  /\ message = None /\ missing = 0 /\ first = None
  /\ checks = FALSE /\ wrong = FALSE /\ sent = FALSE /\ result = None
  /\ program = [p \in Sockets |-> "silent"]
  /\ down = [p \in Sockets |-> <<>>] /\ up = [p \in Sockets |-> <<>>]
  /\ faults = 0

ClientNext == \/ Connect \/ AttemptFails
              \/ ReadHeader \/ ReadHeaderFails \/ ReadBody \/ TimesOut
              \/ TakeSpecification \/ TakeShares
              \/ SendZero \/ SendInputs \/ SendFails

ProgramNext(p) == \/ Listen(p) \/ ReadPlaceholder(p) \/ ReceiveInputs(p) \/ RevealToClient(p)

MpcNext == \/ ClientNext \/ Compute
           \/ \E p \in Sockets : ProgramNext(p) \/ ProgramFails(p)

\* No failure is forced.
Forced(A) == A /\ faults' = faults

MpcSpec == /\ MpcInit /\ [][MpcNext]_mpcVars
           /\ WF_mpcVars(Forced(ClientNext)) /\ WF_mpcVars(Compute)
           /\ \A p \in Sockets : WF_mpcVars(ProgramNext(p))

-----------------------------------------------------------------------------
(***************************************************************************)
(* Properties.                                                             *)
(***************************************************************************)

\* Under a protocol for malicious parties one that deviates is caught in time:
\* the client sends no input under masks it has not checked, and gives out no
\* output.  This although the client believes the first party's length.
DeviationsAreCaught == active /\ deviation # Honest => ~sent /\ pc # "done"

\* What the program has opened to the client is the commitment to what it shared.
Matches == result.opened = Notarised(result.input.nonce, result.input.cents, Digits)

\* A client that shares is sent the hash of what TLSNotary has committed to,
\* except for a nonce that begins with a zero byte and for an amount that is
\* not exact in floating point.
CommitmentsMatchUnless ==
  kind = "share" /\ result # None =>
    (Matches <=> /\ result.input.nonce[1] # 0 \/ hex_to_int(result.input.nonce) = 0
                 /\ result.input.cents \notin Inexact)

\* A comment takes the nonce for an integer of a fixed number of bytes: then
\* it would be sent that hash whatever the nonce begins with.
CommitmentsMatch ==
  kind = "share" /\ result # None => Matches \/ result.input.cents \in Inexact

\* The text of a hash comes back with two digits for each byte.
ComesBack(hash) == hash[1] >= Nibble /\ hash[Width] # 0

\* The results of a query are those of the values that were shared, whatever
\* the rest of the arrays holds, except that the Gini coefficient of nothing is
\* -1.  At the index i stands the text of the hash of provider i, except if it
\* begins with a zero digit or ends with a zero byte: then it is another one.
ResultsAreTrue ==
  kind = "query" /\ result # None =>
    LET file == result.file
        results == StatsResults(result.outputs)
        commitments == DataCommitments(result.outputs)
    IN  /\ IF Total(file.values) # 0 THEN ResultsOf(results, file.values)
           ELSE results.gini_coefficient = [num |-> -1, den |-> 1]
        /\ \A i \in DOMAIN file.values :
             (i \in DOMAIN commitments /\ commitments[i] = TextOf(file.hashes[i]))
               <=> ComesBack(file.hashes[i])

\* A client ends, and well unless there is a reason: something has failed, a
\* party deviates, or the patience for all parties together was used up.  Only
\* a connection that is closed within a body keeps it busy for good.
ClientEnds ==
  <>\/ pc = "done"
    \/ pc = "failed" /\ (faults > 0 \/ deviation # Honest \/ wait_count = MaxWait)
    \/ Spinning
=============================================================================
