----------------------------- MODULE PartyFiles -----------------------------
(***************************************************************************)
(* The files that the handlers of the computation parties prepare before   *)
(* they run an MPC program: the directory Player-Data with the             *)
(* certificates of the parties and of the client and the links that        *)
(* c_rehash makes of them, the generated program and its bytecode.         *)
(*                                                                         *)
(* A party may have an MP-SPDZ directory of its own, as the containers do, *)
(* or all share one, as in the default configuration and in the tests.     *)
(* Sessions follow one another: the turn in the queue and the lock of the  *)
(* coordination server keep them apart (OneSessionAtATime of ShareData).   *)
(* Within a session the handlers run side by side, and a handler fetches   *)
(* certificates in one thread per party.                                   *)
(***************************************************************************)
EXTENDS Naturals

CONSTANTS Parties,
          None,
          MAX_CLIENT_ID,
          MaxSessions,   \* bound: sessions
          MaxFaults,     \* bound: handlers that fail
          MaxCrashes     \* bound: parties that die

ASSUME FilesAssumption == /\ MaxSessions \in Nat /\ MAX_CLIENT_ID \in Nat \ {0}
                          /\ None \notin Nat

VARIABLES
  session,    \* the sessions so far; the last one is going on
  client,     \* the client_id in it
  circuit,    \* the circuit_name in it
  root,       \* party -> its MP-SPDZ directory, named by a party
  stage,      \* party -> how far its handler is
  listed,     \* party -> what clean_up_player_data_dir is going to remove
  thread,     \* party, party -> how far the thread is that fetches a certificate
  got,        \* party, party -> the certificate in the response
  pem,        \* directory, party -> P<party>.pem
  clientPem,  \* directory, client -> C<client>.pem: the session it is of
  links,      \* directory -> the certificates that have a link
  source,     \* directory, circuit -> <circuit>.mpc: the session it is for
  bytecode,   \* directory, circuit -> the session of the source it was compiled from
  loaded,     \* party -> the bytecode in the running program
  faults,     \* handlers that have failed by themselves
  crashes,    \* parties that have died
  deathSince  \* history: has one died since programs of all were last running?

certVars == <<listed, thread, got, pem, clientPem, links>>
programVars == <<source, bytecode, loaded>>
sessionVars == <<session, client, circuit, root>>
faultVars == <<faults, crashes, deathSince>>
filesVars == <<sessionVars, stage, certVars, programVars, faultVars>>

\* A circuit is named by the secret index or by the port, which never changes.
Circuits == {"share_data_1", "query_computation"}

ClientIds == 0 .. MAX_CLIENT_ID - 1

\* Mutant: the time is not reduced.
NewClientIdsAnyTime(name) == IF name = "query_computation" THEN {0} ELSE 0 .. MAX_CLIENT_ID

\* A client who shares has the time modulo MAX_CLIENT_ID as its id, which others
\* may have had before, one who queries has 0.
NewClientIds(name) == IF name = "query_computation" THEN {0} ELSE ClientIds

\* What a file can hold: a certificate is the one the party uses or an older
\* one, a program is that of a session.
Certs == {"own", "old", "empty"}
Empty == 0
Contents == (1 .. MaxSessions) \cup {Empty, None}

Others(p) == Parties \ {p}

FilesTypeOK ==
  /\ session \in 0 .. MaxSessions
  /\ client \in ClientIds /\ circuit \in Circuits
  /\ root \in [Parties -> Parties]
  /\ stage \in [Parties -> {"sent", "cleaning", "cleaned", "written", "fetching", "fetched",
                            "generating", "generated", "compiled", "running", "ended"}]
  /\ listed \in [Parties -> [links : SUBSET (Parties \cup ClientIds), clients : SUBSET ClientIds]]
  /\ thread \in [Parties -> [Parties -> {"none", "got", "writing", "done", "failed"}]]
  /\ got \in [Parties -> [Parties -> Certs \cup {None}]]
  /\ pem \in [Parties -> [Parties -> Certs]]
  /\ clientPem \in [Parties -> [ClientIds -> Contents]]
  /\ links \in [Parties -> SUBSET (Parties \cup ClientIds)]
  /\ source \in [Parties -> [Circuits -> Contents]]
  /\ bytecode \in [Parties -> [Circuits -> Contents]]
  /\ loaded \in [Parties -> Contents]

Goto(p, next) == stage' = [stage EXCEPT ![p] = next]

-----------------------------------------------------------------------------
\* The coordination server posts to all parties when the last session is over.
NextSession ==
  /\ \A p \in Parties : stage[p] = "ended"
  /\ session < MaxSessions
  /\ \E name \in Circuits : circuit' = name /\ client' \in NewClientIds(name)
  /\ session' = session + 1
  /\ stage' = [p \in Parties |-> "sent"]
  /\ thread' = [p \in Parties |-> [q \in Parties |-> "none"]]
  /\ got' = [p \in Parties |-> [q \in Parties |-> None]]
  /\ loaded' = [p \in Parties |-> None]
  /\ UNCHANGED <<root, listed, pem, clientPem, links, source, bytecode, faultVars>>

-----------------------------------------------------------------------------
(***************************************************************************)
(* Certificates.                                                           *)
(***************************************************************************)

\* clean_up_player_data_dir lists the files with glob ...
ListOldFiles(p) ==
  /\ stage[p] = "sent"
  /\ Goto(p, "cleaning")
  /\ listed' = [listed EXCEPT ![p] =
       [links |-> links[root[p]],
        clients |-> {c \in ClientIds : clientPem[root[p]][c] # None}]]
  /\ UNCHANGED <<sessionVars, thread, got, pem, clientPem, links, programVars, faultVars>>

\* ... and removes what it has listed.
RemoveOldFiles(p) ==
  /\ stage[p] = "cleaning"
  /\ Goto(p, "cleaned")
  /\ links' = [links EXCEPT ![root[p]] = @ \ listed[p].links]
  /\ clientPem' = [clientPem EXCEPT ![root[p]] =
       [c \in ClientIds |-> IF c \in listed[p].clients THEN None ELSE @[c]]]
  /\ listed' = [listed EXCEPT ![p] = [links |-> {}, clients |-> {}]]
  /\ UNCHANGED <<sessionVars, thread, got, pem, programVars, faultVars>>

\* Mutant: under the name that queries use.
WriteClientCertAsQuery(p) ==
  /\ stage[p] = "cleaned"
  /\ Goto(p, "written")
  /\ clientPem' = [clientPem EXCEPT ![root[p]][0] = session]
  /\ UNCHANGED <<sessionVars, listed, thread, got, pem, links, programVars, faultVars>>

WriteClientCert(p) ==
  /\ stage[p] = "cleaned"
  /\ Goto(p, "written")
  /\ clientPem' = [clientPem EXCEPT ![root[p]][client] = session]
  /\ UNCHANGED <<sessionVars, listed, thread, got, pem, links, programVars, faultVars>>

\* c_rehash makes a link for every file that holds a certificate.
Certificates(d) == {q \in Parties : pem[d][q] # "empty"}
                     \cup {c \in ClientIds : clientPem[d][c] # None}
\* Mutant: only the new certificate is linked.
RehashClientOnly(p) ==
  /\ stage[p] = "written"
  /\ Goto(p, "fetching")
  /\ links' = [links EXCEPT ![root[p]] = @ \cup {client}]
  /\ UNCHANGED <<sessionVars, listed, thread, got, pem, clientPem, programVars, faultVars>>

\* It is one step here, although in a shared directory it runs beside the other
\* handlers: of the files that they write or remove meanwhile it would link some
\* and not others.
Rehash(p) ==
  /\ stage[p] = "written"
  /\ Goto(p, "fetching")
  /\ links' = [links EXCEPT ![root[p]] = Certificates(root[p])]
  /\ UNCHANGED <<sessionVars, listed, thread, got, pem, clientPem, programVars, faultVars>>

SetThread(p, q, step) == thread' = [thread EXCEPT ![p][q] = step]

\* The thread of p asks q, whose get_party_cert reads its own file, without the
\* lock under which it is written.
GetPartyCert(p, q) ==
  /\ stage[p] = "fetching" /\ thread[p][q] = "none"
  /\ SetThread(p, q, "got")
  /\ got' = [got EXCEPT ![p][q] = pem[root[q]][q]]
  /\ UNCHANGED <<sessionVars, stage, listed, pem, clientPem, links, programVars, faultVars>>

\* write_text under the lock of the file: opening it empties it.
OpenPartyCert(p, q) ==
  /\ stage[p] = "fetching" /\ thread[p][q] = "got"
  /\ \A r \in Parties : root[r] = root[p] => thread[r][q] # "writing"
  /\ SetThread(p, q, "writing")
  /\ pem' = [pem EXCEPT ![root[p]][q] = "empty"]
  /\ UNCHANGED <<sessionVars, stage, listed, got, clientPem, links, programVars, faultVars>>

SavePartyCert(p, q) ==
  /\ stage[p] = "fetching" /\ thread[p][q] = "writing"
  /\ SetThread(p, q, "done")
  /\ pem' = [pem EXCEPT ![root[p]][q] = got[p][q]]
  /\ UNCHANGED <<sessionVars, stage, listed, got, clientPem, links, programVars, faultVars>>

\* The other party does not answer; the threads for the others go on.
GetPartyCertFails(p, q) ==
  /\ stage[p] = "fetching" /\ thread[p][q] = "none"
  /\ faults < MaxFaults /\ faults' = faults + 1
  /\ SetThread(p, q, "failed")
  /\ UNCHANGED <<sessionVars, stage, listed, got, pem, clientPem, links, programVars>>
  /\ UNCHANGED <<crashes, deathSince>>

\* Mutant: the results of the threads are not awaited.
FetchedAtOnce(p) ==
  /\ stage[p] = "fetching"
  /\ Goto(p, "fetched")
  /\ UNCHANGED <<sessionVars, certVars, programVars, faultVars>>

\* The executor waits for all threads, also when one has failed.
Fetched(p) ==
  /\ stage[p] = "fetching"
  /\ \A q \in Others(p) : thread[p][q] \in {"done", "failed"}
  /\ Goto(p, IF \E q \in Others(p) : thread[p][q] = "failed" THEN "ended" ELSE "fetched")
  /\ UNCHANGED <<sessionVars, certVars, programVars, faultVars>>

-----------------------------------------------------------------------------
(***************************************************************************)
(* The program.                                                            *)
(***************************************************************************)
OpenProgram(p) ==
  /\ stage[p] = "fetched"
  /\ Goto(p, "generating")
  /\ source' = [source EXCEPT ![root[p]][circuit] = Empty]
  /\ UNCHANGED <<sessionVars, certVars, bytecode, loaded, faultVars>>

WriteProgram(p) ==
  /\ stage[p] = "generating"
  /\ Goto(p, "generated")
  /\ source' = [source EXCEPT ![root[p]][circuit] = session]
  /\ UNCHANGED <<sessionVars, certVars, bytecode, loaded, faultVars>>

\* Mutant: what was compiled once under this name is not compiled again.
CompileProgramOnce(p) ==
  /\ stage[p] = "generated"
  /\ Goto(p, "compiled")
  /\ bytecode' = [bytecode EXCEPT ![root[p]][circuit] =
       IF @ = None THEN source[root[p]][circuit] ELSE @]
  /\ UNCHANGED <<sessionVars, certVars, source, loaded, faultVars>>

CompileProgram(p) ==
  /\ stage[p] = "generated"
  /\ Goto(p, "compiled")
  /\ bytecode' = [bytecode EXCEPT ![root[p]][circuit] = source[root[p]][circuit]]
  /\ UNCHANGED <<sessionVars, certVars, source, loaded, faultVars>>

RunProgram(p) ==
  /\ stage[p] = "compiled"
  /\ Goto(p, "running")
  /\ loaded' = [loaded EXCEPT ![p] = bytecode[root[p]][circuit]]
  /\ UNCHANGED <<sessionVars, certVars, source, bytecode, faultVars>>

\* The programs have met, for good or ill, or one of them will never come.
Met == \A p \in Parties : stage[p] = "running"
ProgramEnds(p) ==
  /\ stage[p] = "running"
  /\ Met \/ \E q \in Parties : stage[q] = "ended"
  /\ Goto(p, "ended")
  /\ deathSince' = (deathSince /\ ~Met)
  /\ UNCHANGED <<sessionVars, certVars, programVars, faults, crashes>>

\* The proof is refused or cannot be read, or the program does not compile.
HandlerFails(p) ==
  /\ stage[p] \in {"sent", "fetched", "generated"}
  /\ faults < MaxFaults /\ faults' = faults + 1
  /\ Goto(p, "ended")
  /\ UNCHANGED <<sessionVars, certVars, programVars, crashes, deathSince>>

\* The party dies and is started anew; its files stay as they are, locks of
\* files are released, and nobody answers the POST.
PartyDies(p) ==
  /\ stage[p] # "ended"
  /\ crashes < MaxCrashes /\ crashes' = crashes + 1
  /\ deathSince' = TRUE
  /\ Goto(p, "ended")
  /\ thread' = [thread EXCEPT ![p] = [q \in Parties |-> "none"]]
  /\ UNCHANGED <<sessionVars, listed, got, pem, clientPem, links, programVars, faults>>

-----------------------------------------------------------------------------
\* setup-ssl.sh has made certificates for all parties in every directory and
\* linked them; those of other parties are replaced by the fetched ones.
FilesInit ==
  /\ session = 0 /\ client = 0 /\ circuit = "query_computation"
  /\ root \in {[p \in Parties |-> p]} \cup {[p \in Parties |-> d] : d \in Parties}
  /\ stage = [p \in Parties |-> "ended"]
  /\ listed = [p \in Parties |-> [links |-> {}, clients |-> {}]]
  /\ thread = [p \in Parties |-> [q \in Parties |-> "none"]]
  /\ got = [p \in Parties |-> [q \in Parties |-> None]]
  /\ pem = [d \in Parties |-> [q \in Parties |-> IF root[q] = d THEN "own" ELSE "old"]]
  /\ clientPem = [d \in Parties |-> [c \in ClientIds |-> None]]
  /\ links = [d \in Parties |-> Parties]
  /\ source = [d \in Parties |-> [name \in Circuits |-> None]]
  /\ bytecode = [d \in Parties |-> [name \in Circuits |-> None]]
  /\ loaded = [p \in Parties |-> None]
  /\ faults = 0 /\ crashes = 0 /\ deathSince = FALSE

PrepareCerts(p) == \/ ListOldFiles(p) \/ RemoveOldFiles(p) \/ WriteClientCert(p) \/ Rehash(p)
                   \/ \E q \in Others(p) : \/ GetPartyCert(p, q) \/ GetPartyCertFails(p, q)
                                           \/ OpenPartyCert(p, q) \/ SavePartyCert(p, q)
                   \/ Fetched(p)

PrepareProgram(p) == \/ OpenProgram(p) \/ WriteProgram(p) \/ CompileProgram(p)
                     \/ RunProgram(p) \/ ProgramEnds(p)

FilesNext == \/ NextSession
             \/ \E p \in Parties : \/ PrepareCerts(p) \/ PrepareProgram(p)
                                   \/ HandlerFails(p) \/ PartyDies(p)

FilesSpec == FilesInit /\ [][FilesNext]_filesVars

-----------------------------------------------------------------------------
(***************************************************************************)
(* Properties.                                                             *)
(***************************************************************************)

\* When the programs of all parties have met, each of them finds the client's
\* certificate, by name and by link: whatever other handlers remove from a
\* directory that they share, each writes the certificate again afterwards.
ClientIsKnown ==
  Met => \A p \in Parties : /\ clientPem[root[p]][client] = session
                            /\ client \in links[root[p]]

\* A party with a directory of its own then also has the certificate that each
\* other party uses.
OwnRoots == \A p \in Parties : root[p] = p
PartiesAreKnown ==
  Met /\ OwnRoots => \A p, q \in Parties : pem[p][q] = "own"

\* The links can lack one of these, after a party has died while it wrote the
\* file, since c_rehash is called before the certificates are fetched.  A death
\* costs one computation at most: the next one for which the programs of all
\* parties are started has all links again.
DeathCostsOneComputation ==
  Met /\ OwnRoots /\ ~deathSince => \A p \in Parties : Parties \subseteq links[p]

\* It runs the program that its handler has generated in this session, not an
\* earlier one under the same name and not a half-written one.
RunsOwnProgram ==
  OwnRoots => \A p \in Parties : stage[p] = "running" => loaded[p] = session
=============================================================================
