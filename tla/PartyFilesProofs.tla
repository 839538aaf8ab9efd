-------------------------- MODULE PartyFilesProofs --------------------------
(***************************************************************************)
(* Proofs about PartyFiles for any parties, sessions, failures and deaths, *)
(* whichever parties share a directory.                                    *)
(***************************************************************************)
EXTENDS PartyFiles, TLAPS

Stages == {"sent", "cleaning", "cleaned", "written", "fetching", "fetched",
           "generating", "generated", "compiled", "running", "ended"}
AfterRehash == {"fetching", "fetched", "generating", "generated", "compiled", "running"}
AfterWrite == AfterRehash \cup {"written"}

\* Somebody who uses the directory of p is at one of these stages.
SomeAt(p, stages) == \E r \in Parties : root[r] = root[p] /\ stage[r] \in stages

\* The certificate that a handler has written is there, unless another has
\* removed it, who writes it again before the programs of all can meet, or has
\* ended and keeps them from meeting; and then so is its link.
ClientInv ==
  \A p \in Parties :
    /\ stage[p] \in AfterWrite /\ ~SomeAt(p, {"cleaned", "ended"})
         => clientPem[root[p]][client] = session
    /\ stage[p] \in AfterRehash /\ ~SomeAt(p, {"cleaned", "written", "ended"})
         => client \in links[root[p]]

\* A party with a directory of its own keeps its own certificate, gets those of
\* the others into the directory, and runs what it has generated.
OwnInv ==
  OwnRoots =>
    \A p \in Parties :
      /\ pem[p][p] = "own"
      /\ \A q \in Others(p) :
           /\ thread[p][q] \in {"got", "writing", "done"} => got[p][q] = "own"
           /\ thread[p][q] = "done" => pem[p][q] = "own"
           /\ stage[p] \in AfterRehash \ {"fetching"} => thread[p][q] = "done"
      /\ stage[p] = "generated" => source[p][circuit] = session
      /\ stage[p] = "compiled" => bytecode[p][circuit] = session
      /\ stage[p] = "running" => loaded[p] = session

\* The state has its type, and a thread that writes has something to write.
TypeInv == /\ FilesTypeOK
           /\ \A p, q \in Parties : thread[p][q] \in {"got", "writing"} => got[p][q] \in Certs

\* A certificate is empty only while it is being written, or because a party
\* has died as it wrote it; and a link is missing after c_rehash only since then,
\* or because this was so until the programs of all met, one of which has ended.
LinkInv ==
  OwnRoots =>
    \A p \in Parties :
      /\ \A q \in Parties :
           /\ thread[p][q] = "writing" => stage[p] = "fetching" /\ q \in Others(p)
           /\ pem[p][q] = "empty" => thread[p][q] = "writing" \/ deathSince
      /\ \/ stage[p] \notin AfterRehash \/ Parties \subseteq links[p]
         \/ deathSince \/ \E r \in Parties : stage[r] = "ended"

IInv == TypeInv /\ ClientInv /\ OwnInv /\ LinkInv

-----------------------------------------------------------------------------
(***************************************************************************)
(* The state has its type.                                                 *)
(***************************************************************************)
LEMMA InitType == FilesInit => TypeInv
BY FilesAssumption DEF FilesInit, TypeInv, FilesTypeOK, ClientIds, Circuits, Certs, Contents, Empty

LEMMA SessionType == ASSUME TypeInv, NextSession PROVE TypeInv'
<1>1. session' \in 0 .. MaxSessions /\ client' \in ClientIds /\ circuit' \in Circuits
  BY FilesAssumption DEF NextSession, NewClientIds, TypeInv, FilesTypeOK, ClientIds
<1>2. /\ stage' \in [Parties -> Stages]
      /\ thread' \in [Parties -> [Parties -> {"none", "got", "writing", "done", "failed"}]]
      /\ got' \in [Parties -> [Parties -> Certs \cup {None}]]
      /\ loaded' \in [Parties -> Contents]
  BY DEF NextSession, Contents, Stages
<1>3. UNCHANGED <<root, listed, pem, clientPem, links, source, bytecode>>
  BY DEF NextSession
<1>4. \A p, q \in Parties : thread'[p][q] = "none"
  BY DEF NextSession
<1> QED BY <1>1, <1>2, <1>3, <1>4 DEF TypeInv, FilesTypeOK, Stages

\* A thread goes a step further.
LEMMA ThreadType ==
  ASSUME TypeInv, NEW p \in Parties, NEW q \in Parties,
         GetPartyCert(p, q) \/ GetPartyCertFails(p, q) \/ OpenPartyCert(p, q) \/ SavePartyCert(p, q)
  PROVE  TypeInv'
<1> USE DEF TypeInv, FilesTypeOK, SetThread
<1>1. UNCHANGED <<session, client, circuit, root, stage, listed, clientPem, links, source,
                  bytecode, loaded>>
  BY DEF GetPartyCert, GetPartyCertFails, OpenPartyCert, SavePartyCert, sessionVars, programVars
<1>2. CASE GetPartyCert(p, q)
  <2>1. /\ thread' = [thread EXCEPT ![p][q] = "got"]
        /\ got' = [got EXCEPT ![p][q] = pem[root[q]][q]] /\ pem[root[q]][q] \in Certs
        /\ UNCHANGED pem
    BY <1>2 DEF GetPartyCert
  <2> QED BY <1>1, <2>1
<1>3. CASE GetPartyCertFails(p, q)
  <2>1. thread' = [thread EXCEPT ![p][q] = "failed"] /\ UNCHANGED <<got, pem>>
    BY <1>3 DEF GetPartyCertFails
  <2> QED BY <1>1, <2>1
<1>4. CASE OpenPartyCert(p, q)
  <2>1. /\ thread[p][q] = "got"
        /\ thread' = [thread EXCEPT ![p][q] = "writing"]
        /\ pem' = [pem EXCEPT ![root[p]][q] = "empty"] /\ "empty" \in Certs
        /\ UNCHANGED got
    BY <1>4 DEF OpenPartyCert, Certs
  <2> QED BY <1>1, <2>1
<1>5. CASE SavePartyCert(p, q)
  <2>1. /\ thread' = [thread EXCEPT ![p][q] = "done"]
        /\ pem' = [pem EXCEPT ![root[p]][q] = got[p][q]] /\ got[p][q] \in Certs
        /\ UNCHANGED got
    BY <1>5 DEF SavePartyCert
  <2> QED BY <1>1, <2>1
<1> QED BY <1>2, <1>3, <1>4, <1>5

LEMMA CertsType ==
  ASSUME TypeInv, NEW p \in Parties, PrepareCerts(p)
  PROVE  TypeInv'
<1> USE DEF TypeInv, FilesTypeOK, Goto, sessionVars, programVars, certVars
<1>1. CASE ListOldFiles(p)
  <2>1. listed' \in [Parties -> [links : SUBSET (Parties \cup ClientIds), clients : SUBSET ClientIds]]
    BY <1>1 DEF ListOldFiles
  <2> QED BY <1>1, <2>1 DEF ListOldFiles
<1>2. CASE RemoveOldFiles(p)
  <2>1. links' \in [Parties -> SUBSET (Parties \cup ClientIds)]
    BY <1>2 DEF RemoveOldFiles
  <2>2. clientPem' \in [Parties -> [ClientIds -> Contents]]
    BY <1>2 DEF RemoveOldFiles, Contents
  <2>3. listed' \in [Parties -> [links : SUBSET (Parties \cup ClientIds), clients : SUBSET ClientIds]]
    BY <1>2 DEF RemoveOldFiles
  <2> QED BY <1>2, <2>1, <2>2, <2>3 DEF RemoveOldFiles
<1>3. CASE WriteClientCert(p)
  <2>1. session \in Contents
    BY FilesAssumption DEF Contents, Empty
  <2> QED BY <1>3, <2>1 DEF WriteClientCert
<1>4. CASE Rehash(p)
  BY <1>4 DEF Rehash, Certificates
<1>5. ASSUME NEW q \in Parties,
             GetPartyCert(p, q) \/ GetPartyCertFails(p, q) \/ OpenPartyCert(p, q) \/ SavePartyCert(p, q)
      PROVE  TypeInv'
  BY <1>5, ThreadType
<1>6. CASE Fetched(p)
  BY <1>6 DEF Fetched
<1> QED BY <1>1, <1>2, <1>3, <1>4, <1>5, <1>6 DEF PrepareCerts, Others

LEMMA ProgramType ==
  ASSUME TypeInv, NEW p \in Parties,
         PrepareProgram(p) \/ HandlerFails(p) \/ PartyDies(p)
  PROVE  TypeInv'
<1> USE DEF TypeInv, FilesTypeOK, Goto, sessionVars, programVars, certVars
<1>1. CASE OpenProgram(p) \/ WriteProgram(p)
  <2>1. session \in Contents /\ Empty \in Contents
    BY FilesAssumption DEF Contents, Empty
  <2>2. source' \in [Parties -> [Circuits -> Contents]]
    <3>1. CASE OpenProgram(p)
      BY <2>1, <3>1 DEF OpenProgram
    <3>2. CASE WriteProgram(p)
      BY <2>1, <3>2 DEF WriteProgram
    <3> QED BY <1>1, <3>1, <3>2
  <2>3. stage' \in [Parties -> Stages]
    BY <1>1 DEF OpenProgram, WriteProgram, Stages
  <2> QED BY <1>1, <2>2, <2>3 DEF OpenProgram, WriteProgram, Stages
<1>2. CASE CompileProgram(p)
  BY <1>2 DEF CompileProgram
<1>3. CASE RunProgram(p)
  BY <1>3 DEF RunProgram
<1>4. CASE ProgramEnds(p) \/ HandlerFails(p)
  BY <1>4 DEF ProgramEnds, HandlerFails
<1>5. CASE PartyDies(p)
  <2>1. \A r, q \in Parties : thread'[r][q] = IF r = p THEN "none" ELSE thread[r][q]
    BY <1>5 DEF PartyDies
  <2>2. thread' \in [Parties -> [Parties -> {"none", "got", "writing", "done", "failed"}]]
    <3>1. [q \in Parties |-> "none"] \in [Parties -> {"none", "got", "writing", "done", "failed"}]
      OBVIOUS
    <3> QED BY <1>5, <3>1 DEF PartyDies
  <2>4. stage' \in [Parties -> Stages]
    BY <1>5 DEF PartyDies, Stages
  <2>3. UNCHANGED <<session, client, circuit, root, listed, got, pem, clientPem, links, source,
                    bytecode, loaded>>
    BY <1>5 DEF PartyDies
  <2> QED BY <2>1, <2>2, <2>3, <2>4 DEF Stages
<1> QED BY <1>1, <1>2, <1>3, <1>4, <1>5 DEF PrepareProgram

LEMMA StepType ==
  ASSUME TypeInv, [FilesNext]_filesVars
  PROVE  TypeInv'
<1>1. CASE UNCHANGED filesVars
  BY <1>1 DEF TypeInv, FilesTypeOK, filesVars, sessionVars, certVars, programVars
<1> QED BY <1>1, SessionType, CertsType, ProgramType DEF FilesNext

-----------------------------------------------------------------------------
(***************************************************************************)
(* The client's certificate.                                               *)
(***************************************************************************)

\* A step that leaves the files of the client alone and lets nobody out of the
\* stages in which the certificate may be missing.
LEMMA ClientUnchanged ==
  ASSUME TypeInv, ClientInv, UNCHANGED <<session, client, root, clientPem, links>>,
         \A p \in Parties :
           /\ stage'[p] \in AfterWrite => stage[p] \in AfterWrite
           /\ stage'[p] \in AfterRehash => stage[p] \in AfterRehash
           /\ stage[p] \in {"cleaned", "written", "ended"} => stage'[p] \in {stage[p], "ended"}
  PROVE  ClientInv'
BY DEF ClientInv, SomeAt

LEMMA RemoveClient ==
  ASSUME TypeInv, ClientInv, NEW p \in Parties, RemoveOldFiles(p)
  PROVE  ClientInv'
<1>1. /\ UNCHANGED <<session, client, root>> /\ stage[p] = "cleaning"
      /\ \A r \in Parties : stage'[r] = IF r = p THEN "cleaned" ELSE stage[r]
      /\ \A d \in Parties : d # root[p] => clientPem'[d] = clientPem[d] /\ links'[d] = links[d]
  BY DEF RemoveOldFiles, Goto, sessionVars, TypeInv, FilesTypeOK
<1>2. \A r \in Parties : root[r] = root[p] => SomeAt(r, {"cleaned", "ended"})'
                                           /\ SomeAt(r, {"cleaned", "written", "ended"})'
  BY <1>1 DEF SomeAt
<1>3. \A r \in Parties : /\ SomeAt(r, {"cleaned", "ended"}) => SomeAt(r, {"cleaned", "ended"})'
                         /\ SomeAt(r, {"cleaned", "written", "ended"})
                              => SomeAt(r, {"cleaned", "written", "ended"})'
  BY <1>1 DEF SomeAt
<1> QED BY <1>1, <1>2, <1>3 DEF ClientInv, AfterWrite, AfterRehash, TypeInv, FilesTypeOK

LEMMA WriteClient ==
  ASSUME TypeInv, ClientInv, NEW p \in Parties, WriteClientCert(p)
  PROVE  ClientInv'
<1>1. /\ UNCHANGED <<session, client, root, links>> /\ stage[p] = "cleaned"
      /\ \A r \in Parties : stage'[r] = IF r = p THEN "written" ELSE stage[r]
      /\ \A d \in Parties : clientPem'[d][client] =
           IF d = root[p] THEN session ELSE clientPem[d][client]
  BY DEF WriteClientCert, Goto, sessionVars, TypeInv, FilesTypeOK
<1>2. \A r \in Parties : root[r] # root[p] =>
        /\ SomeAt(r, {"cleaned", "ended"}) <=> SomeAt(r, {"cleaned", "ended"})'
  BY <1>1 DEF SomeAt
<1>3. \A r \in Parties : /\ SomeAt(r, {"cleaned", "written", "ended"})
                              => SomeAt(r, {"cleaned", "written", "ended"})'
  BY <1>1 DEF SomeAt
<1>4. \A r \in Parties : root[r] \in Parties
  BY DEF TypeInv, FilesTypeOK
<1> QED BY <1>1, <1>2, <1>3, <1>4 DEF ClientInv, AfterWrite, AfterRehash

LEMMA RehashClient ==
  ASSUME TypeInv, ClientInv, NEW p \in Parties, Rehash(p)
  PROVE  ClientInv'
<1>1. /\ UNCHANGED <<session, client, root, clientPem>> /\ stage[p] = "written"
      /\ \A r \in Parties : stage'[r] = IF r = p THEN "fetching" ELSE stage[r]
      /\ \A d \in Parties : links'[d] = IF d = root[p] THEN Certificates(d) ELSE links[d]
      /\ client \in ClientIds /\ session # None
      /\ \A r \in Parties : root[r] \in Parties
  BY FilesAssumption DEF Rehash, Goto, sessionVars, TypeInv, FilesTypeOK
<1>2. \A r \in Parties : SomeAt(r, {"cleaned", "ended"}) <=> SomeAt(r, {"cleaned", "ended"})'
  BY <1>1 DEF SomeAt
<1>3. \A r \in Parties : root[r] # root[p] =>
        (SomeAt(r, {"cleaned", "written", "ended"})
           <=> SomeAt(r, {"cleaned", "written", "ended"})')
  BY <1>1 DEF SomeAt
<1>4. \A r \in Parties : root[r] = root[p] =>
        \/ SomeAt(r, {"cleaned", "written", "ended"})'
        \/ client \in links'[root[r]]
  <2> SUFFICES ASSUME NEW r \in Parties, root[r] = root[p],
                      ~SomeAt(r, {"cleaned", "written", "ended"})'
               PROVE  client \in Certificates(root[p])
    BY <1>1
  <2>1. ~SomeAt(p, {"cleaned", "ended"})
    BY <1>1 DEF SomeAt
  <2>2. clientPem[root[p]][client] = session
    BY <1>1, <2>1 DEF ClientInv, AfterWrite
  <2> QED BY <1>1, <2>2 DEF Certificates
<1> QED BY <1>1, <1>2, <1>3, <1>4 DEF ClientInv, AfterWrite, AfterRehash

LEMMA StepClient ==
  ASSUME TypeInv, ClientInv, [FilesNext]_filesVars
  PROVE  ClientInv'
<1> USE DEF AfterWrite, AfterRehash, Goto, sessionVars, certVars
<1>1. CASE NextSession
  <2>1. \A p \in Parties : stage'[p] = "sent"
    BY <1>1 DEF NextSession
  <2> QED BY <2>1 DEF ClientInv
<1>2. ASSUME NEW p \in Parties, ListOldFiles(p) \/ Fetched(p) PROVE ClientInv'
  BY <1>2, ClientUnchanged DEF ListOldFiles, Fetched, TypeInv, FilesTypeOK
<1>3. ASSUME NEW p \in Parties, NEW q \in Parties,
             GetPartyCert(p, q) \/ GetPartyCertFails(p, q) \/ OpenPartyCert(p, q) \/ SavePartyCert(p, q)
      PROVE  ClientInv'
  BY <1>3, ClientUnchanged DEF GetPartyCert, GetPartyCertFails, OpenPartyCert, SavePartyCert
<1>4. ASSUME NEW p \in Parties, PrepareProgram(p)
      PROVE  ClientInv'
  BY <1>4, ClientUnchanged
     DEF PrepareProgram, OpenProgram, WriteProgram, CompileProgram, RunProgram, ProgramEnds,
         TypeInv, FilesTypeOK
<1>5. ASSUME NEW p \in Parties, HandlerFails(p) \/ PartyDies(p)
      PROVE  ClientInv'
  BY <1>5, ClientUnchanged DEF HandlerFails, PartyDies, TypeInv, FilesTypeOK
<1>6. CASE UNCHANGED filesVars
  BY <1>6, ClientUnchanged DEF filesVars
<1> QED BY <1>1, <1>2, <1>3, <1>4, <1>5, <1>6, RemoveClient, WriteClient, RehashClient
        DEF FilesNext, PrepareCerts, Others

-----------------------------------------------------------------------------
(***************************************************************************)
(* Parties with directories of their own.                                  *)
(***************************************************************************)

\* A step that touches no certificate and no program.
LEMMA OwnUnchanged ==
  ASSUME OwnInv, UNCHANGED <<session, circuit, root, thread, got, pem, source, bytecode, loaded>>,
         \A r \in Parties :
           stage'[r] = stage[r]
             \/ stage'[r] \in Stages \ {"fetched", "generating", "generated", "compiled", "running"}
  PROVE  OwnInv'
BY DEF OwnInv, OwnRoots, AfterRehash, Others, Stages

LEMMA ThreadOwn ==
  ASSUME TypeInv, OwnInv, NEW p \in Parties, NEW q \in Others(p),
         GetPartyCert(p, q) \/ GetPartyCertFails(p, q) \/ OpenPartyCert(p, q) \/ SavePartyCert(p, q)
  PROVE  OwnInv'
<1> SUFFICES ASSUME OwnRoots PROVE OwnInv'
  BY DEF GetPartyCert, GetPartyCertFails, OpenPartyCert, SavePartyCert, sessionVars, OwnInv, OwnRoots
<1> USE DEF SetThread, TypeInv, FilesTypeOK, Others, OwnRoots
<1>1. /\ UNCHANGED <<session, circuit, root, stage, source, bytecode, loaded>>
      /\ stage[p] = "fetching"
  BY DEF GetPartyCert, GetPartyCertFails, OpenPartyCert, SavePartyCert, sessionVars, programVars
<1>2. CASE GetPartyCert(p, q)
  <2>1. /\ \A r, t \in Parties :
             /\ thread'[r][t] = IF r = p /\ t = q THEN "got" ELSE thread[r][t]
             /\ got'[r][t] = IF r = p /\ t = q THEN "own" ELSE got[r][t]
        /\ UNCHANGED pem
    BY <1>2 DEF GetPartyCert, OwnInv
  <2> QED BY <1>1, <2>1 DEF OwnInv
<1>3. CASE GetPartyCertFails(p, q)
  <2>1. /\ \A r, t \in Parties :
             thread'[r][t] = IF r = p /\ t = q THEN "failed" ELSE thread[r][t]
        /\ UNCHANGED <<got, pem>> /\ thread[p][q] = "none"
    BY <1>3 DEF GetPartyCertFails
  <2> HIDE DEF TypeInv, FilesTypeOK
  <2> QED BY <1>1, <2>1 DEF OwnInv
<1>4. CASE OpenPartyCert(p, q)
  <2>1. /\ \A r, t \in Parties :
             /\ thread'[r][t] = IF r = p /\ t = q THEN "writing" ELSE thread[r][t]
             /\ pem'[r][t] = IF r = p /\ t = q THEN "empty" ELSE pem[r][t]
        /\ UNCHANGED got /\ thread[p][q] = "got"
    BY <1>4 DEF OpenPartyCert
  <2> HIDE DEF TypeInv, FilesTypeOK
  <2> QED BY <1>1, <2>1 DEF OwnInv
<1>5. CASE SavePartyCert(p, q)
  <2>1. /\ \A r, t \in Parties :
             /\ thread'[r][t] = IF r = p /\ t = q THEN "done" ELSE thread[r][t]
             /\ pem'[r][t] = IF r = p /\ t = q THEN got[p][q] ELSE pem[r][t]
        /\ UNCHANGED got /\ thread[p][q] = "writing"
    BY <1>5 DEF SavePartyCert
  <2> QED BY <1>1, <2>1 DEF OwnInv
<1> QED BY <1>2, <1>3, <1>4, <1>5

LEMMA ProgramOwn ==
  ASSUME TypeInv, OwnInv, NEW p \in Parties, PrepareProgram(p)
  PROVE  OwnInv'
<1> SUFFICES ASSUME OwnRoots PROVE OwnInv'
  BY DEF PrepareProgram, OpenProgram, WriteProgram, CompileProgram, RunProgram, ProgramEnds,
         sessionVars, OwnInv, OwnRoots
<1> USE DEF Goto, TypeInv, FilesTypeOK, OwnRoots
<1>0. UNCHANGED <<session, circuit, root, thread, got, pem>>
  BY DEF PrepareProgram, OpenProgram, WriteProgram, CompileProgram, RunProgram, ProgramEnds,
         sessionVars, certVars, programVars
<1>1. CASE OpenProgram(p)
  <2>1. /\ stage[p] = "fetched" /\ UNCHANGED <<bytecode, loaded>>
        /\ \A r \in Parties : /\ stage'[r] = IF r = p THEN "generating" ELSE stage[r]
                              /\ r # p => source'[r] = source[r]
    BY <1>1 DEF OpenProgram
  <2> QED BY <1>0, <2>1 DEF OwnInv, AfterRehash
<1>2. CASE WriteProgram(p)
  <2>1. /\ stage[p] = "generating" /\ UNCHANGED <<bytecode, loaded>>
        /\ \A r \in Parties : /\ stage'[r] = IF r = p THEN "generated" ELSE stage[r]
                              /\ source'[r][circuit] = IF r = p THEN session ELSE source[r][circuit]
    BY <1>2 DEF WriteProgram
  <2> QED BY <1>0, <2>1 DEF OwnInv, AfterRehash
<1>3. CASE CompileProgram(p)
  <2>1. /\ stage[p] = "generated" /\ UNCHANGED <<source, loaded>>
        /\ \A r \in Parties :
             /\ stage'[r] = IF r = p THEN "compiled" ELSE stage[r]
             /\ bytecode'[r][circuit] = IF r = p THEN source[p][circuit] ELSE bytecode[r][circuit]
    BY <1>3 DEF CompileProgram
  <2> QED BY <1>0, <2>1 DEF OwnInv, AfterRehash
<1>4. CASE RunProgram(p)
  <2>1. /\ stage[p] = "compiled" /\ UNCHANGED <<source, bytecode>>
        /\ \A r \in Parties : /\ stage'[r] = IF r = p THEN "running" ELSE stage[r]
                              /\ loaded'[r] = IF r = p THEN bytecode[p][circuit] ELSE loaded[r]
    BY <1>4 DEF RunProgram
  <2> QED BY <1>0, <2>1 DEF OwnInv, AfterRehash
<1>5. CASE ProgramEnds(p)
  BY <1>5, OwnUnchanged DEF ProgramEnds, sessionVars, certVars, programVars, Stages
<1> QED BY <1>1, <1>2, <1>3, <1>4, <1>5 DEF PrepareProgram

LEMMA StepOwn ==
  ASSUME TypeInv, OwnInv, [FilesNext]_filesVars
  PROVE  OwnInv'
<1> USE DEF Goto, sessionVars, programVars, Stages
<1>1. CASE NextSession
  <2>1. /\ UNCHANGED <<root, pem>>
        /\ \A p \in Parties : stage'[p] = "sent"
        /\ \A p, q \in Parties : thread'[p][q] = "none"
    BY <1>1 DEF NextSession
  <2> QED BY <2>1 DEF OwnInv, OwnRoots, AfterRehash, Others
<1>2. ASSUME NEW p \in Parties,
             ListOldFiles(p) \/ RemoveOldFiles(p) \/ WriteClientCert(p) \/ Rehash(p) \/ HandlerFails(p)
      PROVE  OwnInv'
  BY <1>2, OwnUnchanged DEF ListOldFiles, RemoveOldFiles, WriteClientCert, Rehash, HandlerFails,
                            certVars, TypeInv, FilesTypeOK
<1>3. ASSUME NEW p \in Parties, Fetched(p) PROVE OwnInv'
  <2>1. /\ UNCHANGED <<session, circuit, root, thread, got, pem, source, bytecode, loaded>>
        /\ \A q \in Others(p) : thread[p][q] \in {"done", "failed"}
        /\ \A r \in Parties : r # p => stage'[r] = stage[r]
        /\ stage'[p] = IF \E q \in Others(p) : thread[p][q] = "failed" THEN "ended" ELSE "fetched"
    BY <1>3 DEF Fetched, certVars, TypeInv, FilesTypeOK
  <2> QED BY <2>1 DEF OwnInv, OwnRoots, AfterRehash, Others
<1>4. ASSUME NEW p \in Parties, PartyDies(p) PROVE OwnInv'
  <2>1. /\ UNCHANGED <<session, circuit, root, got, pem, source, bytecode, loaded>>
        /\ \A r \in Parties : stage'[r] = IF r = p THEN "ended" ELSE stage[r]
        /\ \A r, q \in Parties : thread'[r][q] = IF r = p THEN "none" ELSE thread[r][q]
    BY <1>4 DEF PartyDies, TypeInv, FilesTypeOK
  <2> QED BY <2>1 DEF OwnInv, OwnRoots, AfterRehash, Others
<1>5. CASE UNCHANGED filesVars
  BY <1>5, OwnUnchanged DEF filesVars, certVars
<1> QED BY <1>1, <1>2, <1>3, <1>4, <1>5, ThreadOwn, ProgramOwn DEF FilesNext, PrepareCerts

-----------------------------------------------------------------------------
(***************************************************************************)
(* The links to the certificates of the parties.                           *)
(***************************************************************************)

\* A step that touches no certificate of a party, no link and no thread.
LEMMA LinksUnchanged ==
  ASSUME LinkInv, UNCHANGED <<root, thread, pem, links, deathSince>>,
         \A r \in Parties :
           /\ stage'[r] \in AfterRehash => stage[r] \in AfterRehash
           /\ stage[r] = "ended" => stage'[r] = "ended"
           /\ stage[r] = "fetching" /\ stage'[r] # "fetching"
                => \A q \in Others(r) : thread[r][q] # "writing"
  PROVE  LinkInv'
BY DEF LinkInv, OwnRoots

LEMMA CleanLinks ==
  ASSUME TypeInv, LinkInv, NEW p \in Parties, RemoveOldFiles(p) \/ Rehash(p)
  PROVE  LinkInv'
<1> SUFFICES ASSUME OwnRoots PROVE LinkInv'
  BY DEF RemoveOldFiles, Rehash, sessionVars, LinkInv, OwnRoots
<1>1. /\ UNCHANGED <<root, thread, pem, deathSince>> /\ root[p] = p
      /\ \A r \in Parties : r # p => stage'[r] = stage[r] /\ links'[r] = links[r]
  BY DEF RemoveOldFiles, Rehash, Goto, sessionVars, faultVars, TypeInv, FilesTypeOK, OwnRoots
<1>2. CASE RemoveOldFiles(p)
  <2>1. stage[p] = "cleaning" /\ stage'[p] = "cleaned"
    BY <1>2 DEF RemoveOldFiles, Goto, TypeInv, FilesTypeOK
  <2> QED BY <1>1, <2>1 DEF LinkInv, OwnRoots, AfterRehash
<1>3. CASE Rehash(p)
  <2>1. stage[p] = "written" /\ stage'[p] = "fetching" /\ links'[p] = Certificates(p)
    BY <1>1, <1>3 DEF Rehash, Goto, TypeInv, FilesTypeOK
  <2>2. deathSince \/ \A q \in Parties : pem[p][q] # "empty"
    BY <2>1 DEF LinkInv
  <2>3. deathSince \/ Parties \subseteq links'[p]
    BY <2>1, <2>2 DEF Certificates
  <2> QED BY <1>1, <2>1, <2>3 DEF LinkInv, OwnRoots
<1> QED BY <1>2, <1>3

LEMMA ThreadLinks ==
  ASSUME TypeInv, OwnInv, LinkInv, NEW p \in Parties, NEW q \in Others(p),
         GetPartyCert(p, q) \/ GetPartyCertFails(p, q) \/ OpenPartyCert(p, q) \/ SavePartyCert(p, q)
  PROVE  LinkInv'
<1> SUFFICES ASSUME OwnRoots PROVE LinkInv'
  BY DEF GetPartyCert, GetPartyCertFails, OpenPartyCert, SavePartyCert, sessionVars, LinkInv, OwnRoots
<1>1. /\ UNCHANGED <<root, stage, links, deathSince>> /\ stage[p] = "fetching" /\ root[p] = p
      /\ q \in Parties /\ q # p
  BY DEF GetPartyCert, GetPartyCertFails, OpenPartyCert, SavePartyCert, sessionVars, faultVars,
         OwnRoots, Others
<1>2. \E step \in {"got", "failed", "writing", "done"} :
        /\ \A r, t \in Parties : thread'[r][t] = IF r = p /\ t = q THEN step ELSE thread[r][t]
        /\ step = "writing" \/ thread[p][q] # "writing" \/ pem'[p][q] # "empty"
        /\ \A r, t \in Parties : r # p \/ t # q => pem'[r][t] = pem[r][t]
        /\ step = "writing" \/ pem'[p][q] = pem[p][q] \/ pem'[p][q] # "empty"
  <2> USE DEF SetThread, TypeInv, FilesTypeOK
  <2>1. CASE GetPartyCert(p, q)
    BY <1>1, <2>1 DEF GetPartyCert
  <2>2. CASE GetPartyCertFails(p, q)
    BY <1>1, <2>2 DEF GetPartyCertFails
  <2>3. CASE OpenPartyCert(p, q)
    <3>1. \A r, t \in Parties : /\ thread'[r][t] = IF r = p /\ t = q THEN "writing" ELSE thread[r][t]
                                /\ r # p \/ t # q => pem'[r][t] = pem[r][t]
      BY <1>1, <2>3 DEF OpenPartyCert
    <3> QED BY <3>1
  <2>4. CASE SavePartyCert(p, q)
    <3>1. /\ thread[p][q] = "writing"
          /\ \A r, t \in Parties : /\ thread'[r][t] = IF r = p /\ t = q THEN "done" ELSE thread[r][t]
                                   /\ pem'[r][t] = IF r = p /\ t = q THEN got[p][q] ELSE pem[r][t]
      BY <1>1, <2>4 DEF SavePartyCert
    <3>2. got[p][q] = "own"
      BY <3>1 DEF OwnInv
    <3> QED BY <1>1, <3>1, <3>2
  <2> QED BY <2>1, <2>2, <2>3, <2>4
<1> QED BY <1>1, <1>2 DEF LinkInv, OwnRoots

\* The programs of all have met: every certificate has been fetched again.
LEMMA EndLinks ==
  ASSUME TypeInv, OwnInv, LinkInv, NEW p \in Parties, ProgramEnds(p)
  PROVE  LinkInv'
<1>1. /\ UNCHANGED <<root, thread, pem, links>> /\ stage[p] = "running"
      /\ \A r \in Parties : stage'[r] = IF r = p THEN "ended" ELSE stage[r]
      /\ deathSince' = (deathSince /\ ~Met)
  BY DEF ProgramEnds, Goto, sessionVars, certVars, TypeInv, FilesTypeOK
<1>2. Met /\ OwnRoots => \A r, q \in Parties : pem[r][q] = "own"
  BY DEF OwnInv, Met, AfterRehash, Others
<1>3. CASE Met
  BY <1>1, <1>2, <1>3 DEF LinkInv, OwnRoots, Met
<1>4. CASE ~Met
  BY <1>1, <1>4 DEF LinkInv, OwnRoots, AfterRehash
<1> QED BY <1>3, <1>4

LEMMA StepLinks ==
  ASSUME TypeInv, OwnInv, LinkInv, [FilesNext]_filesVars
  PROVE  LinkInv'
<1> USE DEF Goto, sessionVars, faultVars
<1>1. CASE NextSession
  <2>1. /\ UNCHANGED <<root, pem, links, deathSince>>
        /\ \A p \in Parties : stage[p] = "ended" /\ stage'[p] = "sent"
        /\ \A p, q \in Parties : thread'[p][q] = "none"
    BY <1>1 DEF NextSession
  <2> QED BY <2>1 DEF LinkInv, OwnRoots, AfterRehash
<1>2. ASSUME NEW p \in Parties, ListOldFiles(p) \/ WriteClientCert(p) PROVE LinkInv'
  BY <1>2, LinksUnchanged DEF ListOldFiles, WriteClientCert, AfterRehash, TypeInv, FilesTypeOK
<1>3. ASSUME NEW p \in Parties, Fetched(p) PROVE LinkInv'
  BY <1>3, LinksUnchanged DEF Fetched, certVars, AfterRehash, TypeInv, FilesTypeOK
<1>4. ASSUME NEW p \in Parties, HandlerFails(p) PROVE LinkInv'
  BY <1>4, LinksUnchanged DEF HandlerFails, certVars, AfterRehash, TypeInv, FilesTypeOK
<1>5. ASSUME NEW p \in Parties,
             OpenProgram(p) \/ WriteProgram(p) \/ CompileProgram(p) \/ RunProgram(p)
      PROVE  LinkInv'
  BY <1>5, LinksUnchanged DEF OpenProgram, WriteProgram, CompileProgram, RunProgram, certVars,
                              AfterRehash, TypeInv, FilesTypeOK
<1>6. ASSUME NEW p \in Parties, PartyDies(p) PROVE LinkInv'
  <2>1. /\ UNCHANGED <<root, pem, links>> /\ deathSince' = TRUE
        /\ \A r \in Parties : r # p => stage'[r] = stage[r]
        /\ \A r, q \in Parties : thread'[r][q] = IF r = p THEN "none" ELSE thread[r][q]
    BY <1>6 DEF PartyDies, TypeInv, FilesTypeOK
  <2> QED BY <2>1 DEF LinkInv, OwnRoots
<1>7. CASE UNCHANGED filesVars
  BY <1>7 DEF filesVars, certVars, LinkInv, OwnRoots
<1> QED BY <1>1, <1>2, <1>3, <1>4, <1>5, <1>6, <1>7, CleanLinks, ThreadLinks, EndLinks
        DEF FilesNext, PrepareCerts, PrepareProgram

-----------------------------------------------------------------------------
(***************************************************************************)
(* The theorems.                                                           *)
(***************************************************************************)
LEMMA InitInv == FilesInit => IInv
<1> SUFFICES ASSUME FilesInit PROVE IInv
  OBVIOUS
<1>1. ClientInv
  BY DEF FilesInit, ClientInv, AfterWrite, AfterRehash
<1>2. OwnInv
  BY DEF FilesInit, OwnInv, OwnRoots, AfterRehash, Others
<1>3. LinkInv
  BY DEF FilesInit, LinkInv, OwnRoots, AfterRehash
<1> QED BY <1>1, <1>2, <1>3, InitType DEF IInv

LEMMA Always == FilesSpec => []IInv
<1>1. IInv /\ [FilesNext]_filesVars => IInv'
  BY StepType, StepClient, StepOwn, StepLinks DEF IInv
<1> QED BY <1>1, InitInv, PTL DEF FilesSpec

\* The variables have the values they are meant to have.
THEOREM FilesTypeCorrect == FilesSpec => []FilesTypeOK
<1>1. IInv => FilesTypeOK
  BY DEF IInv, TypeInv
<1> QED BY <1>1, Always, PTL

\* The programs of all parties never meet without the client's certificate and
\* its link in every directory, whichever parties share one and however their
\* handlers interleave, fail and die: it is the last that has removed the
\* certificates who writes them last.
THEOREM ClientIsKnownCorrect == FilesSpec => []ClientIsKnown
<1>1. IInv => ClientIsKnown
  BY DEF IInv, ClientInv, ClientIsKnown, Met, SomeAt, AfterWrite, AfterRehash
<1> QED BY <1>1, Always, PTL

\* Parties that share no directory have each other's certificates when their
\* programs meet.
THEOREM PartiesAreKnownCorrect == FilesSpec => []PartiesAreKnown
<1>1. IInv => PartiesAreKnown
  BY DEF IInv, OwnInv, PartiesAreKnown, Met, AfterRehash, Others
<1> QED BY <1>1, Always, PTL

\* Nor do they lack a link to any of these once the programs of all have met
\* since the last death, for any number of deaths: c_rehash comes before the
\* certificates are fetched, but those it finds are whole.
THEOREM DeathCorrect == FilesSpec => []DeathCostsOneComputation
<1>1. ASSUME IInv PROVE DeathCostsOneComputation
  <2> SUFFICES ASSUME Met, OwnRoots, ~deathSince, NEW p \in Parties PROVE Parties \subseteq links[p]
    BY DEF DeathCostsOneComputation
  <2>1. \A r \in Parties : stage[r] = "running"
    BY DEF Met
  <2> QED BY <1>1, <2>1 DEF IInv, LinkInv, AfterRehash
<1>2. IInv => DeathCostsOneComputation
  BY <1>1
<1> QED BY <1>2, Always, PTL

\* Such a party never runs a program of an earlier session or one that was only
\* half written, in whatever state a death has left its files.
THEOREM RunsOwnProgramCorrect == FilesSpec => []RunsOwnProgram
<1>1. IInv => RunsOwnProgram
  BY DEF IInv, OwnInv, RunsOwnProgram
<1> QED BY <1>1, Always, PTL
=============================================================================
