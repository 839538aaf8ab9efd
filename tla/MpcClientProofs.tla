-------------------------- MODULE MpcClientProofs --------------------------
(***************************************************************************)
(* Proofs about MpcClient for any number of parties, whatever fails.       *)
(***************************************************************************)
EXTENDS MpcClient, NumberProofs

Header == [size : 0 .. 3, true : BOOLEAN]
Stages == {"silent", "listening", "accepted", "offered", "ready", "computed", "closed", "failed"}

\* The state has its type, and a program that does not listen has no connection.
TypeInv ==
  /\ kind \in {"share", "query"} /\ active \in BOOLEAN /\ deviation \in Deviations
  /\ pc \in Steps /\ at \in Sockets
  /\ wait_count \in 0 .. MaxWait
  /\ message \in Header \cup {None} /\ missing \in 0 .. 3
  /\ message = None => missing = 0
  /\ checks \in BOOLEAN /\ wrong \in BOOLEAN /\ sent \in BOOLEAN
  /\ program \in [Sockets -> Stages]
  /\ down \in [Sockets -> Seq(Header)]
  /\ up \in [Sockets -> Seq({"zero", "inputs"})]
  /\ \A p \in Sockets : /\ Len(up[p]) <= 1
                        /\ program[p] = "silent" => up[p] = <<>> /\ down[p] = <<>>
  /\ pc \in {"triples", "inputs"} \/ sent => kind = "share"
  /\ sent => pc \in {"inputs", "outputs", "done", "failed"}

\* What the client does next with a socket.
Following(step) == CASE step = "connect" -> "spec"
                     [] step = "spec" -> "zero"
                     [] step = "zero" -> IF kind = "share" THEN "triples" ELSE "outputs"
                     [] step = "triples" -> "inputs"
                     [] step = "inputs" -> "outputs"
                     [] OTHER -> "done"
Due(p) == IF p < at THEN Following(pc) ELSE pc

\* What the message begins with that the client waits for, and has it come?
SpecHeader(p) == [size |-> 2, true |-> deviation[p] # "spec"]
SharesSize(p) == LET honest == IF active THEN 3 ELSE 1
                 IN  IF deviation[p] = "size" THEN 4 - honest ELSE honest
SharesHeader(p) == [size |-> SharesSize(p), true |-> deviation[p] # "share"]
HeaderDue(p) == IF Due(p) = "spec" THEN SpecHeader(p) ELSE SharesHeader(p)
Reading(p) == p = at /\ message # None
Answered(p) == down[p] # <<>> \/ Reading(p)

\* How far a program can be, given what the client does next with it.
Quiet(p) == down[p] = <<>> /\ up[p] = <<>>
SocketInv(p) ==
  /\ Due(p) = "connect" => program[p] \in {"silent", "listening", "failed"} /\ Quiet(p)
  /\ Due(p) = "spec" => program[p] \in {"accepted", "failed"} /\ up[p] = <<>>
  /\ Due(p) = "zero" => program[p] \in {"accepted", "failed"} /\ Quiet(p)
  /\ Due(p) = "triples" =>
       /\ program[p] \in {"accepted", "offered", "failed"}
       /\ program[p] = "offered" \/ Answered(p) => program[p] # "accepted" /\ up[p] = <<>>
  /\ Due(p) = "inputs" => program[p] \in {"offered", "failed"} /\ Quiet(p)
  /\ Due(p) = "outputs" =>
       /\ program[p] \notin {"silent", "listening", IF kind = "share" THEN "accepted" ELSE "offered"}
       /\ Answered(p) => program[p] \in {"closed", "failed"}
  /\ Due(p) = "done" => program[p] \notin {"silent", "listening"}

\* Down a socket come no messages but the one that is due, or what is left of it.
StreamInv(p) ==
  down[p] # <<>> /\ ~Reading(p) /\ Due(p) \in {"spec", "triples", "outputs"} =>
    down[p][1] = HeaderDue(p) /\ Len(down[p]) <= HeaderDue(p).size + 1

FlowInv ==
  pc # "failed" =>
    /\ \A p \in Sockets : SocketInv(p) /\ StreamInv(p)
    /\ message # None => Receiving /\ message = HeaderDue(at) /\ Len(down[at]) <= missing

\* What the client knows of the parties whose messages it has taken.
Taken == {p \in Sockets : p < at}
KnownInv ==
  /\ pc # "failed" =>
       /\ pc = "spec" /\ at > 1 => first = SpecHeader(1)
       /\ \A p \in Sockets : Due(p) \notin {"connect", "spec"} =>
            (deviation[p] = "spec" <=> deviation[1] = "spec")
       /\ pc \in {"triples", "outputs"} /\ at > 1 =>
            /\ \A p \in Taken : SharesSize(p) = IF checks THEN 3 ELSE 1
            /\ wrong <=> \E p \in Taken : deviation[p] = "share"
  /\ active /\ (sent \/ pc \in {"inputs", "done"} \/ (pc = "outputs" /\ kind = "share")) =>
       deviation = Honest

-----------------------------------------------------------------------------
LEMMA SocketsAre == N \in Nat /\ N > 1 /\ 1 \in Sockets /\ N \in Sockets /\ 2 \in Sockets
BY ClientAssumption DEF Sockets

LEMMA MessageIs ==
  ASSUME NEW size \in 0 .. 3, NEW true \in BOOLEAN
  PROVE  /\ Message(size, true) \in Seq(Header)
         /\ Len(Message(size, true)) = size + 1
         /\ Message(size, true)[1] = [size |-> size, true |-> true]
<1> DEFINE h == <<[size |-> size, true |-> true]>>
           b == [i \in 1 .. size |-> Unit]
<1>1. h \in Seq(Header) /\ Len(h) = 1 /\ h[1] = [size |-> size, true |-> true]
  BY DEF Header
<1>2. b \in Seq(Header) /\ Len(b) = size
  <2>1. size \in Nat /\ b \in [1 .. size -> Header]
    BY DEF Unit, Header
  <2> HIDE DEF b
  <2> QED BY <2>1, SeqDef
<1> HIDE DEF h, b
<1> QED BY <1>1, <1>2, ConcatProperties DEF Message, h, b

LEMMA SpecificationIs ==
  ASSUME TypeInv, NEW p \in Sockets
  PROVE  /\ Specification(p) \in Seq(Header)
         /\ Len(Specification(p)) = SpecHeader(p).size + 1
         /\ Specification(p)[1] = SpecHeader(p) /\ SpecHeader(p).size = 2
<1>1. 2 \in 0 .. 3 /\ (deviation[p] # "spec") \in BOOLEAN
  OBVIOUS
<1> QED BY <1>1, MessageIs DEF Specification, SpecHeader

LEMMA SharesAre ==
  ASSUME TypeInv, NEW p \in Sockets
  PROVE  /\ Shares(p) \in Seq(Header)
         /\ Len(Shares(p)) = SharesHeader(p).size + 1
         /\ Shares(p)[1] = SharesHeader(p)
         /\ SharesSize(p) \in {1, 3} /\ SharesHeader(p).size = SharesSize(p)
<1>1. SharesSize(p) \in {1, 3} /\ SharesSize(p) \in 0 .. 3
  BY DEF SharesSize
<1>2. Shares(p) = Message(SharesSize(p), deviation[p] # "share")
  BY DEF Shares, SharesSize
<1> HIDE DEF SharesSize
<1> QED BY <1>1, <1>2, MessageIs DEF SharesHeader

\* What is left of a stream when its connection has failed.
LEMMA InitialPart ==
  ASSUME NEW s \in Seq(Header), NEW k \in 0 .. Len(s)
  PROVE  /\ SubSeq(s, 1, k) \in Seq(Header) /\ Len(SubSeq(s, 1, k)) = k
         /\ SubSeq(s, 1, k) # <<>> => k > 0 /\ s # <<>> /\ SubSeq(s, 1, k)[1] = s[1]
<1>1. k \in Nat /\ Len(s) \in Nat /\ k <= Len(s)
  BY LenProperties
<1>2. SubSeq(s, 1, k) \in Seq(Header)
  BY <1>1, SubSeqProperties
<1>3. Len(SubSeq(s, 1, k)) = k /\ (k > 0 => SubSeq(s, 1, k)[1] = s[1])
  BY <1>1, SubSeqProperties
<1>4. SubSeq(s, 1, k) # <<>> => k > 0
  BY <1>2, <1>3, EmptySeq
<1> QED BY <1>1, <1>2, <1>3, <1>4, EmptySeq

\* What is left when the first k units have been read.
LEMMA Remainder ==
  ASSUME NEW s \in Seq(Header), NEW k \in 1 .. 3, k <= Len(s)
  PROVE  SubSeq(s, k + 1, Len(s)) \in Seq(Header) /\ Len(SubSeq(s, k + 1, Len(s))) = Len(s) - k
<1>1. Len(s) \in Nat
  BY LenProperties
<1> QED BY <1>1, SubSeqProperties

\* A step that has to do with one socket leaves the others as they were.
LEMMA OtherSockets ==
  ASSUME UNCHANGED setting, NEW q \in Sockets,
         SocketInv(q), StreamInv(q),
         Due(q)' = Due(q), Reading(q)' = Reading(q),
         program'[q] = program[q], down'[q] = down[q], up'[q] = up[q]
  PROVE  SocketInv(q)' /\ StreamInv(q)'
<1>1. SpecHeader(q)' = SpecHeader(q) /\ SharesHeader(q)' = SharesHeader(q)
  BY DEF setting, SpecHeader, SharesHeader, SharesSize
<1>2. HeaderDue(q)' = HeaderDue(q)
  BY <1>1 DEF HeaderDue
<1>3. kind' = kind
  BY DEF setting
<1> QED BY <1>2, <1>3 DEF SocketInv, StreamInv, Answered, Quiet

LEMMA AdvanceDue ==
  ASSUME TypeInv, Advance(Following(pc)), kind' = kind, pc \notin {"failed", "done"}
  PROVE  /\ pc' \in Steps \ {"failed"} /\ at' \in Sockets /\ Following(pc) # "failed"
         /\ \A p \in Sockets : Due(p)' = IF p = at THEN Following(pc) ELSE Due(p)
         /\ pc' = pc => at < N /\ at' = at + 1 /\ Taken' = Taken \cup {at}
         /\ pc' # pc => pc' = Following(pc) /\ at = N /\ at' = 1 /\ Taken' = {}
         /\ pc = "triples" => kind = "share"
<1>1. at \in Nat /\ at >= 1 /\ at <= N /\ N \in Nat
  BY SocketsAre DEF TypeInv, Sockets
<1>2. Following(pc) \in Steps \ {"failed"} /\ Following(pc) # pc
  BY DEF Following, TypeInv, Steps
<1>3. pc' \in Steps \ {"failed"} /\ at' \in Sockets
  BY <1>1, <1>2 DEF Advance, TypeInv, Sockets
<1>4. \A p \in Sockets : p \in Nat /\ p >= 1 /\ p <= N
  BY SocketsAre DEF Sockets
<1>5. CASE at < N
  <2>1. pc' = pc /\ at' = at + 1 /\ Following(pc)' = Following(pc)
    BY <1>5 DEF Advance, Following
  <2>2. \A p \in Sockets : Due(p)' = IF p = at THEN Following(pc) ELSE Due(p)
    BY <1>1, <1>4, <2>1 DEF Due
  <2>3. Taken' = Taken \cup {at}
    BY <1>1, <1>4, <2>1 DEF Taken, Sockets
  <2> QED BY <1>2, <1>3, <1>5, <2>1, <2>2, <2>3 DEF TypeInv
<1>6. CASE at = N
  <2>1. pc' = Following(pc) /\ at' = 1
    BY <1>1, <1>6 DEF Advance
  <2>2. \A p \in Sockets : Due(p)' = IF p = at THEN Following(pc) ELSE Due(p)
    BY <1>1, <1>4, <1>6, <2>1 DEF Due
  <2>3. Taken' = {}
    BY <1>4, <2>1 DEF Taken
  <2> QED BY <1>2, <1>3, <1>6, <2>1, <2>2, <2>3 DEF TypeInv
<1> QED BY <1>1, <1>5, <1>6

LEMMA AdvanceFlow ==
  ASSUME TypeInv, FlowInv, Advance(Following(pc)), UNCHANGED setting,
         pc \notin {"failed", "done"}, message' = None,
         NEW p \in Sockets, p = at,
         \A q \in Sockets \ {p} :
           program'[q] = program[q] /\ down'[q] = down[q] /\ up'[q] = up[q],
         Due(p)' = Following(pc) /\ ~Reading(p)' => SocketInv(p)' /\ StreamInv(p)'
  PROVE  FlowInv'
<1>1. kind' = kind
  BY DEF setting
<1>2. \A q \in Sockets : ~Reading(q)' /\ (q # p => ~Reading(q))
  BY DEF Reading
<1>3. ASSUME NEW q \in Sockets, q # p PROVE SocketInv(q)' /\ StreamInv(q)'
  <2>1. Due(q)' = Due(q)
    BY <1>1, <1>3, AdvanceDue
  <2>2. SocketInv(q) /\ StreamInv(q)
    BY DEF FlowInv
  <2>3. program'[q] = program[q] /\ down'[q] = down[q] /\ up'[q] = up[q]
    BY <1>3
  <2>4. Reading(q)' = Reading(q)
    BY <1>2, <1>3 DEF Reading
  <2> QED BY <2>1, <2>2, <2>3, <2>4, OtherSockets
<1>4. Due(p)' = Following(pc)
  BY <1>1, AdvanceDue
<1> QED BY <1>1, <1>2, <1>3, <1>4 DEF FlowInv

-----------------------------------------------------------------------------
(***************************************************************************)
(* The client's steps.                                                     *)
(***************************************************************************)
MpcInv == TypeInv /\ FlowInv /\ KnownInv

\* Whoever fails sends nothing more.
LEMMA FailKeeps ==
  ASSUME KnownInv, Fail, UNCHANGED <<setting, sent>>
  PROVE  FlowInv' /\ KnownInv'
BY DEF Fail, setting, FlowInv, KnownInv, Honest

LEMMA ConnectStep ==
  ASSUME MpcInv, Connect PROVE MpcInv'
<1>1. /\ TypeInv /\ FlowInv /\ KnownInv
      /\ pc = "connect" /\ Following(pc) = "spec" /\ Advance("spec") /\ kind' = kind /\ UNCHANGED setting
      /\ program[at] = "listening" /\ at \in Sockets /\ message = None
  BY DEF MpcInv, TypeInv, Connect, Following, setting, FlowInv, Receiving
<1>2. /\ program' = [program EXCEPT ![at] = "accepted"]
      /\ down' = [down EXCEPT ![at] = Specification(at)]
      /\ UNCHANGED <<wait_count, message, missing, first, checks, wrong, sent, result, up, faults>>
  BY DEF Connect
<1>3. pc' \in {"connect", "spec"} /\ at' \in Sockets /\ (pc' = "spec" => at' = 1)
  BY <1>1, AdvanceDue DEF Steps
<1>4. TypeInv'
  BY <1>1, <1>2, <1>3, SpecificationIs DEF TypeInv, Stages, Steps, setting
<1>5. FlowInv'
  <2>1. PICK q \in Sockets : q = at
    BY <1>1
  <2>2. up[q] = <<>> /\ Due(q) = "connect"
    BY <1>1, <2>1 DEF FlowInv, SocketInv, Quiet, Due, TypeInv, Sockets
  <2>3. program'[q] = "accepted" /\ down'[q] = Specification(q) /\ up'[q] = <<>>
    BY <1>1, <1>2, <2>1, <2>2 DEF TypeInv
  <2>4. ASSUME Due(q)' = "spec" PROVE SocketInv(q)' /\ StreamInv(q)'
    <3>1. HeaderDue(q)' = SpecHeader(q)
      BY <1>1, <2>4 DEF HeaderDue, SpecHeader, setting
    <3> QED BY <1>1, <2>3, <2>4, <3>1, SpecificationIs DEF SocketInv, StreamInv
  <2>5. \A r \in Sockets \ {q} :
          program'[r] = program[r] /\ down'[r] = down[r] /\ up'[r] = up[r]
    BY <1>1, <1>2, <2>1 DEF TypeInv
  <2> QED BY <1>1, <1>2, <2>1, <2>4, <2>5, AdvanceFlow
<1>6. KnownInv'
  BY <1>1, <1>2, <1>3, AdvanceDue DEF KnownInv, TypeInv, setting
<1> QED BY <1>4, <1>5, <1>6 DEF MpcInv

\* A step that leaves the client where it is and changes one socket.
LEMMA StayFlow ==
  ASSUME FlowInv, UNCHANGED <<setting, pc, at>>, NEW p \in Sockets,
         \A q \in Sockets \ {p} : /\ program'[q] = program[q] /\ down'[q] = down[q]
                                  /\ up'[q] = up[q] /\ Reading(q)' = Reading(q),
         pc # "failed" =>
           /\ Due(p)' = Due(p) /\ HeaderDue(p)' = HeaderDue(p) => SocketInv(p)' /\ StreamInv(p)'
           /\ message' # None => /\ Receiving /\ message' = HeaderDue(at)
                                 /\ Len(down'[at]) <= missing'
  PROVE  FlowInv'
<1>1. \A q \in Sockets : Due(q)' = Due(q)
  BY DEF setting, Due, Following
<1>2. SpecHeader(p)' = SpecHeader(p) /\ SharesHeader(p)' = SharesHeader(p)
  BY DEF setting, SpecHeader, SharesHeader, SharesSize
<1>3. HeaderDue(p)' = HeaderDue(p)
  BY <1>1, <1>2 DEF HeaderDue
<1>4. ASSUME pc # "failed", NEW q \in Sockets, q # p PROVE SocketInv(q)' /\ StreamInv(q)'
  <2>1. SocketInv(q) /\ StreamInv(q)
    BY <1>4 DEF FlowInv
  <2> QED BY <1>1, <1>4, <2>1, OtherSockets
<1>5. HeaderDue(at)' = HeaderDue(at)
  BY DEF setting, HeaderDue, Due, Following, SpecHeader, SharesHeader, SharesSize
<1>6. Receiving' = Receiving
  BY DEF Receiving
<1> QED BY <1>1, <1>3, <1>4, <1>5, <1>6 DEF FlowInv

LEMMA StayKnown ==
  ASSUME KnownInv, UNCHANGED <<setting, pc, at, first, checks, wrong, sent>>
  PROVE  KnownInv'
<1>1. \A q \in Sockets : /\ Due(q)' = Due(q) /\ SpecHeader(q)' = SpecHeader(q)
                         /\ SharesSize(q)' = SharesSize(q)
  BY DEF setting, Due, Following, SpecHeader, SharesSize
<1>2. Taken' = Taken /\ Taken \subseteq Sockets
  BY DEF Taken
<1>3. /\ kind' = kind /\ active' = active /\ deviation' = deviation
  BY DEF setting
<1>4. SpecHeader(1)' = SpecHeader(1)
  BY <1>1, SocketsAre
<1> QED BY <1>1, <1>2, <1>3, <1>4 DEF KnownInv, Honest

LEMMA AttemptFailsStep ==
  ASSUME MpcInv, AttemptFails PROVE MpcInv'
<1>1. TypeInv'
  BY ClientAssumption DEF MpcInv, AttemptFails, Fail, Fault, TypeInv, Steps, setting
<1>2. CASE Fail
  BY <1>1, <1>2, FailKeeps DEF MpcInv, AttemptFails
<1>3. CASE UNCHANGED <<pc, at>>
  <2>1. UNCHANGED <<setting, pc, at, message, missing, first, checks, wrong, sent, program, down, up>>
    BY <1>3 DEF AttemptFails
  <2>2. KnownInv'
    BY <2>1, StayKnown DEF MpcInv
  <2>3. \A p \in Sockets : Reading(p)' = Reading(p)
    BY <2>1 DEF Reading
  <2>4. FlowInv'
    BY <2>1, <2>3, StayFlow, SocketsAre, OtherSockets
       DEF MpcInv, FlowInv, Receiving, HeaderDue, Due, Following, setting, SpecHeader, SharesHeader, SharesSize
  <2> QED BY <1>1, <2>2, <2>4 DEF MpcInv
<1> QED BY <1>2, <1>3 DEF AttemptFails

LEMMA ReadHeaderStep ==
  ASSUME MpcInv, ReadHeader PROVE MpcInv'
<1>1. PICK p \in Sockets : p = at
  BY DEF MpcInv, TypeInv
<1>2. /\ UNCHANGED <<setting, pc, at, wait_count, first, checks, wrong, sent, program, up, faults>>
      /\ Receiving /\ message = None /\ down[p] # <<>> /\ down[p] \in Seq(Header)
      /\ message' = Head(down[p]) /\ missing' = Head(down[p]).size
      /\ down' = [down EXCEPT ![p] = Tail(down[p])]
  BY <1>1 DEF ReadHeader, MpcInv, TypeInv
<1>3. /\ Head(down[p]) = down[p][1] /\ Head(down[p]) \in Header
      /\ Tail(down[p]) \in Seq(Header) /\ Len(Tail(down[p])) = Len(down[p]) - 1
      /\ down'[p] = Tail(down[p]) /\ Len(down[p]) \in Nat
  BY <1>2, HeadTailProperties, LenProperties, EmptySeq DEF MpcInv, TypeInv
<1>4. TypeInv'
  <2>1. program[p] # "silent"
    BY <1>2 DEF MpcInv, TypeInv
  <2>2. message' # None
    BY <1>2, <1>3, ClientAssumption DEF Header
  <2> QED BY <1>2, <1>3, <2>1, <2>2 DEF MpcInv, TypeInv, Header, setting
<1>5. KnownInv'
  BY <1>2, StayKnown DEF MpcInv
<1>6. Due(p) = pc /\ pc \in {"spec", "triples", "outputs"}
  BY <1>1, <1>2, SocketsAre DEF Due, Receiving, Sockets
<1>7. SocketInv(p) /\ StreamInv(p) /\ ~Reading(p) /\ Answered(p)
  BY <1>2, <1>6 DEF MpcInv, FlowInv, Reading, Answered
<1>8. message' = HeaderDue(p) /\ Len(down'[p]) <= missing'
  <2>1. HeaderDue(p) = Head(down[p]) /\ Len(down[p]) <= HeaderDue(p).size + 1
    BY <1>2, <1>3, <1>6, <1>7 DEF StreamInv
  <2>2. Head(down[p]).size \in 0 .. 3
    BY <1>3 DEF Header
  <2>3. missing' \in 0 .. 3 /\ Len(down[p]) <= missing' + 1
    BY <1>2, <2>1, <2>2
  <2>4. Len(down'[p]) <= missing'
    BY <1>3, <2>3
  <2> QED BY <1>2, <2>1, <2>4
<1>9. ASSUME Due(p)' = Due(p) PROVE SocketInv(p)' /\ StreamInv(p)'
  <2>1. Reading(p)'
    BY <1>1, <1>2, <1>3, ClientAssumption DEF Reading, Header
  <2>2. kind' = kind /\ up' = up /\ program' = program
    BY <1>2 DEF setting
  <2> QED BY <1>6, <1>7, <1>9, <2>1, <2>2 DEF SocketInv, StreamInv, Quiet
<1>10. \A q \in Sockets \ {p} : Reading(q)' = Reading(q) /\ down'[q] = down[q]
  BY <1>1, <1>2 DEF Reading, MpcInv, TypeInv
<1>11. HeaderDue(at) = HeaderDue(p) /\ down'[at] = down'[p]
  BY <1>1
<1>12. FlowInv'
  BY <1>2, <1>8, <1>9, <1>10, <1>11, StayFlow DEF MpcInv
<1> QED BY <1>4, <1>5, <1>12 DEF MpcInv

LEMMA ReadHeaderFailsStep ==
  ASSUME MpcInv, ReadHeaderFails PROVE MpcInv'
<1>1. TypeInv'
  BY DEF MpcInv, ReadHeaderFails, Fail, Fault, TypeInv, Steps, setting
<1> QED BY <1>1, FailKeeps DEF MpcInv, ReadHeaderFails

LEMMA TimesOutStep ==
  ASSUME MpcInv, TimesOut PROVE MpcInv'
<1>1. TypeInv'
  BY DEF MpcInv, TimesOut, Fail, Fault, TypeInv, Steps, setting
<1> QED BY <1>1, FailKeeps DEF MpcInv, TimesOut

LEMMA SendFailsStep ==
  ASSUME MpcInv, SendFails PROVE MpcInv'
<1>1. TypeInv'
  BY DEF MpcInv, SendFails, Fail, TypeInv, Steps, setting
<1> QED BY <1>1, FailKeeps DEF MpcInv, SendFails

LEMMA ReadBodyStep ==
  ASSUME MpcInv, ReadBody PROVE MpcInv'
<1>1. PICK p \in Sockets : p = at
  BY DEF MpcInv, TypeInv
<1>2. PICK k \in 1 .. missing :
        /\ k <= Len(down[p]) /\ missing' = missing - k
        /\ down' = [down EXCEPT ![p] = SubSeq(down[p], k + 1, Len(down[p]))]
  BY <1>1 DEF ReadBody, MpcInv, TypeInv
<1>3. /\ UNCHANGED <<setting, pc, at, wait_count, message, first, checks, wrong, sent, program, up, faults>>
      /\ Receiving /\ missing > 0 /\ missing \in 0 .. 3 /\ message # None
      /\ down \in [Sockets -> Seq(Header)] /\ down[p] \in Seq(Header)
  BY DEF ReadBody, MpcInv, TypeInv
<1>4. /\ down'[p] \in Seq(Header) /\ Len(down'[p]) = Len(down[p]) - k /\ Len(down[p]) \in Nat
      /\ k \in 1 .. 3
  BY <1>2, <1>3, Remainder, LenProperties
<1>5. TypeInv'
  <2>1. down[p] # <<>>
    BY <1>2, <1>3, <1>4
  <2>2. down' \in [Sockets -> Seq(Header)] /\ program[p] # "silent"
    BY <1>2, <1>3, <1>4, <2>1 DEF MpcInv, TypeInv
  <2> QED BY <1>2, <1>3, <1>4, <2>2 DEF MpcInv, TypeInv, setting
<1>6. KnownInv'
  BY <1>3, StayKnown DEF MpcInv
<1>7. Due(p) = pc /\ pc \in {"spec", "triples", "outputs"}
  BY <1>1, <1>3, SocketsAre DEF Due, Receiving, Sockets
<1>8. /\ SocketInv(p) /\ Reading(p) /\ Reading(p)' /\ Answered(p)
      /\ message = HeaderDue(p) /\ Len(down[p]) <= missing
  BY <1>1, <1>3, <1>7 DEF MpcInv, FlowInv, Reading, Answered
<1>9. Len(down'[p]) <= missing'
  BY <1>2, <1>3, <1>4, <1>8
<1>10. ASSUME Due(p)' = Due(p) PROVE SocketInv(p)' /\ StreamInv(p)'
  <2>1. kind' = kind /\ up' = up /\ program' = program
    BY <1>3 DEF setting
  <2> QED BY <1>7, <1>8, <1>10, <2>1 DEF SocketInv, StreamInv, Quiet
<1>11. \A q \in Sockets \ {p} : Reading(q)' = Reading(q) /\ down'[q] = down[q]
  BY <1>1, <1>2, <1>3 DEF Reading
<1>12. HeaderDue(at) = HeaderDue(p) /\ down'[at] = down'[p] /\ message' = HeaderDue(at)
  BY <1>1, <1>3, <1>8
<1>13. FlowInv'
  BY <1>3, <1>9, <1>10, <1>11, <1>12, StayFlow DEF MpcInv
<1> QED BY <1>5, <1>6, <1>13 DEF MpcInv

LEMMA TakeSpecificationStep ==
  ASSUME MpcInv, TakeSpecification PROVE MpcInv'
<1>1. PICK p \in Sockets : p = at
  BY DEF MpcInv, TypeInv
<1>2. /\ UNCHANGED <<setting, wait_count, missing, checks, wrong, sent, program, down, up, faults>>
      /\ kind' = kind /\ pc = "spec" /\ Following(pc) = "zero" /\ Due(p) = "spec" /\ ~sent
      /\ message # None /\ missing = 0 /\ message' = None
      /\ first' = IF at = 1 THEN message ELSE first
  BY <1>1, SocketsAre DEF TakeSpecification, MpcInv, TypeInv, Received, Following, Due, setting, Sockets
<1>3. SocketInv(p) /\ message = SpecHeader(p) /\ Len(down[p]) <= 0
  BY <1>1, <1>2 DEF MpcInv, FlowInv, HeaderDue
<1>4. CASE Fail
  <2>1. TypeInv'
    BY <1>2, <1>4 DEF MpcInv, Fail, TypeInv, Steps, setting
  <2> QED BY <1>2, <1>4, <2>1, FailKeeps DEF MpcInv
<1>5. CASE ~(at > 1 /\ message # first) /\ Advance("zero")
  <2>1. pc' \in {"spec", "zero"} /\ at' \in Sockets /\ (pc' = "zero" => at' = 1)
    BY <1>2, <1>5, AdvanceDue DEF MpcInv
  <2>2. TypeInv'
    BY <1>2, <2>1 DEF MpcInv, TypeInv, setting, Steps
  <2>3. down[p] = <<>> /\ up[p] = <<>>
    BY <1>2, <1>3, EmptySeq DEF MpcInv, TypeInv, SocketInv
  <2>4. ASSUME Due(p)' = "zero" PROVE SocketInv(p)' /\ StreamInv(p)'
    BY <1>2, <1>3, <2>3, <2>4 DEF SocketInv, StreamInv, Quiet
  <2>5. FlowInv'
    BY <1>1, <1>2, <1>5, <2>4, AdvanceFlow DEF MpcInv
  <2>6. deviation[p] = "spec" <=> deviation[1] = "spec"
    BY <1>1, <1>2, <1>3, <1>5, SocketsAre DEF MpcInv, KnownInv, SpecHeader, Sockets
  <2>7. \A q \in Sockets : Due(q)' = IF q = p THEN "zero" ELSE Due(q)
    BY <1>1, <1>2, <1>5, AdvanceDue DEF MpcInv
  <2>8. pc' = "spec" /\ at' > 1 => first' = SpecHeader(1)'
    BY <1>1, <1>2, <1>3, <1>5, SocketsAre DEF MpcInv, KnownInv, SpecHeader, Sockets, setting
  <2>9. deviation' = deviation
    BY <1>2 DEF setting
  <2>10. KnownInv'
    BY <1>2, <2>1, <2>6, <2>7, <2>8, <2>9 DEF MpcInv, KnownInv
  <2> QED BY <2>2, <2>5, <2>10 DEF MpcInv
<1> QED BY <1>2, <1>4, <1>5 DEF TakeSpecification

\* One unit in an empty stream.
LEMMA OneUnit ==
  ASSUME NEW text \in {"zero", "inputs"}
  PROVE  Append(<<>>, text) \in Seq({"zero", "inputs"}) /\ Len(Append(<<>>, text)) = 1
BY EmptySeq, AppendProperties

LEMMA SendZeroStep ==
  ASSUME MpcInv, SendZero PROVE MpcInv'
<1>1. PICK p \in Sockets : p = at
  BY DEF MpcInv, TypeInv
<1>2. /\ UNCHANGED <<setting, wait_count, message, missing, first, checks, wrong, sent, program, down, faults>>
      /\ kind' = kind /\ deviation' = deviation /\ pc = "zero" /\ Due(p) = "zero"
      /\ ~sent /\ message = None /\ missing = 0
      /\ up' = [up EXCEPT ![p] = Append(up[p], "zero")]
      /\ Advance(Following(pc))
      /\ Following(pc) = IF kind = "share" THEN "triples" ELSE "outputs"
  BY <1>1, SocketsAre
     DEF SendZero, Send, MpcInv, TypeInv, FlowInv, Receiving, Following, Due, setting, Sockets
<1>3. program[p] \in {"accepted", "failed"} /\ down[p] = <<>> /\ up[p] = <<>>
  BY <1>2 DEF MpcInv, FlowInv, SocketInv, Quiet
<1>4. up'[p] \in Seq({"zero", "inputs"}) /\ Len(up'[p]) = 1
  BY <1>2, <1>3, OneUnit DEF MpcInv, TypeInv
<1>5. /\ pc' \in {"zero", Following(pc)} /\ at' \in Sockets /\ (pc' # "zero" => at' = 1)
  BY <1>2, AdvanceDue DEF MpcInv
<1>6. TypeInv'
  <2>1. up' \in [Sockets -> Seq({"zero", "inputs"})]
    BY <1>2, <1>4 DEF MpcInv, TypeInv
  <2> QED BY <1>2, <1>3, <1>4, <1>5, <2>1 DEF MpcInv, TypeInv, setting, Steps
<1>7. ASSUME Due(p)' = Following(pc), ~Reading(p)' PROVE SocketInv(p)' /\ StreamInv(p)'
  BY <1>2, <1>3, <1>7 DEF SocketInv, StreamInv, Answered, MpcInv, TypeInv
<1>8. FlowInv'
  <2>1. \A q \in Sockets \ {p} : program'[q] = program[q] /\ down'[q] = down[q] /\ up'[q] = up[q]
    BY <1>2 DEF MpcInv, TypeInv
  <2> QED BY <1>1, <1>2, <1>7, <2>1, AdvanceFlow DEF MpcInv
<1>9. \A q \in Sockets : Due(q)' = IF q = p THEN Following(pc) ELSE Due(q)
  BY <1>1, <1>2, AdvanceDue DEF MpcInv
<1>10. KnownInv'
  <2>1. \A q \in Sockets : Due(q)' \notin {"connect", "spec"} =>
          (deviation'[q] = "spec" <=> deviation'[1] = "spec")
    BY <1>2, <1>9 DEF MpcInv, KnownInv
  <2> QED BY <1>2, <1>5, <2>1 DEF KnownInv
<1> QED BY <1>6, <1>8, <1>10 DEF MpcInv

LEMMA SendInputsStep ==
  ASSUME MpcInv, SendInputs PROVE MpcInv'
<1>1. PICK p \in Sockets : p = at
  BY DEF MpcInv, TypeInv
<1>2. /\ UNCHANGED <<setting, wait_count, message, missing, first, checks, wrong, program, down, faults>>
      /\ kind' = kind /\ active' = active /\ deviation' = deviation
      /\ pc = "inputs" /\ Due(p) = "inputs" /\ kind = "share"
      /\ sent' = TRUE /\ message = None /\ missing = 0
      /\ up' = [up EXCEPT ![p] = Append(up[p], "inputs")]
      /\ Advance(Following(pc)) /\ Following(pc) = "outputs"
  BY <1>1, SocketsAre
     DEF SendInputs, Send, MpcInv, TypeInv, FlowInv, Receiving, Following, Due, setting, Sockets
<1>3. program[p] \in {"offered", "failed"} /\ down[p] = <<>> /\ up[p] = <<>>
  BY <1>2 DEF MpcInv, FlowInv, SocketInv, Quiet
<1>4. up'[p] \in Seq({"zero", "inputs"}) /\ Len(up'[p]) = 1
  BY <1>2, <1>3, OneUnit DEF MpcInv, TypeInv
<1>5. pc' \in {"inputs", "outputs"} /\ at' \in Sockets /\ (pc' # "inputs" => at' = 1)
  BY <1>2, AdvanceDue DEF MpcInv
<1>6. TypeInv'
  <2>1. up' \in [Sockets -> Seq({"zero", "inputs"})]
    BY <1>2, <1>4 DEF MpcInv, TypeInv
  <2> QED BY <1>2, <1>3, <1>4, <1>5, <2>1 DEF MpcInv, TypeInv, setting, Steps
<1>7. ASSUME Due(p)' = Following(pc), ~Reading(p)' PROVE SocketInv(p)' /\ StreamInv(p)'
  BY <1>2, <1>3, <1>7 DEF SocketInv, StreamInv, Answered, MpcInv, TypeInv
<1>8. FlowInv'
  <2>1. \A q \in Sockets \ {p} : program'[q] = program[q] /\ down'[q] = down[q] /\ up'[q] = up[q]
    BY <1>2 DEF MpcInv, TypeInv
  <2> QED BY <1>1, <1>2, <1>7, <2>1, AdvanceFlow DEF MpcInv
<1>9. \A q \in Sockets : Due(q)' = IF q = p THEN Following(pc) ELSE Due(q)
  BY <1>1, <1>2, AdvanceDue DEF MpcInv
<1>10. KnownInv'
  <2>1. \A q \in Sockets : Due(q)' \notin {"connect", "spec"} =>
          (deviation'[q] = "spec" <=> deviation'[1] = "spec")
    BY <1>2, <1>9 DEF MpcInv, KnownInv
  <2>2. active => deviation = Honest
    BY <1>2 DEF MpcInv, KnownInv
  <2> QED BY <1>2, <1>5, <2>1, <2>2 DEF KnownInv, Honest
<1> QED BY <1>6, <1>8, <1>10 DEF MpcInv

-----------------------------------------------------------------------------
(***************************************************************************)
(* What the checks of the client find out.                                 *)
(***************************************************************************)

\* One party at most deviates, there are two at least, and under a protocol for
\* malicious parties each that does not sends three numbers.
LEMMA NobodyDeviates ==
  ASSUME TypeInv, active, NEW c \in BOOLEAN,
         \A p \in Sockets : SharesSize(p) = IF c THEN 3 ELSE 1,
         c => \A p \in Sockets : deviation[p] # "share",
         \A p \in Sockets : deviation[p] = "spec" <=> deviation[1] = "spec"
  PROVE  deviation = Honest
<1>1. SUFFICES ASSUME NEW p \in Sockets, NEW d \in {"spec", "size", "share"},
                      deviation = [Honest EXCEPT ![p] = d]
               PROVE  FALSE
  BY DEF TypeInv, Deviations
<1>2. PICK q \in Sockets : q # p
  BY SocketsAre
<1>3. deviation[p] = d /\ deviation[q] = "none"
  BY <1>1, <1>2 DEF Honest
<1>4. SharesSize(q) = 3
  BY <1>3 DEF SharesSize
<1>5. c /\ SharesSize(p) = 3
  BY <1>4
<1>6. d # "size" /\ d # "share"
  BY <1>3, <1>5 DEF SharesSize
<1>7. d # "spec"
  BY <1>2, <1>3
<1> QED BY <1>6, <1>7

LEMMA TakeSharesStep ==
  ASSUME MpcInv, TakeShares PROVE MpcInv'
<1>1. PICK p \in Sockets : p = at
  BY DEF MpcInv, TypeInv
<1> DEFINE next == IF pc = "triples" THEN "inputs" ELSE "done"
<1>2. /\ UNCHANGED <<setting, wait_count, missing, first, sent, program, down, up, faults>>
      /\ kind' = kind /\ active' = active /\ deviation' = deviation
      /\ pc \in {"triples", "outputs"} /\ Following(pc) = next /\ Due(p) = pc
      /\ message \in Header /\ missing = 0 /\ message' = None
      /\ checks' = (IF at = 1 THEN message.size = 3 ELSE checks)
      /\ wrong' = ((at > 1 /\ wrong) \/ ~message.true)
      /\ checks' \in BOOLEAN /\ wrong' \in BOOLEAN
  <2>1. message \in Header /\ message.true \in BOOLEAN /\ checks \in BOOLEAN /\ wrong \in BOOLEAN
    BY DEF TakeShares, Received, MpcInv, TypeInv, Header
  <2>2. Following(pc) = next /\ Due(p) = pc
    BY <1>1, SocketsAre DEF TakeShares, Following, Due, Sockets
  <2>3. wrong' = ((at > 1 /\ wrong) \/ ~message.true)
    BY DEF TakeShares
  <2>4. wrong' \in BOOLEAN
    BY <2>1, <2>3
  <2> QED BY <2>1, <2>2, <2>3, <2>4 DEF TakeShares, Received, setting
<1>3. SocketInv(p) /\ message = SharesHeader(p) /\ Len(down[p]) <= 0 /\ Reading(p)
  BY <1>1, <1>2, ClientAssumption DEF MpcInv, FlowInv, HeaderDue, Reading, Header
<1>4. CASE Fail
  <2>1. TypeInv'
    BY <1>2, <1>4 DEF MpcInv, Fail, TypeInv, Steps, setting
  <2> QED BY <1>2, <1>4, <2>1, FailKeeps DEF MpcInv
<1>5. CASE /\ message.size = IF checks' THEN 3 ELSE 1
           /\ ~(at = N /\ checks' /\ wrong')
           /\ Advance(next)
  <2>1. pc' \in {pc, next} /\ at' \in Sockets /\ (pc' # pc => at = N /\ at' = 1 /\ pc' = next)
    BY <1>2, <1>5, AdvanceDue DEF MpcInv
  <2>2. TypeInv'
    <3>1. pc = "triples" => kind = "share"
      BY DEF MpcInv, TypeInv
    <3> QED BY <1>2, <2>1, <3>1 DEF MpcInv, TypeInv, setting, Steps
  <2>3. down[p] = <<>>
    BY <1>2, <1>3, EmptySeq DEF MpcInv, TypeInv
  <2>4. ASSUME Due(p)' = Following(pc) PROVE SocketInv(p)' /\ StreamInv(p)'
    BY <1>2, <1>3, <2>3, <2>4 DEF SocketInv, StreamInv, Quiet, Answered
  <2>5. FlowInv'
    BY <1>1, <1>2, <1>5, <2>4, AdvanceFlow DEF MpcInv
  <2>6. \A q \in Sockets : Due(q)' = IF q = p THEN next ELSE Due(q)
    BY <1>1, <1>2, <1>5, AdvanceDue DEF MpcInv
  <2>7. \A q \in Sockets : deviation[q] = "spec" <=> deviation[1] = "spec"
    <3>1. \A q \in Sockets : Due(q) \notin {"connect", "spec"}
      BY <1>2 DEF Due, Following
    <3> QED BY <1>2, <3>1 DEF MpcInv, KnownInv
  <2>8. \A q \in Taken \cup {p} : SharesSize(q) = IF checks' THEN 3 ELSE 1
    <3>1. SharesSize(p) = message.size
      BY <1>3 DEF SharesHeader
    <3>2. CASE at = 1
      BY <1>1, <1>5, <3>1, <3>2, SocketsAre DEF Taken, Sockets
    <3>3. CASE at > 1
      BY <1>2, <1>5, <3>1, <3>3 DEF MpcInv, KnownInv
    <3> QED BY <1>1, <3>2, <3>3, SocketsAre DEF Sockets
  <2>9. wrong' <=> \E q \in Taken \cup {p} : deviation[q] = "share"
    <3>1. message.true <=> deviation[p] # "share"
      BY <1>3 DEF SharesHeader
    <3>2. CASE at = 1
      <4>1. Taken = {}
        BY <3>2 DEF Taken, Sockets
      <4>2. ~(at > 1)
        BY <3>2
      <4>3. wrong' <=> ~message.true
        BY <1>2, <4>2, Zenon
      <4> QED BY <3>1, <4>1, <4>3
    <3>3. CASE at > 1
      BY <1>2, <3>1, <3>3 DEF MpcInv, KnownInv
    <3> QED BY <1>1, <3>2, <3>3, SocketsAre DEF Sockets
  <2>10. pc' = pc => Taken' = Taken \cup {p}
    BY <1>1, <1>2, <1>5, AdvanceDue DEF MpcInv
  <2>11. \A q \in Sockets : SharesSize(q)' = SharesSize(q)
    BY <1>2 DEF SharesSize
  <2>12. Taken \cup {p} \subseteq Sockets
    BY DEF Taken
  <2>13. pc' # pc /\ active => deviation = Honest
    <3> SUFFICES ASSUME pc' # pc, active PROVE deviation = Honest
      OBVIOUS
    <3>1. at = N /\ Taken \cup {p} = Sockets
      BY <1>1, <2>1, SocketsAre DEF Taken, Sockets
    <3> QED BY <1>2, <1>5, <2>7, <2>8, <2>9, <3>1, NobodyDeviates DEF MpcInv
  <2>14. KnownInv'
    <3>1. \A q \in Sockets : Due(q)' \notin {"connect", "spec"} =>
            (deviation'[q] = "spec" <=> deviation'[1] = "spec")
      BY <1>2, <2>7
    <3>2. pc' \in {"triples", "outputs"} /\ at' > 1 =>
            /\ \A q \in Taken' : SharesSize(q)' = IF checks' THEN 3 ELSE 1
            /\ wrong' <=> \E q \in Taken' : deviation'[q] = "share"
      BY <1>2, <2>1, <2>8, <2>9, <2>10, <2>11, <2>12
    <3>3. active' /\ (sent' \/ pc' \in {"inputs", "done"} \/ (pc' = "outputs" /\ kind' = "share"))
            => deviation' = Honest'
      BY <1>2, <2>1, <2>13 DEF MpcInv, KnownInv, Honest
    <3>4. pc' # "spec"
      BY <1>2, <2>1
    <3> QED BY <3>1, <3>2, <3>3, <3>4 DEF KnownInv
  <2> QED BY <2>2, <2>5, <2>14 DEF MpcInv
<1> QED BY <1>2, <1>4, <1>5 DEF TakeShares

-----------------------------------------------------------------------------
(***************************************************************************)
(* The programs' steps.                                                    *)
(***************************************************************************)
LEMMA ListenStep ==
  ASSUME MpcInv, NEW p \in Sockets, Listen(p) PROVE MpcInv'
<1>1. /\ UNCHANGED <<setting, clientVars, down, up, faults>>
      /\ program[p] = "silent" /\ program' = [program EXCEPT ![p] = "listening"]
  BY DEF Listen
<1>2. TypeInv' /\ KnownInv'
  BY <1>1, StayKnown DEF MpcInv, TypeInv, clientVars, setting, Stages
<1>3. /\ program'[p] = "listening"
      /\ \A q \in Sockets \ {p} : program'[q] = program[q]
  BY <1>1 DEF MpcInv, TypeInv
<1>4. FlowInv'
  <2>1. \A q \in Sockets : Reading(q)' = Reading(q)
    BY <1>1 DEF Reading, clientVars
  <2>2. ASSUME pc # "failed", Due(p)' = Due(p), HeaderDue(p)' = HeaderDue(p)
        PROVE  SocketInv(p)' /\ StreamInv(p)'
    <3>1. SocketInv(p) /\ StreamInv(p)
      BY <2>2 DEF MpcInv, FlowInv
    <3>2. Due(p) \in {"connect", "failed"}
      BY <1>1, <2>2, <3>1 DEF SocketInv, Due, Following, MpcInv, TypeInv, Steps
    <3> QED BY <1>1, <1>3, <2>2, <3>1, <3>2 DEF SocketInv, StreamInv, Quiet
  <2> QED BY <1>1, <1>3, <2>1, <2>2, StayFlow DEF MpcInv, FlowInv, clientVars
<1> QED BY <1>2, <1>4 DEF MpcInv

LEMMA ReadPlaceholderStep ==
  ASSUME MpcInv, NEW p \in Sockets, ReadPlaceholder(p) PROVE MpcInv'
<1>1. /\ UNCHANGED <<setting, clientVars, faults>> /\ kind' = kind
      /\ program[p] = "accepted" /\ up[p] # <<>>
      /\ up' = [up EXCEPT ![p] = <<>>]
      /\ program' = [program EXCEPT ![p] = IF kind = "share" THEN "offered" ELSE "ready"]
      /\ down' = IF kind = "share" THEN [down EXCEPT ![p] = down[p] \o Shares(p)] ELSE down
  BY DEF ReadPlaceholder, setting, MpcInv, TypeInv
<1>2. down[p] \in Seq(Header) /\ down'[p] \in Seq(Header) /\ <<>> \in Seq({"zero", "inputs"})
  BY <1>1, SharesAre, ConcatProperties, EmptySeq DEF MpcInv, TypeInv
<1>3. /\ program'[p] = IF kind = "share" THEN "offered" ELSE "ready"
      /\ up'[p] = <<>>
      /\ \A q \in Sockets \ {p} : program'[q] = program[q] /\ down'[q] = down[q] /\ up'[q] = up[q]
  BY <1>1 DEF MpcInv, TypeInv
<1>4. TypeInv'
  <2>1. /\ program' \in [Sockets -> Stages] /\ down' \in [Sockets -> Seq(Header)]
        /\ up' \in [Sockets -> Seq({"zero", "inputs"})]
    BY <1>1, <1>2 DEF MpcInv, TypeInv, Stages
  <2>2. Len(up'[p]) <= 1 /\ program'[p] # "silent"
    BY <1>3
  <2> QED BY <1>1, <1>3, <2>1, <2>2 DEF MpcInv, TypeInv, clientVars, setting
<1>5. KnownInv'
  BY <1>1, StayKnown DEF MpcInv, clientVars
<1>6. ASSUME pc # "failed"
      PROVE  /\ Due(p) \in {"triples", "outputs", "done"} /\ SocketInv(p)
             /\ Due(p) \in {"triples", "outputs"} => down[p] = <<>> /\ ~Reading(p)
             /\ Due(p) = "outputs" => kind # "share"
  <2>1. SocketInv(p)
    BY <1>6 DEF MpcInv, FlowInv
  <2> QED BY <1>1, <1>6, <2>1 DEF SocketInv, Quiet, Answered, Due, Following, MpcInv, TypeInv, Steps
<1>7. ASSUME pc # "failed", Due(p)' = Due(p), HeaderDue(p)' = HeaderDue(p)
      PROVE  SocketInv(p)' /\ StreamInv(p)'
  <2>1. CASE kind = "share" /\ Due(p) = "triples"
    <3>1. down'[p] = Shares(p)
      BY <1>1, <1>2, <1>6, <1>7, <2>1, SharesAre, ConcatEmptySeq DEF MpcInv, TypeInv
    <3>2. HeaderDue(p) = SharesHeader(p)
      BY <2>1 DEF HeaderDue
    <3> QED BY <1>1, <1>3, <1>7, <2>1, <3>1, <3>2, SharesAre DEF SocketInv, StreamInv, MpcInv
  <2>2. CASE Due(p) = "done"
    BY <1>1, <1>3, <1>7, <2>2 DEF SocketInv, StreamInv
  <2>3. CASE kind # "share" /\ Due(p) \in {"triples", "outputs"}
    <3>1. down'[p] = <<>> /\ ~Reading(p)'
      BY <1>1, <1>6, <1>7, <2>3 DEF Reading, clientVars
    <3>2. Due(p) = "outputs"
      BY <1>6, <1>7, <2>3, SocketsAre DEF Due, Following, MpcInv, TypeInv
    <3> QED BY <1>1, <1>3, <1>7, <2>3, <3>1, <3>2 DEF SocketInv, StreamInv, Answered, MpcInv, TypeInv
  <2> QED BY <1>6, <1>7, <2>1, <2>2, <2>3
<1>8. ASSUME pc # "failed", message # None
      PROVE  Receiving /\ message = HeaderDue(at) /\ Len(down'[at]) <= missing
  <2>1. Receiving /\ message = HeaderDue(at) /\ Len(down[at]) <= missing /\ at \in Sockets
    BY <1>8 DEF MpcInv, FlowInv, TypeInv
  <2>2. Due(at) = pc
    BY <2>1, SocketsAre DEF Due, Sockets
  <2>3. at # p
    BY <1>6, <1>8, <2>1, <2>2 DEF Reading, Receiving
  <2> QED BY <1>3, <2>1, <2>3
<1>9. FlowInv'
  <2>1. \A q \in Sockets : Reading(q)' = Reading(q)
    BY <1>1 DEF Reading, clientVars
  <2> QED BY <1>1, <1>3, <1>7, <1>8, <2>1, StayFlow DEF MpcInv, clientVars
<1> QED BY <1>4, <1>5, <1>9 DEF MpcInv

LEMMA ReceiveInputsStep ==
  ASSUME MpcInv, NEW p \in Sockets, ReceiveInputs(p) PROVE MpcInv'
<1>1. /\ UNCHANGED <<setting, clientVars, down, faults>> /\ kind' = kind
      /\ program[p] = "offered" /\ up[p] # <<>>
      /\ up' = [up EXCEPT ![p] = <<>>]
      /\ program' = [program EXCEPT ![p] = "ready"]
  BY DEF ReceiveInputs, setting
<1>2. /\ program'[p] = "ready" /\ up'[p] = <<>>
      /\ \A q \in Sockets \ {p} : program'[q] = program[q] /\ up'[q] = up[q]
  BY <1>1 DEF MpcInv, TypeInv
<1>3. TypeInv'
  <2>1. program' \in [Sockets -> Stages] /\ up' \in [Sockets -> Seq({"zero", "inputs"})]
    BY <1>1, EmptySeq DEF MpcInv, TypeInv, Stages
  <2>2. Len(up'[p]) <= 1
    BY <1>2
  <2> QED BY <1>1, <1>2, <2>1, <2>2 DEF MpcInv, TypeInv, clientVars, setting
<1>4. KnownInv'
  BY <1>1, StayKnown DEF MpcInv, clientVars
<1>5. \A q \in Sockets : Reading(q)' = Reading(q)
  BY <1>1 DEF Reading, clientVars
<1>6. ASSUME pc # "failed", Due(p)' = Due(p), HeaderDue(p)' = HeaderDue(p)
      PROVE  SocketInv(p)' /\ StreamInv(p)'
  <2>1. SocketInv(p) /\ StreamInv(p)
    BY <1>6 DEF MpcInv, FlowInv
  <2>2. Due(p) \in {"outputs", "done"} /\ (Due(p) = "outputs" => kind = "share")
    BY <1>1, <1>6, <2>1 DEF SocketInv, Quiet, Due, Following, MpcInv, TypeInv, Steps
  <2> QED BY <1>1, <1>2, <1>5, <1>6, <2>1, <2>2 DEF SocketInv, StreamInv, Answered
<1>7. FlowInv'
  BY <1>1, <1>2, <1>5, <1>6, StayFlow DEF MpcInv, FlowInv, clientVars
<1> QED BY <1>3, <1>4, <1>7 DEF MpcInv

LEMMA ComputeStep ==
  ASSUME MpcInv, Compute PROVE MpcInv'
<1>1. /\ UNCHANGED <<setting, clientVars, down, up, faults>> /\ kind' = kind
      /\ \A p \in Sockets : program[p] = "ready" /\ program'[p] = "computed"
      /\ program' = [p \in Sockets |-> "computed"]
  BY DEF Compute, setting
<1>2. TypeInv'
  BY <1>1 DEF MpcInv, TypeInv, Stages, clientVars, setting
<1>3. KnownInv'
  BY <1>1, StayKnown DEF MpcInv, clientVars
<1>4. \A q \in Sockets : /\ Reading(q)' = Reading(q) /\ Due(q)' = Due(q)
                         /\ HeaderDue(q)' = HeaderDue(q)
  BY <1>1 DEF Reading, clientVars, setting, Due, Following, HeaderDue, SpecHeader, SharesHeader,
              SharesSize
<1>5. ASSUME pc # "failed", NEW p \in Sockets PROVE SocketInv(p)' /\ StreamInv(p)'
  <2>1. SocketInv(p) /\ StreamInv(p)
    BY <1>5 DEF MpcInv, FlowInv
  <2>2. Due(p) \in {"outputs", "done"}
    BY <1>1, <1>5, <2>1 DEF SocketInv, Due, Following, MpcInv, TypeInv, Steps
  <2> QED BY <1>1, <1>4, <2>1, <2>2 DEF SocketInv, StreamInv, Answered
<1>6. FlowInv'
  <2>1. HeaderDue(at)' = HeaderDue(at) /\ Receiving' = Receiving
    BY <1>1 DEF clientVars, setting, Due, Following, HeaderDue, SpecHeader, SharesHeader,
                SharesSize, Receiving
  <2> QED BY <1>1, <1>5, <2>1 DEF MpcInv, FlowInv, clientVars
<1> QED BY <1>2, <1>3, <1>6 DEF MpcInv

LEMMA RevealStep ==
  ASSUME MpcInv, NEW p \in Sockets, RevealToClient(p) PROVE MpcInv'
<1>1. /\ UNCHANGED <<setting, clientVars, up, faults>> /\ kind' = kind
      /\ program[p] = "computed"
      /\ program' = [program EXCEPT ![p] = "closed"]
      /\ down' = [down EXCEPT ![p] = down[p] \o Shares(p)]
  BY DEF RevealToClient, setting, MpcInv, TypeInv
<1>2. down[p] \in Seq(Header) /\ down'[p] \in Seq(Header)
  BY <1>1, SharesAre, ConcatProperties DEF MpcInv, TypeInv
<1>3. /\ program'[p] = "closed"
      /\ \A q \in Sockets \ {p} : program'[q] = program[q] /\ down'[q] = down[q]
  BY <1>1 DEF MpcInv, TypeInv
<1>4. TypeInv'
  <2>1. program' \in [Sockets -> Stages] /\ down' \in [Sockets -> Seq(Header)]
    BY <1>1, <1>2 DEF MpcInv, TypeInv, Stages
  <2> QED BY <1>1, <1>3, <2>1 DEF MpcInv, TypeInv, clientVars, setting
<1>5. KnownInv'
  BY <1>1, StayKnown DEF MpcInv, clientVars
<1>6. \A q \in Sockets : Reading(q)' = Reading(q)
  BY <1>1 DEF Reading, clientVars
<1>7. ASSUME pc # "failed"
      PROVE  /\ SocketInv(p) /\ Due(p) \in {"outputs", "done"}
             /\ Due(p) = "outputs" => down[p] = <<>> /\ ~Reading(p)
  <2>1. SocketInv(p)
    BY <1>7 DEF MpcInv, FlowInv
  <2> QED BY <1>1, <1>7, <2>1 DEF SocketInv, Answered, Due, Following, MpcInv, TypeInv, Steps
<1>8. ASSUME pc # "failed", Due(p)' = Due(p), HeaderDue(p)' = HeaderDue(p)
      PROVE  SocketInv(p)' /\ StreamInv(p)'
  <2>1. CASE Due(p) = "outputs"
    <3>1. down'[p] = Shares(p)
      BY <1>1, <1>2, <1>7, <1>8, <2>1, SharesAre, ConcatEmptySeq DEF MpcInv, TypeInv
    <3>2. HeaderDue(p) = SharesHeader(p)
      BY <2>1 DEF HeaderDue
    <3> QED BY <1>1, <1>3, <1>8, <2>1, <3>1, <3>2, SharesAre DEF SocketInv, StreamInv, MpcInv
  <2>2. CASE Due(p) = "done"
    BY <1>1, <1>3, <1>8, <2>2 DEF SocketInv, StreamInv
  <2> QED BY <1>7, <1>8, <2>1, <2>2
<1>9. ASSUME pc # "failed", message # None
      PROVE  Receiving /\ message = HeaderDue(at) /\ Len(down'[at]) <= missing
  <2>1. Receiving /\ message = HeaderDue(at) /\ Len(down[at]) <= missing /\ at \in Sockets
    BY <1>9 DEF MpcInv, FlowInv, TypeInv
  <2>2. Due(at) = pc
    BY <2>1, SocketsAre DEF Due, Sockets
  <2>3. at # p
    BY <1>7, <1>9, <2>1, <2>2 DEF Reading, Receiving
  <2> QED BY <1>3, <2>1, <2>3
<1>10. FlowInv'
  BY <1>1, <1>3, <1>6, <1>8, <1>9, StayFlow DEF MpcInv, clientVars
<1> QED BY <1>4, <1>5, <1>10 DEF MpcInv

LEMMA ProgramFailsStep ==
  ASSUME MpcInv, NEW p \in Sockets, ProgramFails(p) PROVE MpcInv'
<1>1. /\ UNCHANGED <<setting, clientVars>> /\ kind' = kind
      /\ program' = [program EXCEPT ![p] = "failed"]
      /\ up' = [up EXCEPT ![p] = <<>>]
  BY DEF ProgramFails, setting
<1>2. PICK k \in 0 .. Len(down[p]) : down' = [down EXCEPT ![p] = SubSeq(down[p], 1, k)]
  BY DEF ProgramFails, MpcInv, TypeInv
<1>3. /\ program'[p] = "failed" /\ up'[p] = <<>> /\ down[p] \in Seq(Header)
      /\ down'[p] = SubSeq(down[p], 1, k)
      /\ \A q \in Sockets \ {p} : program'[q] = program[q] /\ down'[q] = down[q] /\ up'[q] = up[q]
  BY <1>1, <1>2 DEF MpcInv, TypeInv
<1>4. /\ down'[p] \in Seq(Header) /\ Len(down'[p]) \in Nat /\ Len(down[p]) \in Nat
      /\ Len(down'[p]) <= Len(down[p])
      /\ down'[p] # <<>> => down[p] # <<>> /\ down'[p][1] = down[p][1]
  BY <1>3, InitialPart, LenProperties
<1>5. TypeInv'
  <2>1. /\ program' \in [Sockets -> Stages] /\ up' \in [Sockets -> Seq({"zero", "inputs"})]
        /\ down' \in [Sockets -> Seq(Header)]
    BY <1>1, <1>2, <1>3, <1>4, EmptySeq DEF MpcInv, TypeInv, Stages
  <2>2. Len(up'[p]) <= 1
    BY <1>3
  <2> QED BY <1>1, <1>3, <2>1, <2>2 DEF MpcInv, TypeInv, clientVars, setting
<1>6. KnownInv'
  BY <1>1, StayKnown DEF MpcInv, clientVars
<1>7. \A q \in Sockets : Reading(q)' = Reading(q)
  BY <1>1 DEF Reading, clientVars
<1>8. ASSUME pc # "failed", Due(p)' = Due(p), HeaderDue(p)' = HeaderDue(p)
      PROVE  SocketInv(p)' /\ StreamInv(p)'
  <2>1. SocketInv(p) /\ StreamInv(p)
    BY <1>8 DEF MpcInv, FlowInv
  <2>2. HeaderDue(p).size \in Nat
    BY SpecificationIs, SharesAre DEF HeaderDue, MpcInv
  <2>3. SocketInv(p)'
    BY <1>1, <1>3, <1>4, <1>7, <1>8, <2>1 DEF SocketInv, Quiet, Answered
  <2>4. StreamInv(p)'
    BY <1>3, <1>4, <1>7, <1>8, <2>1, <2>2 DEF StreamInv
  <2> QED BY <2>3, <2>4
<1>9. ASSUME pc # "failed", message # None
      PROVE  Receiving /\ message = HeaderDue(at) /\ Len(down'[at]) <= missing
  <2>1. /\ Receiving /\ message = HeaderDue(at) /\ Len(down[at]) <= missing
        /\ at \in Sockets /\ missing \in Nat
    BY <1>9 DEF MpcInv, FlowInv, TypeInv
  <2>2. CASE at = p
    BY <1>4, <2>1, <2>2
  <2>3. CASE at # p
    BY <1>3, <2>1, <2>3
  <2> QED BY <2>1, <2>2, <2>3
<1>10. FlowInv'
  BY <1>1, <1>3, <1>7, <1>8, <1>9, StayFlow DEF MpcInv, clientVars
<1> QED BY <1>5, <1>6, <1>10 DEF MpcInv

-----------------------------------------------------------------------------
(***************************************************************************)
(* Theorems.                                                               *)
(***************************************************************************)
LEMMA InitMpc == MpcInit => MpcInv
<1> SUFFICES ASSUME MpcInit PROVE MpcInv
  OBVIOUS
<1>1. TypeInv
  <2>1. <<>> \in Seq(Header) /\ <<>> \in Seq({"zero", "inputs"}) /\ Len(<<>>) = 0
    BY EmptySeq
  <2>2. wait_count \in 0 .. MaxWait /\ at \in Sockets
    BY SocketsAre, ClientAssumption DEF MpcInit
  <2>3. /\ program \in [Sockets -> Stages] /\ down \in [Sockets -> Seq(Header)]
        /\ up \in [Sockets -> Seq({"zero", "inputs"})]
        /\ \A p \in Sockets : up[p] = <<>> /\ down[p] = <<>>
    BY <2>1 DEF MpcInit, Stages
  <2>4. /\ kind \in {"share", "query"} /\ active \in BOOLEAN /\ deviation \in Deviations
        /\ pc = "connect" /\ message = None /\ missing = 0
        /\ checks = FALSE /\ wrong = FALSE /\ sent = FALSE
    BY DEF MpcInit
  <2>5. \A p \in Sockets : Len(up[p]) <= 1
    BY <2>1, <2>3
  <2>6. /\ pc \in Steps /\ message \in Header \cup {None} /\ missing \in 0 .. 3
        /\ message = None => missing = 0
    BY <2>4 DEF Steps
  <2>7. /\ checks \in BOOLEAN /\ wrong \in BOOLEAN /\ sent \in BOOLEAN
        /\ pc \in {"triples", "inputs"} \/ sent => kind = "share"
        /\ sent => pc \in {"inputs", "outputs", "done", "failed"}
    BY <2>4
  <2> QED BY <2>2, <2>3, <2>4, <2>5, <2>6, <2>7 DEF TypeInv
<1>2. \A p \in Sockets : Due(p) = "connect"
  BY DEF MpcInit, Due, Sockets
<1>3. FlowInv
  BY <1>2 DEF MpcInit, FlowInv, SocketInv, StreamInv, Quiet
<1>4. KnownInv
  BY <1>2 DEF MpcInit, KnownInv
<1> QED BY <1>1, <1>3, <1>4 DEF MpcInv

LEMMA StepMpc == MpcInv /\ [MpcNext]_mpcVars => MpcInv'
<1> SUFFICES ASSUME MpcInv, [MpcNext]_mpcVars PROVE MpcInv'
  OBVIOUS
<1>1. CASE ClientNext
  BY <1>1, ConnectStep, AttemptFailsStep, ReadHeaderStep, ReadHeaderFailsStep, ReadBodyStep,
     TimesOutStep, TakeSpecificationStep, TakeSharesStep, SendZeroStep, SendInputsStep,
     SendFailsStep DEF ClientNext
<1>2. CASE Compute
  BY <1>2, ComputeStep
<1>3. ASSUME NEW p \in Sockets, ProgramNext(p) \/ ProgramFails(p) PROVE MpcInv'
  BY <1>3, ListenStep, ReadPlaceholderStep, ReceiveInputsStep, RevealStep, ProgramFailsStep
     DEF ProgramNext
<1>4. CASE UNCHANGED mpcVars
  <2>1. TypeInv'
    BY <1>4 DEF MpcInv, TypeInv, mpcVars, setting, clientVars
  <2>2. KnownInv'
    BY <1>4, StayKnown DEF MpcInv, mpcVars, clientVars
  <2>3. \A q \in Sockets : Reading(q)' = Reading(q)
    BY <1>4 DEF Reading, mpcVars, clientVars
  <2>4. FlowInv'
    BY <1>4, <2>3, StayFlow, SocketsAre, OtherSockets
       DEF MpcInv, FlowInv, mpcVars, clientVars
  <2> QED BY <2>1, <2>2, <2>4 DEF MpcInv
<1> QED BY <1>1, <1>2, <1>3, <1>4 DEF MpcNext

LEMMA MpcAlways == MpcSpec => []MpcInv
BY InitMpc, StepMpc, PTL DEF MpcSpec

\* However messages are cut, delayed and lost, the client's variables have their
\* types: a body never has more units than it may, nothing is read behind a
\* message, and what a program has not read is one message at most.
THEOREM ClientTypeCorrect == MpcSpec => []ClientTypeOK
<1>1. MpcInv => ClientTypeOK
  BY DEF MpcInv, TypeInv, ClientTypeOK
<1> QED BY <1>1, MpcAlways, PTL

\* With any number of parties, at whichever of them the deviation is and whatever
\* fails beside: under a protocol for malicious parties the client sends no input
\* and gives out no result.  receive_triples compares every length with the
\* first and checks the sums; the constructor compares the specifications.
THEOREM DeviationsCorrect == MpcSpec => []DeviationsAreCaught
<1>1. MpcInv => DeviationsAreCaught
  BY DEF MpcInv, KnownInv, DeviationsAreCaught
<1> QED BY <1>1, MpcAlways, PTL

-----------------------------------------------------------------------------
(***************************************************************************)
(* What is opened.                                                         *)
(***************************************************************************)
OpenedInv == result # None => result \in IF kind = "share" THEN Commitments ELSE Answers

LEMMA OpenedAlways == MpcSpec => []OpenedInv
<1>1. MpcInit => OpenedInv
  BY DEF MpcInit, OpenedInv
<1>2. OpenedInv /\ [MpcNext]_mpcVars => OpenedInv'
  <2> SUFFICES ASSUME OpenedInv, [MpcNext]_mpcVars PROVE OpenedInv'
    OBVIOUS
  <2>1. CASE TakeShares
    <3>1. kind' = kind
      BY <2>1 DEF TakeShares, setting
    <3>2. CASE UNCHANGED result
      BY <3>1, <3>2 DEF OpenedInv, Commitments, Answers
    <3>3. CASE OpenResult
      BY <3>1, <3>3 DEF OpenResult, OpenedInv, Commitments, Answers
    <3> QED BY <2>1, <3>2, <3>3 DEF TakeShares
  <2>2. CASE UNCHANGED <<kind, result>>
    BY <2>2 DEF OpenedInv, Commitments, Answers
  <2>3. CASE ClientNext
    <3>1. TakeShares \/ UNCHANGED <<kind, result>>
      BY <2>3 DEF ClientNext, Connect, AttemptFails, ReadHeader, ReadHeaderFails, ReadBody,
                  TimesOut, TakeSpecification, SendZero, SendInputs, SendFails, setting
    <3> QED BY <3>1, <2>1, <2>2
  <2>4. CASE Compute \/ \E p \in Sockets : ProgramNext(p) \/ ProgramFails(p)
    <3>1. UNCHANGED <<kind, result>>
      BY <2>4 DEF Compute, ProgramNext, Listen, ReadPlaceholder, ReceiveInputs, RevealToClient,
                  ProgramFails, setting, clientVars
    <3> QED BY <3>1, <2>2
  <2>5. CASE UNCHANGED mpcVars
    <3>1. UNCHANGED <<kind, result>>
      BY <2>5 DEF mpcVars, setting, clientVars
    <3> QED BY <3>1, <2>2
  <2> QED BY <2>3, <2>4, <2>5 DEF MpcNext
<1> QED BY <1>1, <1>2, PTL DEF MpcSpec

\* What the ring has room for comes out of it as it was put in.
LEMMA RingKeeps ==
  ASSUME NEW x \in Nat, 2 * x < Modulus
  PROVE  ToInt(Domain(x)) = x
<1>1. x < Modulus /\ Modulus \in Nat
  BY EncodingsAssumption
<1>2. x % Modulus = x
  BY <1>1
<1> QED BY <1>2 DEF ToInt, Domain

\* The lower half of the ring has room for a weighted sum of as many values as
\* the arrays hold.
LEMMA RingIsLarge ==
  /\ Power(10, Digits) \in Nat /\ Power(10, Digits) > 0
  /\ Modulus > 20 * Power(10, Digits)
  /\ \A n \in 1 .. MAX_DATA_PROVIDERS : \A x \in Nat :
       x <= (n * n) * (10 * Power(10, Digits) - 1) => 2 * x < Modulus
<1> DEFINE M == MAX_DATA_PROVIDERS
           P == Power(10, Digits)
           m == M * M
<1>1. P \in Nat /\ P > 0
  <2>1. Digits \in Nat
    BY NumbersAssumption
  <2> QED BY <2>1, Tens
<1>2. M \in Nat /\ M > 0 /\ m \in Nat /\ m > 0
  <2>1. M \in Nat /\ M > 0
    BY ClientAssumption
  <2> HIDE DEF M
  <2> QED BY <2>1
<1>3. Modulus \in Nat /\ Modulus > 20 * P * m
  BY EncodingsAssumption, NumbersAssumption
<1> HIDE DEF P, m
<1> DEFINE c == 20 * P
<1>4. c \in Nat /\ Modulus > c * m
  BY <1>1, <1>3
<1>5. c * 1 <= c * m /\ c * m \in Nat
  <2> HIDE DEF c
  <2> QED BY <1>2, <1>4, TimesAtMost
<1>6. Modulus > c
  <2> HIDE DEF c
  <2> QED BY <1>3, <1>4, <1>5
<1>7. ASSUME NEW n \in 1 .. M, NEW x \in Nat, x <= (n * n) * (10 * P - 1)
      PROVE  2 * x < Modulus
  <2> DEFINE k == n * n
             V == 10 * P - 1
  <2>1. V \in Nat /\ 2 * V <= c
    BY <1>1
  <2>2. k \in Nat /\ k <= m
    <3>1. n \in Nat /\ n <= M
      BY <1>2
    <3>2. n * n <= n * M /\ n * M \in Nat
      BY <3>1, <1>2, TimesAtMost
    <3>3. M * n <= M * M /\ M * n = n * M
      BY <3>1, <1>2, TimesAtMost
    <3>4. n * n \in Nat /\ n * M \in Nat
      BY <3>1, <1>2
    <3> QED BY <3>2, <3>3, <3>4, <1>2 DEF m
  <2>3. x <= k * V
    BY <1>7
  <2> HIDE DEF k, V, c
  <2>4. V * k \in Nat /\ V * k <= V * m /\ V * m \in Nat
    BY <2>1, <2>2, <1>2, TimesAtMost
  <2>5. m * (2 * V) <= m * c
    BY <2>1, <1>2, <1>4, TimesAtMost
  <2>6. k * V = V * k /\ m * (2 * V) = 2 * (V * m) /\ m * c = c * m
    BY <2>1, <2>2, <1>2, <1>4
  <2> QED BY <2>3, <2>4, <2>5, <2>6, <1>3, <1>4, <1>5
<1> QED BY <1>1, <1>6, <1>7 DEF c, P

\* The commitment to a client's inputs is the notarised one with two exceptions.
LEMMA CommitmentIs ==
  ASSUME NEW i \in Inputs
  PROVE  Opened(Sent(i).nonce, Sent(i).value, Digits) = Notarised(i.nonce, i.cents, Digits)
           <=> /\ i.nonce[1] # 0 \/ hex_to_int(i.nonce) = 0
               /\ i.cents \notin Inexact
<1> DEFINE r == reverse_bytes(hex_to_int(i.nonce))
           v == Scaled(i.cents)
<1>1. /\ i.cents \in Nat /\ i.cents < Power(10, Digits) /\ i.nonce \in [1 .. Width -> Bytes]
      /\ Digits \in Nat /\ Digits > 0 /\ Modulus > 20 * Power(10, Digits)
  <2>1. i \in [cents : 0 .. Power(10, Digits) - 1, nonce : [1 .. Width -> Bytes]]
    BY NumbersAssumption
  <2> QED BY <2>1, RingIsLarge, NumbersAssumption
<1>2. /\ r \in Nat /\ 2 * r < Modulus
      /\ LittleEndian(r) = i.nonce <=> i.nonce[1] # 0 \/ hex_to_int(i.nonce) = 0
  BY <1>1, NonceArrives
<1>3. /\ v \in Nat /\ v < Power(10, Digits + 1)
      /\ Opened(r, v, Digits).text = Notarised(i.nonce, i.cents, Digits).text
           <=> i.cents \notin Inexact
  BY <1>1, TextArrives
<1>4. 2 * v < Modulus
  <2>1. Power(10, Digits) \in Nat /\ Power(10, Digits + 1) = 10 * Power(10, Digits)
    BY <1>1, Tens
  <2> HIDE DEF v
  <2> QED BY <2>1, <1>1, <1>3, EncodingsAssumption
<1>5. Sent(i).nonce = r /\ Sent(i).value = v
  <2>1. ToInt(Domain(r)) = r /\ ToInt(Domain(v)) = v
    <3> HIDE DEF r, v
    <3> QED BY <1>2, <1>3, <1>4, RingKeeps
  <2> QED BY <2>1 DEF Sent
<1> HIDE DEF r, v
<1>6. Opened(r, v, Digits) = Notarised(i.nonce, i.cents, Digits)
        <=> /\ LittleEndian(r) = i.nonce
            /\ Opened(r, v, Digits).text = Notarised(i.nonce, i.cents, Digits).text
  <2>1. /\ Opened(r, v, Digits) = [nonce |-> LittleEndian(r), text |-> Opened(r, v, Digits).text]
        /\ Notarised(i.nonce, i.cents, Digits)
             = [nonce |-> i.nonce, text |-> Notarised(i.nonce, i.cents, Digits).text]
    BY DEF Opened, Notarised
  <2> QED BY <2>1
<1> QED BY <1>2, <1>3, <1>5, <1>6

\* Every nonce and every amount that fits in the ring: the hash that the client
\* is sent is that of what TLSNotary has committed to exactly if the nonce does
\* not begin with a zero byte (or is zero) and the product of value and scale is
\* exact.  reverse_bytes drops leading zeros, int() truncates, and the digits
\* that share_data.mpc takes by division are those of the text.
THEOREM CommitmentsCorrect == MpcSpec => []CommitmentsMatchUnless
<1>1. OpenedInv => CommitmentsMatchUnless
  <2> SUFFICES ASSUME OpenedInv, kind = "share", result # None
               PROVE  Matches <=> /\ result.input.nonce[1] # 0 \/ hex_to_int(result.input.nonce) = 0
                                  /\ result.input.cents \notin Inexact
    BY DEF CommitmentsMatchUnless
  <2>1. PICK i \in Inputs :
          result = [input |-> i, opened |-> Opened(Sent(i).nonce, Sent(i).value, Digits)]
    BY DEF OpenedInv, Commitments
  <2>2. result.input = i /\ result.opened = Opened(Sent(i).nonce, Sent(i).value, Digits)
    BY <2>1
  <2> QED BY <2>2, CommitmentIs DEF Matches
<1> QED BY <1>1, OpenedAlways, PTL

\* What a client receives is what was opened.
LEMMA OutputsReceived ==
  ASSUME NEW n \in 1 .. MAX_DATA_PROVIDERS, NEW client_values, NEW coms,
         NEW values \in [1 .. n -> 0 .. 10 * Power(10, Digits) - 1],
         Holds(client_values, values, n),
         \A i \in 1 .. MAX_DATA_PROVIDERS : coms[i - 1] \in Nat /\ 2 * coms[i - 1] < Modulus,
         NEW opened, Figures(opened, client_values, n),
         FollowedBy(opened, coms, MAX_DATA_PROVIDERS),
         NEW outputs, outputs = receive_outputs(opened)
  PROVE  /\ Figures(outputs, client_values, n)
         /\ FollowedBy(outputs, coms, MAX_DATA_PROVIDERS)
<1> DEFINE M == MAX_DATA_PROVIDERS
           P == Power(10, Digits)
           V == 10 * P - 1
           k == n * n
<1>1. M \in Nat /\ M > 0 /\ n \in Nat /\ n > 0
  BY ClientAssumption
<1>2. V \in Nat /\ V > 0
  BY RingIsLarge
<1>3. n <= k /\ k \in Nat
  <2>1. n * 1 <= n * n
    BY <1>1, TimesAtMost
  <2> QED BY <2>1, <1>1
<1>4. ASSUME NEW x \in Nat, x <= k * V PROVE ToInt(Domain(x)) = x
  <2>1. 2 * x < Modulus
    BY <1>4, RingIsLarge
  <2> QED BY <2>1, RingKeeps
<1>5. /\ opened[1] = n
      /\ opened[2] \in Nat /\ opened[2] <= V
      /\ opened[3] \in Nat /\ opened[3] <= n * V
      /\ opened[5] \in Nat /\ opened[5] <= k * V
  <2> HIDE DEF V
  <2> QED BY <1>1, <1>2, FiguresAreBounded DEF V
<1> HIDE DEF V, k
<1>6. n <= k * V /\ V <= k * V /\ n * V <= k * V /\ n * V \in Nat /\ k * V \in Nat
  <2>1. V * n <= V * k
    BY <1>1, <1>2, <1>3, TimesAtMost
  <2>2. V * 1 <= V * n /\ n * 1 <= n * V
    BY <1>1, <1>2, TimesAtMost
  <2>3. V * n = n * V /\ V * k = k * V /\ n * V \in Nat /\ k * V \in Nat
    BY <1>1, <1>2, <1>3
  <2> QED BY <2>1, <2>2, <2>3, <1>1, <1>2
<1>7. DOMAIN opened = 1 .. 5 + M /\ \A i \in 1 .. M : opened[i + 5] = coms[i - 1]
  BY DEF FollowedBy
<1>8. DOMAIN outputs = 1 .. 5 + M /\ \A j \in 1 .. 5 + M : outputs[j] = ToInt(Domain(opened[j]))
  BY <1>7 DEF receive_outputs
<1>9. outputs[1] = opened[1] /\ outputs[2] = opened[2] /\ outputs[3] = opened[3] /\ outputs[5] = opened[5]
  <2>1. 1 \in 1 .. 5 + M /\ 2 \in 1 .. 5 + M /\ 3 \in 1 .. 5 + M /\ 5 \in 1 .. 5 + M
    BY <1>1
  <2>2. opened[2] <= k * V /\ opened[3] <= k * V
    BY <1>2, <1>5, <1>6
  <2> QED BY <2>1, <2>2, <1>1, <1>4, <1>5, <1>6, <1>8
<1>10. ASSUME NEW i \in 1 .. M PROVE outputs[i + 5] = coms[i - 1]
  <2>1. i + 5 \in 1 .. 5 + M
    BY <1>1
  <2>2. ToInt(Domain(coms[i - 1])) = coms[i - 1]
    BY RingKeeps
  <2> QED BY <2>1, <2>2, <1>7, <1>8
<1> QED BY <1>8, <1>9, <1>10 DEF Figures, FollowedBy

\* What is at the place of a provider in the file of commitments.
LEMMA HashNumber ==
  ASSUME NEW hash \in [1 .. Width -> Bytes]
  PROVE  hex_to_int(Reverse(hash)) \in Nat /\ 2 * hex_to_int(Reverse(hash)) < Modulus
<1> DEFINE b == Reverse(hash)
           v == hex_to_int(b)
<1>1. Width \in Nat /\ Modulus \in Nat /\ Modulus >= 2 * Power(Base, Width)
  BY EncodingsAssumption
<1>2. b \in Seq(Bytes) /\ Len(b) = Width
  BY <1>1, Turned
<1>3. v \in Nat /\ v < Power(Base, Width)
  <2> HIDE DEF b
  <2> QED BY <1>2, HexDigits
<1>4. Power(Base, Width) \in Nat
  BY <1>1, PowersOfBase
<1> HIDE DEF v
<1>5. 2 * v < Modulus
  BY <1>1, <1>3, <1>4
<1> QED BY <1>3, <1>5 DEF v

\* The outputs of a query over a file.
LEMMA AnswerIs ==
  ASSUME NEW file \in Files,
         NEW opened \in Outputs(ClientValues(file), CommitmentValues(file), Len(file.values)),
         NEW outputs, outputs = receive_outputs(opened)
  PROVE  /\ IF Total(file.values) # 0 THEN ResultsOf(StatsResults(outputs), file.values)
            ELSE StatsResults(outputs).gini_coefficient = [num |-> -1, den |-> 1]
         /\ \A i \in DOMAIN file.values :
              (i \in DOMAIN DataCommitments(outputs)
                 /\ DataCommitments(outputs)[i] = TextOf(file.hashes[i]))
                <=> ComesBack(file.hashes[i])
<1> DEFINE n == Len(file.values)
           values == file.values
           cv == ClientValues(file)
           coms == CommitmentValues(file)
           M == MAX_DATA_PROVIDERS
<1>1. /\ n \in Nat /\ n > 0 /\ n <= M /\ M \in Nat
      /\ values \in [1 .. n -> 0 .. 10 * Power(10, Digits) - 1]
      /\ DOMAIN values = 1 .. n
      /\ file.hashes \in [1 .. n -> [1 .. Width -> Bytes]]
      /\ file.rest[2] \in [1 .. Width -> Bytes]
  <2> DEFINE S == 0 .. 10 * Power(10, Digits) - 1
             H == [1 .. Width -> Bytes]
  <2>1. /\ values \in Seq(S) /\ n \in 1 .. M
        /\ file.hashes \in [1 .. n -> H] /\ file.rest[2] \in H
    BY NumbersAssumption
  <2> HIDE DEF S, H
  <2>2. values \in [1 .. n -> S] /\ DOMAIN values = 1 .. n
    BY <2>1
  <2> QED BY <2>1, <2>2, ClientAssumption DEF S, H
<1>2. Holds(cv, values, n)
  <2>1. \A i \in 1 .. n : i \in 0 .. M /\ i # 0 /\ i <= n
    BY <1>1
  <2>2. \A i \in 1 .. n : cv[i] = values[i]
    BY <2>1 DEF ClientValues
  <2>3. values \in [1 .. n -> Int]
    <3>1. 0 .. 10 * Power(10, Digits) - 1 \subseteq Int
      OBVIOUS
    <3> HIDE DEF values, n
    <3> QED BY <3>1, <1>1
  <2> QED BY <2>2, <2>3 DEF Holds
<1>3. ArrayOf(coms, M)
  BY DEF CommitmentValues, ArrayOf
<1>4. \A i \in 1 .. M :
        coms[i - 1] = hex_to_int(Reverse(IF i <= n THEN file.hashes[i] ELSE file.rest[2]))
  <2>1. \A i \in 1 .. M : i - 1 \in 0 .. M - 1 /\ (i - 1 < n <=> i <= n) /\ (i - 1) + 1 = i
    BY <1>1
  <2> QED BY <2>1 DEF CommitmentValues
<1>5. \A i \in 1 .. M : coms[i - 1] \in Nat /\ 2 * coms[i - 1] < Modulus
  <2> SUFFICES ASSUME NEW i \in 1 .. M PROVE coms[i - 1] \in Nat /\ 2 * coms[i - 1] < Modulus
    OBVIOUS
  <2> DEFINE hash == IF i <= n THEN file.hashes[i] ELSE file.rest[2]
  <2>1. hash \in [1 .. Width -> Bytes]
    BY <1>1
  <2>2. coms[i - 1] = hex_to_int(Reverse(hash))
    BY <1>4
  <2> HIDE DEF hash
  <2> QED BY <2>1, <2>2, HashNumber
<1>6. Figures(outputs, cv, n) /\ FollowedBy(outputs, coms, M)
  <2> HIDE DEF n, values, cv, coms
  <2>1. opened \in Outputs(cv, coms, n)
    BY DEF n, cv, coms
  <2>2. Figures(opened, cv, n) /\ FollowedBy(opened, coms, M)
    BY <2>1, <1>1, <1>3, OutputsAre
  <2>3. n \in 1 .. M
    BY <1>1
  <2> QED BY <2>2, <2>3, <1>1, <1>2, <1>5, OutputsReceived
<1>7. IF Total(values) # 0 THEN ResultsOf(StatsResults(outputs), values)
      ELSE StatsResults(outputs).gini_coefficient = [num |-> -1, den |-> 1]
  <2> HIDE DEF values, cv, n
  <2> QED BY <1>1, <1>2, <1>6, FiguresAreTrue
<1>8. ASSUME NEW i \in 1 .. n
      PROVE  (i \in DOMAIN DataCommitments(outputs)
                /\ DataCommitments(outputs)[i] = TextOf(file.hashes[i]))
               <=> ComesBack(file.hashes[i])
  <2> DEFINE hash == file.hashes[i]
             texts == [j \in 1 .. Len(outputs) - 5 |-> hex(reverse_bytes(outputs[j + 5]))]
  <2>1. hash \in [1 .. Width -> Bytes]
    BY <1>1
  <2>2. i \in 1 .. M /\ i <= n
    BY <1>1
  <2>3. Len(outputs) = 5 + M
    <3>1. DOMAIN outputs = 1 .. 5 + M
      BY <1>6 DEF FollowedBy
    <3>2. outputs = [j \in 1 .. 5 + M |-> outputs[j]]
      BY <3>1 DEF receive_outputs
    <3> DEFINE S == {outputs[j] : j \in 1 .. 5 + M}
    <3>3. outputs \in [1 .. 5 + M -> S]
      BY <3>2
    <3>4. 5 + M \in Nat
      BY <1>1
    <3> HIDE DEF S
    <3> QED BY <3>3, <3>4, SeqOfLength
  <2>4. outputs[i + 5] = hex_to_int(Reverse(hash))
    BY <2>2, <1>4, <1>6 DEF FollowedBy
  <2>5. DOMAIN texts = 1 .. M /\ texts[i] = hex(reverse_bytes(hex_to_int(Reverse(hash))))
    BY <2>2, <2>3, <2>4, <1>1
  <2>6. DataCommitments(outputs)
          = [j \in {k \in DOMAIN texts : texts[k] # EMPTY_COMMITMENT} |-> texts[j]]
    BY DEF DataCommitments
  <2> HIDE DEF hash, texts
  <2>7. (texts[i] # EMPTY_COMMITMENT /\ texts[i] = TextOf(hash)) <=> ComesBack(hash)
    BY <2>1, <2>5, TextComesBack DEF ComesBack
  <2>8. i \in DOMAIN DataCommitments(outputs) <=> texts[i] # EMPTY_COMMITMENT
    BY <2>2, <2>5, <2>6
  <2>9. texts[i] # EMPTY_COMMITMENT => DataCommitments(outputs)[i] = texts[i]
    BY <2>2, <2>5, <2>6
  <2> QED BY <2>7, <2>8, <2>9 DEF hash
<1> QED BY <1>1, <1>7, <1>8

\* For every number of values, in whatever order they were shared, and whatever
\* the rest of the arrays holds, if the ring has room for the area: the program's
\* maximum, sum and area are such that the client's mean and Gini coefficient are
\* those of the values.  A provider's index leads to the text of its hash if and
\* only if that neither begins with a zero digit nor ends with a zero byte.
THEOREM StatisticsCorrect == MpcSpec => []ResultsAreTrue
<1>1. TypeInv /\ OpenedInv => ResultsAreTrue
  <2> SUFFICES ASSUME OpenedInv, kind = "query", result # None
               PROVE  ResultsAreTrue
    BY DEF ResultsAreTrue
  <2>1. PICK file \in Files :
          result \in {[file |-> file, outputs |-> receive_outputs(o)] :
                        o \in Outputs(ClientValues(file), CommitmentValues(file), Len(file.values))}
    BY DEF OpenedInv, Answers
  <2>2. PICK o \in Outputs(ClientValues(file), CommitmentValues(file), Len(file.values)) :
          result = [file |-> file, outputs |-> receive_outputs(o)]
    BY <2>1
  <2>3. result.file = file /\ result.outputs = receive_outputs(o)
    BY <2>2
  <2> QED BY <2>3, AnswerIs DEF ResultsAreTrue
<1>2. MpcInv => TypeInv
  BY DEF MpcInv
<1> QED BY <1>1, <1>2, MpcAlways, OpenedAlways, PTL

=============================================================================
