---------------------------- MODULE CacheProofs ----------------------------
(***************************************************************************)
(* Proofs about ConsumerCache for any browsers, time to live and bounds.   *)
(***************************************************************************)
EXTENDS ConsumerCache, TLAPS

\* The flag is set where a first result is at hand, and nobody empties the
\* cache: a query that has computed holds its result until it is stored, and
\* tasks exist only behind the flag.
CacheInv ==
  /\ started => cache # None
  /\ task # {} => started
  /\ \A b \in Browsers : updater[b] = "computed" => result[b] # None
  /\ NeverUninitialised

IInv == CacheTypeOK /\ CacheInv

LEMMA StoreKeeps ==
  ASSUME IInv, NEW b \in Browsers, StoreResult(b)
  PROVE  /\ cache' \in 0 .. MaxShares /\ cache' # None /\ cache' = result[b]
         /\ age' = 0
         /\ result' \in [Browsers -> 0 .. MaxShares \cup {None}]
         /\ \A c \in Browsers : c # b => result'[c] = result[c]
BY CacheAssumption DEF StoreResult, IInv, CacheTypeOK, CacheInv

\* A response is none that was never meant.
LEMMA Responses ==
  ASSUME NEW n \in 0 .. MaxShares, NEW t \in 0 .. Ttl + 1
  PROVE  /\ OK(n, t) \in Answer /\ OK(n, t) # Error(503)
         /\ Error(500) \in Answer /\ Error(500) # Error(503)
         /\ Error(503) \in Answer
BY DEF OK, Error, Answer

LEMMA AnswerKeeps ==
  ASSUME IInv, NEW b \in Browsers, NEW r \in Answer, r # Error(503), SetAnswer(b, r)
  PROVE  answer' \in [Browsers -> Answer \cup {None}] /\ NeverUninitialised'
BY DEF SetAnswer, IInv, CacheTypeOK, CacheInv, NeverUninitialised

LEMMA InitCache == CacheInit => IInv
<1> SUFFICES ASSUME CacheInit PROVE IInv
  OBVIOUS
<1>1. None # Error(503) /\ 0 \in 0 .. Ttl /\ 0 \in 0 .. Ttl + 1
  <2>1. 0 \in 0 .. MaxShares /\ 0 \in 0 .. Ttl /\ 0 \in 0 .. Ttl + 1
    BY CacheAssumption
  <2>2. None \notin Answer
    BY CacheAssumption
  <2>3. Error(503) \in Answer
    BY <2>1, Responses
  <2> QED BY <2>1, <2>2, <2>3
<1>2. /\ started = FALSE /\ cache = None /\ age = 0 /\ task = {} /\ recorded = 1 /\ failures = 0
      /\ \A b \in Browsers : updater[b] = "none" /\ answer[b] = None
  BY DEF CacheInit
<1>3. CacheTypeOK
  <2>1. started \in BOOLEAN /\ cache = None /\ age \in 0 .. Ttl + 1 /\ task \subseteq Browsers
    BY <1>1, <1>2
  <2>2. recorded \in 0 .. MaxShares /\ failures \in 0 .. MaxFailures
    BY <1>2, CacheAssumption
  <2>3. /\ updater \in [Browsers -> {"none", "querying", "computed", "asleep", "hung"}]
        /\ slept \in [Browsers -> 0 .. Ttl]
    BY <1>1 DEF CacheInit
  <2>4. /\ result \in [Browsers -> 0 .. MaxShares \cup {None}]
        /\ answer \in [Browsers -> Answer \cup {None}]
    BY DEF CacheInit
  <2> QED BY <2>1, <2>2, <2>3, <2>4 DEF CacheTypeOK
<1>4. CacheInv
  BY <1>1, <1>2 DEF CacheInv, NeverUninitialised
<1> QED BY <1>3, <1>4 DEF IInv

LEMMA UpdateKeepsInv ==
  ASSUME IInv, NEW b \in Browsers, UpdateStep(b)
  PROVE  IInv'
<1> USE DEF IInv
<1>1. CASE QueryComputes(b)
  BY <1>1, CacheAssumption
     DEF QueryComputes, SetUpdater, CacheTypeOK, CacheInv, NeverUninitialised
<1>2. CASE FirstUpdateEnds(b)
  <2>1. answer' \in [Browsers -> Answer \cup {None}] /\ NeverUninitialised'
    <3>1. result[b] \in 0 .. MaxShares /\ SetAnswer(b, OK(result[b], 0)) /\ 0 \in 0 .. Ttl + 1
      BY <1>2, StoreKeeps, CacheAssumption DEF FirstUpdateEnds
    <3> QED BY <3>1, Responses, AnswerKeeps
  <2>2. CacheTypeOK'
    <3>1. /\ updater' \in [Browsers -> {"none", "querying", "computed", "asleep", "hung"}]
          /\ started' = TRUE /\ task' \subseteq Browsers
          /\ UNCHANGED <<slept, recorded, failures>>
      BY <1>2 DEF FirstUpdateEnds, StoreResult, SetUpdater, CacheTypeOK
    <3>2. /\ cache' \in 0 .. MaxShares \cup {None} /\ age' \in 0 .. Ttl + 1
          /\ result' \in [Browsers -> 0 .. MaxShares \cup {None}]
      BY <1>2, StoreKeeps, CacheAssumption DEF FirstUpdateEnds
    <3> QED BY <2>1, <3>1, <3>2 DEF CacheTypeOK
  <2> QED BY <1>2, <2>1, <2>2, StoreKeeps DEF FirstUpdateEnds, SetUpdater, CacheTypeOK, CacheInv
<1>3. CASE TaskUpdateEnds(b)
  <2>1. CacheTypeOK'
    BY <1>3, StoreKeeps, CacheAssumption
       DEF TaskUpdateEnds, StoreResult, SetUpdater, CacheTypeOK
  <2> QED BY <1>3, <2>1, StoreKeeps
          DEF TaskUpdateEnds, SetUpdater, CacheTypeOK, CacheInv, NeverUninitialised
<1>4. CASE FirstUpdateFails(b)
  <2>1. answer' \in [Browsers -> Answer \cup {None}] /\ NeverUninitialised'
    <3>1. SetAnswer(b, Error(500)) /\ 0 \in 0 .. MaxShares /\ 0 \in 0 .. Ttl + 1
      BY <1>4, CacheAssumption DEF FirstUpdateFails
    <3> QED BY <3>1, Responses, AnswerKeeps
  <2>2. CacheTypeOK'
    <3>1. /\ updater' \in [Browsers -> {"none", "querying", "computed", "asleep", "hung"}]
          /\ result' \in [Browsers -> 0 .. MaxShares \cup {None}]
          /\ UNCHANGED <<started, cache, age, task, slept, recorded>>
      BY <1>4 DEF FirstUpdateFails, QueryFails, SetUpdater, CacheTypeOK
    <3>2. failures' \in 0 .. MaxFailures
      BY <1>4, CacheAssumption DEF FirstUpdateFails, QueryFails, CacheTypeOK
    <3> QED BY <2>1, <3>1, <3>2 DEF CacheTypeOK
  <2> QED BY <1>4, <2>1, <2>2 DEF FirstUpdateFails, QueryFails, SetUpdater, CacheTypeOK, CacheInv
<1>5. CASE TaskUpdateFails(b)
  BY <1>5, CacheAssumption
     DEF TaskUpdateFails, QueryFails, SetUpdater, CacheTypeOK, CacheInv, NeverUninitialised
<1>6. CASE Wake(b)
  BY <1>6, CacheAssumption DEF Wake, SetUpdater, CacheTypeOK, CacheInv, NeverUninitialised
<1> QED BY <1>1, <1>2, <1>3, <1>4, <1>5, <1>6 DEF UpdateStep

LEMMA StepKeepsInv ==
  ASSUME IInv, [CacheNext]_cacheVars
  PROVE  IInv'
<1> USE DEF IInv
<1>1. ASSUME NEW b \in Browsers, GetFirst(b) PROVE IInv'
  BY <1>1 DEF GetFirst, SetUpdater, CacheTypeOK, CacheInv, NeverUninitialised
<1>2. ASSUME NEW b \in Browsers, GetCached(b) PROVE IInv'
  <2>1. cache \in 0 .. MaxShares /\ age \in 0 .. Ttl + 1 /\ SetAnswer(b, OK(cache, age))
    BY <1>2 DEF GetCached, Cached, CacheTypeOK, CacheInv
  <2>2. answer' \in [Browsers -> Answer \cup {None}] /\ NeverUninitialised'
    BY <2>1, Responses, AnswerKeeps
  <2> QED BY <1>2, <2>2 DEF GetCached, updates, CacheTypeOK, CacheInv
<1>3. CASE Share
  BY <1>3, CacheAssumption DEF Share, updates, CacheTypeOK, CacheInv, NeverUninitialised
<1>4. CASE Tick
  <2>1. age' \in 0 .. Ttl + 1
    BY <1>4, CacheAssumption DEF Tick, CacheTypeOK
  <2>2. slept' \in [Browsers -> 0 .. Ttl]
    BY <1>4, CacheAssumption DEF Tick, CacheTypeOK
  <2> QED BY <1>4, <2>1, <2>2 DEF Tick, CacheTypeOK, CacheInv, NeverUninitialised
<1>5. CASE UNCHANGED cacheVars
  BY <1>5 DEF cacheVars, updates, CacheTypeOK, CacheInv, NeverUninitialised
<1>6. ASSUME NEW b \in Browsers, QueryHangs(b) PROVE IInv'
  BY <1>6 DEF QueryHangs, SetUpdater, CacheTypeOK, CacheInv, NeverUninitialised
<1> QED BY <1>1, <1>2, <1>3, <1>4, <1>5, <1>6, UpdateKeepsInv DEF CacheNext

LEMMA Always == CacheSpec => []IInv
BY InitCache, StepKeepsInv, PTL DEF CacheSpec

\* The variables have the values they are meant to have, so that the responses
\* are results, an exception or 503.
THEOREM CacheTypeCorrect == CacheSpec => []CacheTypeOK
<1>1. IInv => CacheTypeOK
  BY DEF IInv
<1> QED BY <1>1, Always, PTL

\* Nobody is told that the cache is empty, however many GETs come before the
\* first update has ended and whichever of their updates fail.
THEOREM NeverUninitialisedCorrect == CacheSpec => []NeverUninitialised
<1>1. IInv => NeverUninitialised
  BY DEF IInv, CacheInv
<1> QED BY <1>1, Always, PTL
=============================================================================
