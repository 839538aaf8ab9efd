---------------------------- MODULE ConsumerCache ----------------------------
(***************************************************************************)
(* The data consumer API (data_consumer_api/routes.py): a web server whose *)
(* GET answers with cached statistics.  The first request runs a query     *)
(* itself and then creates a background task that repeats it.  All of it   *)
(* is one event loop, but every query awaits the queue, the coordination   *)
(* server and the parties.                                                 *)
(*                                                                         *)
(* Statistics are named by the number of shares they were computed over.   *)
(***************************************************************************)
EXTENDS Naturals, FiniteSets

CONSTANTS Browsers,   \* who send GETs, each one at a time
          Ttl,        \* settings.cache_ttl_seconds
          None,
          MaxShares,  \* bound: data providers
          MaxFailures \* bound: queries that raise an exception

VARIABLES
  started,   \* _background_task_started
  cache,     \* _computation_cache
  age,       \* time since _last_cache_update, up to Ttl + 1
  updater,   \* browser -> how far update_cache is that its GET has started
  task,      \* browsers whose GET has created a background task
  slept,     \* browser -> how long that task has slept
  result,    \* browser -> the results its query has returned
  answer,    \* browser -> the last response to it
  recorded,  \* how many shares there are
  failures

updates == <<updater, task, slept, result>>
cacheVars == <<started, cache, age, updates, answer, recorded, failures>>

OK(statistics, time) == [status |-> 200, statistics |-> statistics, age |-> time]
Error(code) == [status |-> code, statistics |-> None, age |-> 0]

Answer == [status : {200}, statistics : 0 .. MaxShares, age : 0 .. Ttl + 1]
            \cup {Error(500), Error(503)}

ASSUME CacheAssumption == /\ Ttl \in Nat /\ MaxFailures \in Nat
                          /\ MaxShares \in Nat \ {0}
                          /\ None \notin Nat \cup Answer

CacheTypeOK ==
  /\ started \in BOOLEAN
  /\ cache \in 0 .. MaxShares \cup {None}
  /\ age \in 0 .. Ttl + 1
  /\ updater \in [Browsers -> {"none", "querying", "computed", "asleep", "hung"}]
  /\ task \subseteq Browsers
  /\ slept \in [Browsers -> 0 .. Ttl]
  /\ result \in [Browsers -> 0 .. MaxShares \cup {None}]
  /\ answer \in [Browsers -> Answer \cup {None}]
  /\ recorded \in 0 .. MaxShares /\ failures \in 0 .. MaxFailures

-----------------------------------------------------------------------------
SetUpdater(b, stage) == updater' = [updater EXCEPT ![b] = stage]
SetAnswer(b, response) == answer' = [answer EXCEPT ![b] = response]
Cached == IF cache = None THEN Error(503) ELSE OK(cache, age)

\* Whoever comes after the first answer gets what the cache holds.
GetCached(b) ==
  /\ started /\ (updater[b] = "none" \/ b \in task)
  /\ SetAnswer(b, Cached)
  /\ UNCHANGED <<started, cache, age, updates, recorded, failures>>

\* Mutant: the flag is set before update_cache is awaited.
GetFirstStarting(b) ==
  /\ ~started /\ updater[b] = "none"
  /\ started' = TRUE
  /\ SetUpdater(b, "querying")
  /\ UNCHANGED <<cache, age, task, slept, result, answer, recorded, failures>>

\* The flag is read and update_cache awaited.
GetFirst(b) ==
  /\ ~started /\ updater[b] = "none"
  /\ SetUpdater(b, "querying")
  /\ UNCHANGED <<started, cache, age, task, slept, result, answer, recorded, failures>>

\* The computation of the query.  The client still has to mark it as finished
\* before it returns.
QueryComputes(b) ==
  /\ updater[b] = "querying"
  /\ SetUpdater(b, "computed")
  /\ result' = [result EXCEPT ![b] = recorded]
  /\ UNCHANGED <<started, cache, age, task, slept, answer, recorded, failures>>

\* The query never returns.  A priority user whom the queue has refused, evicted
\* or, with a restart, forgotten is told to go on polling, for good, and a client
\* whose connection is closed within a body spins in its thread.
QueryHangs(b) ==
  /\ updater[b] = "querying"
  /\ SetUpdater(b, "hung")
  /\ UNCHANGED <<started, cache, age, task, slept, result, answer, recorded, failures>>

\* Mutant: the results are taken while the query still runs.
StoreResultEarly(b) == /\ updater[b] \in {"querying", "computed"}
                       /\ cache' = result[b] /\ age' = 0
                       /\ result' = [result EXCEPT ![b] = None]
                       /\ UNCHANGED <<recorded, failures>>

\* The results go into the cache.
StoreResult(b) == /\ updater[b] = "computed"
                  /\ cache' = result[b] /\ age' = 0
                  /\ result' = [result EXCEPT ![b] = None]
                  /\ UNCHANGED <<recorded, failures>>

\* The GET goes on behind update_cache: it creates the task, whose loop begins
\* with a query of its own, and answers.
FirstUpdateEnds(b) ==
  /\ b \notin task
  /\ StoreResult(b)
  /\ started' = TRUE
  /\ task' = task \cup {b}
  /\ SetUpdater(b, "querying")
  /\ SetAnswer(b, OK(result[b], 0))
  /\ UNCHANGED slept

TaskUpdateEnds(b) ==
  /\ b \in task
  /\ StoreResult(b)
  /\ SetUpdater(b, "asleep") /\ slept' = [slept EXCEPT ![b] = 0]
  /\ UNCHANGED <<started, task, answer>>

QueryFails(b) == /\ updater[b] \in {"querying", "computed"}
                 /\ failures < MaxFailures /\ failures' = failures + 1
                 /\ result' = [result EXCEPT ![b] = None]
                 /\ UNCHANGED <<started, cache, age, task, recorded>>

\* The exception leaves the GET, and the next one is again the first.
FirstUpdateFails(b) == /\ b \notin task
                       /\ QueryFails(b)
                       /\ SetUpdater(b, "none") /\ SetAnswer(b, Error(500))
                       /\ UNCHANGED slept

\* Mutant: the exception ends the task.
TaskUpdateFailsForGood(b) == /\ b \in task
                             /\ QueryFails(b)
                             /\ SetUpdater(b, "none")
                             /\ UNCHANGED <<slept, answer>>

\* The task logs it, and sleeps as after a success.
TaskUpdateFails(b) == /\ b \in task
                      /\ QueryFails(b)
                      /\ SetUpdater(b, "asleep") /\ slept' = [slept EXCEPT ![b] = 0]
                      /\ UNCHANGED answer

\* The task wakes up and queries again.
Wake(b) == /\ updater[b] = "asleep" /\ slept[b] = Ttl
           /\ SetUpdater(b, "querying") /\ slept' = [slept EXCEPT ![b] = 0]
           /\ UNCHANGED <<started, cache, age, task, result, answer, recorded, failures>>

Share == /\ recorded < MaxShares /\ recorded' = recorded + 1
         /\ UNCHANGED <<started, cache, age, updates, answer, failures>>

\* Time passes while no task is late to wake.
Tick == /\ \A b \in Browsers : updater[b] = "asleep" => slept[b] < Ttl
        /\ age' = IF cache = None THEN age ELSE IF age > Ttl THEN age ELSE age + 1
        /\ slept' = [b \in Browsers |-> IF updater[b] = "asleep" THEN slept[b] + 1 ELSE slept[b]]
        /\ UNCHANGED <<started, cache, updater, task, result, answer, recorded, failures>>

-----------------------------------------------------------------------------
CacheInit == /\ started = FALSE /\ cache = None /\ age = 0
             /\ updater = [b \in Browsers |-> "none"]
             /\ task = {}
             /\ slept = [b \in Browsers |-> 0]
             /\ result = [b \in Browsers |-> None]
             /\ answer = [b \in Browsers |-> None]
             /\ recorded = 1 /\ failures = 0

UpdateStep(b) == \/ QueryComputes(b) \/ FirstUpdateEnds(b) \/ TaskUpdateEnds(b)
                 \/ FirstUpdateFails(b) \/ TaskUpdateFails(b) \/ Wake(b)

CacheNext == \/ \E b \in Browsers : GetFirst(b) \/ GetCached(b) \/ QueryHangs(b) \/ UpdateStep(b)
             \/ Share
             \/ Tick

\* The event loop runs and time passes.  No browser need ever send a GET, and no
\* query need fail; one that does not hang returns or raises.
CacheSpec == /\ CacheInit /\ [][CacheNext]_cacheVars
             /\ \A b \in Browsers : WF_cacheVars(UpdateStep(b))
             /\ WF_cacheVars(Tick)

-----------------------------------------------------------------------------
(***************************************************************************)
(* Properties.                                                             *)
(***************************************************************************)

\* Nobody is answered 503: whoever does not wait for an update of its own finds
\* a cache, although the flag is read long before it is set.
NeverUninitialised == \A b \in Browsers : answer[b] # Error(503)

\* If there is a task whose queries do not hang, the cache comes to hold the
\* statistics over all shares and keeps them, whichever other queries hang,
\* whichever updates failed and in whatever order those of several tasks end.
EventuallyFresh ==
  ([]<>\E b \in task : updater[b] # "hung") => <>[](cache = recorded)
=============================================================================
