---------------------------- MODULE AppLifecycle ----------------------------
(***************************************************************************)
(* The life of the API process: LoadEnv checks the configuration, NewApp   *)
(* opens the database and starts the extraction worker, handlers serve     *)
(* requests, and Shutdown takes it all down again while handlers, worker   *)
(* and downloads are still at it (nothing stops the HTTP server).          *)
(*                                                                         *)
(* The caller is cmd/api, which passes a context that is never cancelled   *)
(* and never calls Shutdown, or an embedder such as the tests, which may   *)
(* do both, in either order and from several goroutines.  What worker and  *)
(* handlers do to the tables is in ExtractionPipeline and its siblings:    *)
(* here a database call is only one that needs an open handle.             *)
(***************************************************************************)
EXTENDS Naturals, Sequences, FiniteSets

CONSTANTS
    Handlers,   \* request goroutines
    Stoppers,   \* goroutines that call Shutdown
    Downloads,  \* PDF download jobs that can run at once
    Odd,        \* configurations to load, besides the default one
    Own         \* configurations that embedders make themselves

VARIABLES
    env,        \* the configuration
    caller,     \* who runs the process, and whether its Shutdown calls have a deadline
    boot,       \* where LoadEnv and NewApp are
    db,         \* the database handle
    cancelled,  \* the context passed to NewApp
    signals,    \* wake signals of the worker in the channel
    worker,     \* the extraction worker's goroutine
    handler,    \* what each handler is doing
    running,    \* download jobs in progress
    once,       \* the registry's shutdownOnce: free, taken, or how the wait ended
    draining,   \* history: the downloads that ran when the registry's shutdown began
    stop        \* where each call of Shutdown is

vars == <<env, caller, boot, db, cancelled, signals, worker, handler, running, once, draining, stop>>

-----------------------------------------------------------------------------
(* Configuration.                                                          *)

\* The settings that LoadEnv looks at and the one it does not, ttl.  Counts, sizes and
\* durations are numbers (0 for what does not parse), a path is named for what is there.
Env == [sqlitePath : {"set", "empty"}, categories : Nat, maxResults : Nat, maxWords : Nat,
        signalBuffer : Nat, jobExpiry : Nat, mineruPath : {"set", "empty"}, mineruTimeout : Nat,
        pdfRoot : {"dir", "absent", "blank", "file"}, retention : Nat, subscriberBuffer : Nat,
        provider : {"fake", "anthropic", "other"}, secret : Nat, ttl : Nat]

\* The defaults, with the categories, the result cap and the secret an operator adds.
Default == [sqlitePath |-> "set", categories |-> 1, maxResults |-> 100, maxWords |-> 50000,
            signalBuffer |-> 10, jobExpiry |-> 3600, mineruPath |-> "set", mineruTimeout |-> 600,
            pdfRoot |-> "absent", retention |-> 300, subscriberBuffer |-> 32,
            provider |-> "fake", secret |-> 32, ttl |-> 86400]

AuthSecretMinBytes == 32

Positive(n) == n > 0

Wired(provider) == provider = "fake"

UsableRoot(root) == root \in {"dir", "absent"}

\* Every check of LoadEnv; the first that fails names its variable.
Accepted(e) ==
    /\ e.sqlitePath # "empty"
    /\ Positive(e.categories)
    /\ Positive(e.maxResults) /\ e.maxResults <= 30000
    /\ Positive(e.maxWords) /\ Positive(e.signalBuffer) /\ Positive(e.jobExpiry)
    /\ e.mineruPath # "empty" /\ Positive(e.mineruTimeout)
    /\ UsableRoot(e.pdfRoot)
    /\ Positive(e.retention) /\ Positive(e.subscriberBuffer)
    /\ Wired(e.provider)
    /\ e.secret >= AuthSecretMinBytes

\* What nobody checks: an embedder's Env must have a provider and a wake channel that
\* buffers, or NewApp gives up with its worker running, or signals are lost.
ASSUME OwnIsUsable ==
    Own \subseteq Env /\ \A e \in Own : Wired(e.provider) /\ Positive(e.signalBuffer)
ASSUME OddAreEnvs == Odd \subseteq Env

-----------------------------------------------------------------------------
(* The process.                                                            *)

\* The steps of NewApp that may fail, in order; Start and the provider's switch follow.
Fallible == <<"open", "migrate", "store", "recover", "list">>
BootPcs == {"load", "start", "provider", "up", "failed", "exited"}
             \cup {Fallible[i] : i \in DOMAIN Fallible}

WorkerPcs == {"none", "waiting", "drain", "query", "extract", "mark", "exited"}
StopPcs == {"idle", "worker", "registry", "drain", "close", "returned"}

TypeOK ==
    /\ env \in Env
    /\ caller \in [who : {"main", "embedder"}, deadline : BOOLEAN]
    /\ boot \in BootPcs
    /\ db \in {"none", "open", "closed"}
    /\ cancelled \in BOOLEAN
    /\ signals \in 0..env.signalBuffer
    /\ worker \in WorkerPcs
    /\ handler \in [Handlers -> {"idle", "busy"}]
    /\ running \in SUBSET Downloads /\ draining \in SUBSET Downloads
    /\ once \in {"free", "taken", "drained", "timedout"}
    /\ stop \in [Stoppers -> StopPcs]

Init ==
    /\ env \in Odd \cup Own \cup {Default}
    /\ caller \in [who : {"main", "embedder"}, deadline : BOOLEAN]
    /\ boot = "load" /\ db = "none"
    /\ cancelled = FALSE
    /\ signals = 0
    /\ worker = "none"
    /\ handler = [h \in Handlers |-> "idle"]
    /\ running = {} /\ draining = {}
    /\ once = "free"
    /\ stop = [s \in Stoppers |-> "idle"]

Setting == <<env, caller>>
Serving == <<handler, running>>
Stopping == <<once, draining, stop>>

\* log.Fatalf, or a signal: nothing of the process is left.
Exits ==
    /\ boot' = "exited" /\ db' = "none"
    /\ worker' = "none" /\ signals' = 0
    /\ handler' = [h \in Handlers |-> "idle"]
    /\ running' = {}
    /\ UNCHANGED <<cancelled, Stopping>>

\* An error of LoadEnv or NewApp: main ends the process, an embedder has no App.
Abandon ==
    \/ caller.who = "main" /\ Exits
    \/ /\ caller.who = "embedder" /\ boot' = "failed"
       /\ UNCHANGED <<db, cancelled, signals, worker, Serving, Stopping>>

LoadEnv ==
    /\ boot = "load"
    /\ IF Accepted(env)
       THEN boot' = "open" /\ UNCHANGED <<db, cancelled, signals, worker, Serving, Stopping>>
       ELSE Abandon
    /\ UNCHANGED Setting

\* An embedder may pass an Env that nothing has checked.
EnvGiven ==
    /\ boot = "load" /\ caller.who = "embedder" /\ env \in Own
    /\ boot' = "open"
    /\ UNCHANGED <<db, cancelled, signals, worker, Serving, Stopping, Setting>>

Following(i) == IF i < Len(Fallible) THEN Fallible[i + 1] ELSE "start"

\* Mutant: a full channel takes one more signal.
BufferedUnbounded(n) == n

\* A full channel drops the signal.
Buffered(n) == IF n <= env.signalBuffer THEN n ELSE env.signalBuffer

\* Migration, the PDF store's probe of its root, recovery and the scan for pending rows
\* leave the process as it is, but for the signals of the rows that are pending.
BootStep(i) ==
    /\ boot = Fallible[i]
    /\ boot = "open" => env.sqlitePath # "empty"
    /\ boot = "store" => UsableRoot(env.pdfRoot)
    /\ boot' = Following(i)
    /\ db' = "open"
    /\ \E pending \in 0 .. env.signalBuffer + 1 :
          signals' = IF boot = "list" THEN Buffered(signals + pending) ELSE signals
    /\ UNCHANGED <<cancelled, worker, Serving, Stopping, Setting>>

\* The error returns of NewApp do not close the handle they leave behind.
BootStepFails(i) == boot = Fallible[i] /\ Abandon /\ UNCHANGED Setting

StartWorker ==
    /\ boot = "start"
    /\ boot' = "provider" /\ worker' = "waiting"
    /\ UNCHANGED <<db, cancelled, signals, Serving, Stopping, Setting>>

\* The default arm of the switch gives up after the worker was started.
SelectProvider ==
    /\ boot = "provider"
    /\ IF env.provider = "fake"
       THEN boot' = "up" /\ UNCHANGED <<db, cancelled, signals, worker, Serving, Stopping>>
       ELSE Abandon
    /\ UNCHANGED Setting

\* The listener fails, or the process is told to stop: main has no handler for either.
RunEnds == caller.who = "main" /\ boot = "up" /\ Exits /\ UNCHANGED Setting

Boot == LoadEnv \/ EnvGiven \/ (\E i \in DOMAIN Fallible : BootStep(i) \/ BootStepFails(i))
     \/ StartWorker \/ SelectProvider

-----------------------------------------------------------------------------
(* The worker.                                                             *)

WorkerOnly == UNCHANGED <<Setting, boot, db, cancelled, Serving, Stopping>>
WorkerGoes(from, to) == worker = from /\ worker' = to /\ UNCHANGED signals /\ WorkerOnly

WorkerWake ==
    /\ worker = "waiting" /\ signals > 0
    /\ worker' = "drain" /\ signals' = signals - 1
    /\ WorkerOnly

WorkerStop == cancelled /\ WorkerGoes("waiting", "exited")

\* Mutant: only the select looks at the context.
StopsDrainingNever == FALSE

\* drain looks at the context before each row.
StopsDraining == cancelled

\* A query finds nothing pending or fails; or the row was expired, or its claim failed; or
\* it is extracted and the result written, unless the context was cancelled meanwhile.
WorkerWorks ==
    \/ WorkerGoes("drain", IF StopsDraining THEN "waiting" ELSE "query")
    \/ \E next \in {"waiting", "drain", "extract"} : WorkerGoes("query", next)
    \/ WorkerGoes("extract", "mark")
    \/ cancelled /\ WorkerGoes("extract", "waiting")
    \/ WorkerGoes("mark", "drain")

-----------------------------------------------------------------------------
(* Handlers and downloads.                                                 *)

RequestArrives(h) ==
    /\ boot = "up" /\ handler[h] = "idle"
    /\ handler' = [handler EXCEPT ![h] = "busy"]
    /\ UNCHANGED <<Setting, boot, db, cancelled, signals, worker, running, Stopping>>

\* With a usable handle a submit signals the worker and a fetch schedules a download, on
\* the registry's context whether cancelled or not; with a closed one each gets an error.
RequestEnds(h) ==
    /\ handler[h] = "busy"
    /\ handler' = [handler EXCEPT ![h] = "idle"]
    /\ \/ UNCHANGED <<signals, running>>
       \/ db = "open" /\ signals' = Buffered(signals + 1) /\ UNCHANGED running
       \/ db = "open" /\ UNCHANGED signals /\ \E d \in Downloads \ running : running' = running \cup {d}
    /\ UNCHANGED <<Setting, boot, db, cancelled, worker, Stopping>>

DownloadEnds(d) ==
    /\ d \in running
    /\ running' = running \ {d} /\ draining' = draining \ {d}
    /\ UNCHANGED <<Setting, boot, db, cancelled, signals, worker, handler, once, stop>>

-----------------------------------------------------------------------------
(* Shutdown.                                                               *)

StopOnly == UNCHANGED <<Setting, boot, cancelled, signals, worker, Serving>>
Goes(s, from, to) == stop[s] = from /\ stop' = [stop EXCEPT ![s] = to]

\* The embedder's own.
Cancel ==
    /\ caller.who = "embedder" /\ ~cancelled
    /\ cancelled' = TRUE
    /\ UNCHANGED <<Setting, boot, db, signals, worker, Serving, Stopping>>

ShutdownCalled(s) ==
    /\ caller.who = "embedder" /\ boot = "up"
    /\ Goes(s, "idle", "worker")
    /\ UNCHANGED <<db, once, draining>> /\ StopOnly

\* Mutant: Stop only looks whether the worker is busy.
WorkerDoneOrIdle == worker \in {"waiting", "exited"}

\* Worker.Stop returns.
WorkerDone == worker = "exited"

StopWorker(s) ==
    /\ WorkerDone
    /\ Goes(s, "worker", "registry")
    /\ UNCHANGED <<db, once, draining>> /\ StopOnly

\* Only the first caller cancels the downloads' context and waits.
RegistryBegins(s) ==
    /\ once = "free"
    /\ once' = "taken" /\ draining' = running
    /\ Goes(s, "registry", "drain")
    /\ UNCHANGED db /\ StopOnly

\* The others wait for the first, whatever their own deadline.
RegistryDone(s) ==
    /\ once \in {"drained", "timedout"}
    /\ Goes(s, "registry", "close")
    /\ UNCHANGED <<db, once, draining>> /\ StopOnly

\* Mutant: the wait is over with the first job that ends.
AllEndedButOne == Cardinality(running) <= 1

AllEnded == running = {}

Drained(s) ==
    /\ AllEnded
    /\ once' = "drained"
    /\ Goes(s, "drain", "close")
    /\ UNCHANGED <<db, draining>> /\ StopOnly

\* The error is logged, and the shutdown goes on.
TimedOut(s) ==
    /\ caller.deadline
    /\ once' = "timedout"
    /\ Goes(s, "drain", "close")
    /\ UNCHANGED <<db, draining>> /\ StopOnly

CloseDB(s) ==
    /\ Goes(s, "close", "returned")
    /\ db' = "closed"
    /\ UNCHANGED <<once, draining>> /\ StopOnly

Shutdown(s) == StopWorker(s) \/ RegistryBegins(s) \/ RegistryDone(s) \/ Drained(s)
            \/ TimedOut(s) \/ CloseDB(s)

-----------------------------------------------------------------------------
Next ==
    \/ Boot \/ RunEnds
    \/ WorkerWake \/ WorkerStop \/ WorkerWorks
    \/ \E h \in Handlers : RequestArrives(h) \/ RequestEnds(h)
    \/ \E d \in Downloads : DownloadEnds(d)
    \/ Cancel
    \/ \E s \in Stoppers : ShutdownCalled(s) \/ Shutdown(s)

Spec == Init /\ [][Next]_vars

\* The worker is scheduled, a select with two ready cases takes each now and then, an
\* extraction ends by its timeout, a deadline passes, and Shutdown's own steps are taken.
Fairness ==
    /\ WF_vars(WorkerWake) /\ WF_vars(WorkerWorks) /\ SF_vars(WorkerStop)
    /\ \A s \in Stoppers : WF_vars(Shutdown(s))

FairSpec == Spec /\ Fairness

-----------------------------------------------------------------------------
(* Properties.                                                             *)

\* A worker that has not returned has an open database, and an App (or the NewApp that is
\* building it) that can stop it: the handle is never closed under it, however often and
\* from wherever Shutdown is called, and no failing start leaves it behind.
RunningWorkerIsOwned ==
    worker \notin {"none", "exited"} => db = "open" /\ boot \in {"provider", "up"}

\* If the wait for the downloads ended well, none that ran when it began is still running,
\* although handlers go on scheduling others.
DrainIsComplete == once = "drained" => draining = {}

\* Once the context is cancelled every call of Shutdown with a deadline returns, whatever
\* handlers, downloads and other callers do.
ShutdownReturns ==
    \A s \in Stoppers :
        cancelled /\ caller.deadline /\ stop[s] # "idle" ~> stop[s] = "returned"

=============================================================================
