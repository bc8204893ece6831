------------------------- MODULE AppLifecycleProofs -------------------------
(***************************************************************************)
(* Theorems about the life of the process, for any number of handlers,     *)
(* downloads and callers of Shutdown, and any configurations.              *)
(***************************************************************************)
EXTENDS AppLifecycle, TLAPS

\* The steps of NewApp, one by one.
LEMMA FallibleSteps ==
  /\ DOMAIN Fallible = 1..5 /\ Len(Fallible) = 5
  /\ Fallible[1] = "open" /\ Fallible[2] = "migrate" /\ Fallible[3] = "store"
  /\ Fallible[4] = "recover" /\ Fallible[5] = "list"
  BY DEF Fallible

\* The steps of NewApp that may fail, as a set.
Fallibles == {"open", "migrate", "store", "recover", "list"}

\* Each is followed by another, or by the start of the worker.
LEMMA StepsFollow ==
  ASSUME NEW i \in DOMAIN Fallible
  PROVE  /\ Fallible[i] \in Fallibles
         /\ Following(i) \in Fallibles \cup {"start"}
         /\ Following(i) # "open"
  <1>1. i \in 1..5
    BY FallibleSteps
  <1>2. CASE i = 1
    BY <1>2, FallibleSteps DEF Fallibles, Following
  <1>3. CASE i = 2
    BY <1>3, FallibleSteps DEF Fallibles, Following
  <1>4. CASE i = 3
    BY <1>4, FallibleSteps DEF Fallibles, Following
  <1>5. CASE i = 4
    BY <1>5, FallibleSteps DEF Fallibles, Following
  <1>6. CASE i = 5
    BY <1>6, FallibleSteps DEF Fallibles, Following
  <1>. QED
    BY <1>1, <1>2, <1>3, <1>4, <1>5, <1>6

\* The places NewApp can be in, by name.
LEMMA BootPlaces == BootPcs = Fallibles \cup {"load", "start", "provider", "up", "failed", "exited"}
  <1>1. {Fallible[i] : i \in DOMAIN Fallible} = Fallibles
    BY FallibleSteps DEF Fallibles
  <1>. QED
    BY <1>1 DEF BootPcs

\* The default configuration is one.
LEMMA DefaultIsEnv == Default \in Env
  BY DEF Default, Env

-----------------------------------------------------------------------------
(* Typing.                                                                 *)

\* A full channel stays within its buffer.
LEMMA BufferedFits ==
  ASSUME NEW n \in Nat, env \in Env
  PROVE  Buffered(n) \in 0..env.signalBuffer
  <1>1. env.signalBuffer \in Nat
    BY DEF Env
  <1>. QED
    BY <1>1 DEF Buffered

\* The process starts well typed.
LEMMA InitType == Init => TypeOK
  <1>. SUFFICES ASSUME Init PROVE TypeOK
    OBVIOUS
  <1>1. env \in Env
    BY DefaultIsEnv, OddAreEnvs, OwnIsUsable DEF Init
  <1>2. signals \in 0..env.signalBuffer
    <2>1. env.signalBuffer \in Nat
      BY <1>1 DEF Env
    <2>. QED
      BY <2>1 DEF Init
  <1>3. handler \in [Handlers -> {"idle", "busy"}] /\ stop \in [Stoppers -> StopPcs]
    BY DEF Init, StopPcs
  <1>4. boot \in BootPcs /\ worker \in WorkerPcs
    BY BootPlaces DEF Init, WorkerPcs
  <1>5. running \in SUBSET Downloads /\ draining \in SUBSET Downloads
    BY DEF Init
  <1>6. /\ caller \in [who : {"main", "embedder"}, deadline : BOOLEAN]
        /\ cancelled \in BOOLEAN
    BY DEF Init
  <1>7. db \in {"none", "open", "closed"} /\ once \in {"free", "taken", "drained", "timedout"}
    BY DEF Init
  <1>. QED
    BY <1>1, <1>2, <1>3, <1>4, <1>5, <1>6, <1>7 DEF TypeOK

\* Typed in parts: what the boot, the worker, the requests and Shutdown can change.
ProcessType == boot \in BootPcs /\ db \in {"none", "open", "closed"} /\ worker \in WorkerPcs
ServingType == handler \in [Handlers -> {"idle", "busy"}] /\ running \in SUBSET Downloads
StoppingType == /\ once \in {"free", "taken", "drained", "timedout"}
                /\ draining \in SUBSET Downloads /\ stop \in [Stoppers -> StopPcs]

\* Booting, and the end of a run of main, keep the types.
LEMMA BootType == ASSUME TypeOK, Boot \/ RunEnds PROVE TypeOK'
  <1>. USE DEF Setting, Serving, Stopping
  <1>1. /\ env \in Env /\ caller \in [who : {"main", "embedder"}, deadline : BOOLEAN]
        /\ cancelled \in BOOLEAN /\ signals \in 0..env.signalBuffer /\ env.signalBuffer \in Nat
        /\ ProcessType /\ ServingType /\ StoppingType
    BY DEF TypeOK, Env, ProcessType, ServingType, StoppingType
  <1>2. UNCHANGED <<env, caller, cancelled>>
    BY DEF Boot, LoadEnv, EnvGiven, BootStep, BootStepFails, StartWorker, SelectProvider, RunEnds,
           Abandon, Exits
  <1>3. UNCHANGED <<once, draining, stop>>
    BY DEF Boot, LoadEnv, EnvGiven, BootStep, BootStepFails, StartWorker, SelectProvider, RunEnds,
           Abandon, Exits
  <1>4. ServingType'
    <2>1. CASE UNCHANGED <<handler, running>>
      BY <1>1, <2>1 DEF ServingType
    <2>2. CASE Exits
      BY <2>2 DEF Exits, ServingType
    <2>. QED
      BY <2>1, <2>2 DEF Boot, LoadEnv, EnvGiven, BootStep, BootStepFails, StartWorker,
                        SelectProvider, RunEnds, Abandon
  <1>5. signals' \in 0..env.signalBuffer
    <2>1. CASE UNCHANGED signals
      BY <1>1, <2>1
    <2>2. CASE Exits
      BY <1>1, <2>2 DEF Exits
    <2>3. ASSUME NEW i \in DOMAIN Fallible, BootStep(i)
          PROVE  signals' \in 0..env.signalBuffer
      <3>1. PICK pending \in 0 .. env.signalBuffer + 1 :
              signals' = IF boot = "list" THEN Buffered(signals + pending) ELSE signals
        BY <2>3 DEF BootStep
      <3>2. signals + pending \in Nat
        BY <1>1
      <3>. QED
        BY <1>1, <3>1, <3>2, BufferedFits
    <2>. QED
      BY <2>1, <2>2, <2>3 DEF Boot, LoadEnv, EnvGiven, BootStepFails, StartWorker,
                              SelectProvider, RunEnds, Abandon
  <1>6. ProcessType'
    <2>1. CASE Exits
      BY <2>1, BootPlaces DEF Exits, ProcessType, WorkerPcs
    <2>2. CASE Abandon
      BY <1>1, <2>1, <2>2, BootPlaces DEF Abandon, ProcessType
    <2>3. CASE LoadEnv \/ EnvGiven
      BY <1>1, <2>2, <2>3, BootPlaces DEF LoadEnv, EnvGiven, ProcessType, Fallibles
    <2>4. ASSUME NEW i \in DOMAIN Fallible, BootStep(i) PROVE ProcessType'
      BY <1>1, <2>4, StepsFollow, BootPlaces DEF BootStep, ProcessType
    <2>5. CASE \E i \in DOMAIN Fallible : BootStepFails(i)
      BY <2>2, <2>5 DEF BootStepFails
    <2>6. CASE StartWorker
      BY <1>1, <2>6, BootPlaces DEF StartWorker, ProcessType, WorkerPcs
    <2>7. CASE SelectProvider
      BY <1>1, <2>2, <2>7, BootPlaces DEF SelectProvider, ProcessType
    <2>8. CASE RunEnds
      BY <2>1, <2>8 DEF RunEnds
    <2>. QED
      BY <2>3, <2>4, <2>5, <2>6, <2>7, <2>8 DEF Boot
  <1>. QED
    BY <1>1, <1>2, <1>3, <1>4, <1>5, <1>6 DEF TypeOK, ProcessType, ServingType, StoppingType

\* The worker's steps keep the types; only a wake takes a signal.
LEMMA WorkerType == ASSUME TypeOK, WorkerWake \/ WorkerStop \/ WorkerWorks PROVE TypeOK'
  <1>. USE DEF Setting, Serving, Stopping, WorkerOnly
  <1>1. UNCHANGED <<env, caller, boot, db, cancelled, handler, running, once, draining, stop>>
    BY DEF WorkerWake, WorkerStop, WorkerWorks, WorkerGoes
  <1>2. worker' \in WorkerPcs
    BY DEF WorkerWake, WorkerStop, WorkerWorks, WorkerGoes, WorkerPcs
  <1>3. signals' \in 0..env.signalBuffer
    <2>1. signals \in 0..env.signalBuffer /\ env.signalBuffer \in Nat
      BY DEF TypeOK, Env
    <2>2. CASE WorkerWake
      BY <2>1, <2>2 DEF WorkerWake
    <2>3. CASE UNCHANGED signals
      BY <2>1, <2>3
    <2>. QED
      BY <2>2, <2>3 DEF WorkerStop, WorkerWorks, WorkerGoes
  <1>. QED
    BY <1>1, <1>2, <1>3 DEF TypeOK

\* Handlers and downloads keep the types; a submit signals at most to the buffer.
LEMMA RequestType ==
  ASSUME TypeOK,
         (\E h \in Handlers : RequestArrives(h) \/ RequestEnds(h)) \/ (\E d \in Downloads : DownloadEnds(d))
  PROVE  TypeOK'
  <1>. USE DEF Stopping
  <1>1. UNCHANGED <<env, caller, boot, db, cancelled, worker, once, stop>>
    BY DEF RequestArrives, RequestEnds, DownloadEnds, Setting
  <1>2. handler' \in [Handlers -> {"idle", "busy"}]
    BY DEF TypeOK, RequestArrives, RequestEnds, DownloadEnds
  <1>3. running' \in SUBSET Downloads /\ draining' \in SUBSET Downloads
    BY DEF TypeOK, RequestArrives, RequestEnds, DownloadEnds
  <1>4. signals' \in 0..env.signalBuffer
    <2>1. signals \in 0..env.signalBuffer /\ env.signalBuffer \in Nat /\ env \in Env
      BY DEF TypeOK, Env
    <2>2. signals + 1 \in Nat
      BY <2>1
    <2>3. Buffered(signals + 1) \in 0..env.signalBuffer
      BY <2>1, <2>2, BufferedFits
    <2>. QED
      BY <2>1, <2>3 DEF RequestArrives, RequestEnds, DownloadEnds
  <1>. QED
    BY <1>1, <1>2, <1>3, <1>4 DEF TypeOK

\* A call of Shutdown moves its own place only.
LEMMA GoesType ==
  ASSUME TypeOK, NEW s \in Stoppers, NEW from, NEW to \in StopPcs, Goes(s, from, to)
  PROVE  stop' \in [Stoppers -> StopPcs]
  BY DEF TypeOK, Goes

\* Cancelling and shutting down keep the types.
LEMMA ShutdownType ==
  ASSUME TypeOK, Cancel \/ \E s \in Stoppers : ShutdownCalled(s) \/ Shutdown(s)
  PROVE  TypeOK'
  <1>. USE DEF Setting, Serving, StopOnly
  <1>1. UNCHANGED <<env, caller, boot, signals, worker, handler, running>>
    BY DEF Cancel, ShutdownCalled, Shutdown, StopWorker, RegistryBegins, RegistryDone, Drained,
           TimedOut, CloseDB, Stopping
  <1>2. cancelled' \in BOOLEAN
    BY DEF TypeOK, Cancel, ShutdownCalled, Shutdown, StopWorker, RegistryBegins, RegistryDone,
           Drained, TimedOut, CloseDB
  <1>3. /\ db' \in {"none", "open", "closed"}
        /\ once' \in {"free", "taken", "drained", "timedout"} /\ draining' \in SUBSET Downloads
    BY DEF TypeOK, Cancel, ShutdownCalled, Shutdown, StopWorker, RegistryBegins, RegistryDone,
           Drained, TimedOut, CloseDB, Stopping
  <1>4. stop' \in [Stoppers -> StopPcs]
    <2>1. CASE Cancel
      BY <2>1 DEF Cancel, Stopping, TypeOK
    <2>2. CASE \E s \in Stoppers : ShutdownCalled(s) \/ Shutdown(s)
      <3>1. PICK s \in Stoppers, from \in StopPcs, to \in StopPcs : Goes(s, from, to)
        BY <2>2 DEF ShutdownCalled, Shutdown, StopWorker, RegistryBegins, RegistryDone,
                    Drained, TimedOut, CloseDB, StopPcs
      <3>. QED
        BY <3>1, GoesType
    <2>. QED
      BY <2>1, <2>2
  <1>. QED
    BY <1>1, <1>2, <1>3, <1>4 DEF TypeOK

\* The state of the process is well typed at every moment; the wake channel never
\* exceeds the buffer that was configured.
THEOREM TypeCorrect == Spec => []TypeOK
  <1>1. ASSUME TypeOK, [Next]_vars PROVE TypeOK'
    <2>1. CASE UNCHANGED vars
      BY <1>1, <2>1 DEF TypeOK, vars
    <2>2. CASE Next
      BY <1>1, <2>2, BootType, WorkerType, RequestType, ShutdownType DEF Next
    <2>. QED
      BY <1>1, <2>1, <2>2
  <1>. QED
    BY InitType, <1>1, PTL DEF Spec

-----------------------------------------------------------------------------
(* Who owns the worker.                                                    *)

\* LoadEnv accepts no provider but the one that is wired.
LEMMA AcceptedIsWired == ASSUME NEW e, Accepted(e) PROVE Wired(e.provider)
  BY DEF Accepted

\* NewApp only goes as far as the provider with one that is wired.
ProviderIsWired == boot \in Fallibles \cup {"start", "provider", "up"} => Wired(env.provider)

\* There is no worker before its start, and none left by an end of the boot.
WorkerStartsLate == boot \notin {"provider", "up"} => worker = "none"

\* The handle is there once the first step of NewApp is done, and closed only at the end.
HandleIsThere ==
    /\ boot \in {"migrate", "store", "recover", "list", "start", "provider"} => db = "open"
    /\ boot = "up" /\ db # "open" => worker = "exited"

\* Shutdown is called by an embedder, of an App, and is past the worker only after that
\* has returned.
StopsInOrder ==
    \A s \in Stoppers : /\ stop[s] # "idle" => caller.who = "embedder" /\ boot = "up"
                        /\ stop[s] \notin {"idle", "worker"} => worker = "exited"

\* The parts hold together; none is inductive without the others.
Ownership == TypeOK /\ ProviderIsWired /\ WorkerStartsLate /\ HandleIsThere /\ StopsInOrder

\* At the start there is no worker and no call of Shutdown.
LEMMA OwnershipInit == Init => Ownership
  BY InitType DEF Init, Ownership, ProviderIsWired, WorkerStartsLate, HandleIsThere, StopsInOrder,
                  Fallibles

\* Shutdown is not running while the process boots.
LEMMA NoStopInBoot ==
  ASSUME Ownership, boot # "up"
  PROVE  \A s \in Stoppers : stop[s] = "idle"
  BY DEF Ownership, StopsInOrder

\* Every step of LoadEnv and NewApp keeps the worker owned.
LEMMA OwnershipBoot == ASSUME Ownership, Boot PROVE Ownership'
  <1>. USE DEF Setting, Serving, Stopping
  <1>1. TypeOK' /\ TypeOK
    BY BootType DEF Ownership
  <1>2. UNCHANGED <<env, caller, stop>>
    BY DEF Boot, LoadEnv, EnvGiven, BootStep, BootStepFails, StartWorker, SelectProvider,
           Abandon, Exits
  <1>3. boot # "up"
    BY StepsFollow DEF Boot, LoadEnv, EnvGiven, BootStep, BootStepFails, StartWorker,
                       SelectProvider, Fallibles
  <1>4. StopsInOrder'
    BY <1>2, <1>3, NoStopInBoot DEF StopsInOrder
  <1>5. ASSUME Abandon, boot # "provider" PROVE ProviderIsWired' /\ WorkerStartsLate' /\ HandleIsThere'
    BY <1>3, <1>5 DEF Ownership, Abandon, Exits, ProviderIsWired, WorkerStartsLate, HandleIsThere,
                      Fallibles
  <1>6. ProviderIsWired' /\ WorkerStartsLate' /\ HandleIsThere'
    <2>1. CASE LoadEnv
      <3>1. CASE Accepted(env)
        <4>1. Wired(env.provider)
          BY AcceptedIsWired, <3>1
        <4>2. boot = "load" /\ boot' = "open" /\ UNCHANGED <<env, worker>>
          BY <1>2, <2>1, <3>1 DEF LoadEnv
        <4>. QED
          BY <4>1, <4>2 DEF Ownership, ProviderIsWired, WorkerStartsLate, HandleIsThere
      <3>2. CASE ~Accepted(env)
        BY <1>5, <2>1, <3>2 DEF LoadEnv
      <3>. QED
        BY <3>1, <3>2
    <2>2. CASE EnvGiven
      BY <1>2, <2>2, OwnIsUsable DEF EnvGiven, Ownership, ProviderIsWired, WorkerStartsLate,
                                     HandleIsThere, Fallibles
    <2>3. ASSUME NEW i \in DOMAIN Fallible, BootStep(i)
          PROVE  ProviderIsWired' /\ WorkerStartsLate' /\ HandleIsThere'
      BY <1>2, <2>3, StepsFollow DEF BootStep, Ownership, ProviderIsWired, WorkerStartsLate,
                                     HandleIsThere, Fallibles
    <2>4. ASSUME NEW i \in DOMAIN Fallible, BootStepFails(i)
          PROVE  ProviderIsWired' /\ WorkerStartsLate' /\ HandleIsThere'
      BY <1>5, <2>4, StepsFollow DEF BootStepFails, Fallibles
    <2>5. CASE StartWorker
      BY <1>2, <2>5 DEF StartWorker, Ownership, ProviderIsWired, WorkerStartsLate, HandleIsThere,
                        Fallibles
    <2>6. CASE SelectProvider
      BY <1>2, <2>6 DEF SelectProvider, Wired, Ownership, ProviderIsWired, WorkerStartsLate,
                        HandleIsThere, Fallibles
    <2>. QED
      BY <2>1, <2>2, <2>3, <2>4, <2>5, <2>6 DEF Boot
  <1>. QED
    BY <1>1, <1>4, <1>6 DEF Ownership

\* So does every other step: Shutdown closes the handle only after the worker returned.
LEMMA OwnershipRest == ASSUME Ownership, Next, ~Boot PROVE Ownership'
  <1>. USE DEF Setting, Serving, Stopping, WorkerOnly, StopOnly
  <1>1. TypeOK' /\ TypeOK
    BY BootType, WorkerType, RequestType, ShutdownType DEF Ownership, Next
  <1>2. CASE RunEnds
    <2>1. /\ UNCHANGED <<env, caller, stop>> /\ caller.who = "main"
          /\ boot' = "exited" /\ worker' = "none"
      BY <1>2 DEF RunEnds, Exits
    <2>2. \A s \in Stoppers : stop[s] = "idle"
      BY <2>1 DEF Ownership, StopsInOrder
    <2>. QED
      BY <1>1, <2>1, <2>2 DEF Ownership, ProviderIsWired, WorkerStartsLate, HandleIsThere,
                              StopsInOrder, Fallibles
  <1>3. CASE WorkerWake \/ WorkerStop \/ WorkerWorks
    <2>1. /\ UNCHANGED <<env, caller, boot, db, stop>>
          /\ worker \notin {"none", "exited"}
      BY <1>3 DEF WorkerWake, WorkerStop, WorkerWorks, WorkerGoes
    <2>. QED
      BY <1>1, <2>1 DEF Ownership, ProviderIsWired, WorkerStartsLate, HandleIsThere, StopsInOrder
  <1>4. CASE (\E h \in Handlers : RequestArrives(h) \/ RequestEnds(h))
             \/ (\E d \in Downloads : DownloadEnds(d)) \/ Cancel
    <2>1. UNCHANGED <<env, caller, boot, db, worker, stop>>
      BY <1>4 DEF RequestArrives, RequestEnds, DownloadEnds, Cancel
    <2>. QED
      BY <1>1, <2>1 DEF Ownership, ProviderIsWired, WorkerStartsLate, HandleIsThere, StopsInOrder
  <1>5. ASSUME NEW s \in Stoppers, ShutdownCalled(s) \/ Shutdown(s) PROVE Ownership'
    <2>1. UNCHANGED <<env, caller, boot, worker>>
      BY <1>5 DEF ShutdownCalled, Shutdown, StopWorker, RegistryBegins, RegistryDone, Drained,
                  TimedOut, CloseDB
    <2>2. ProviderIsWired' /\ WorkerStartsLate'
      BY <2>1 DEF Ownership, ProviderIsWired, WorkerStartsLate
    <2>3. /\ \A r \in Stoppers : r # s => stop'[r] = stop[r]
          /\ ShutdownCalled(s) => stop'[s] = "worker" /\ caller.who = "embedder" /\ boot = "up"
          /\ Shutdown(s) => stop[s] # "idle"
          /\ Shutdown(s) => stop[s] # "worker" \/ worker = "exited"
      BY <1>1, <1>5 DEF TypeOK, ShutdownCalled, Shutdown, StopWorker, WorkerDone, RegistryBegins,
                        RegistryDone, Drained, TimedOut, CloseDB, Goes
    <2>4. StopsInOrder'
      BY <1>5, <2>1, <2>3 DEF Ownership, StopsInOrder
    <2>5. UNCHANGED db \/ stop[s] = "close"
      BY <1>5 DEF ShutdownCalled, Shutdown, StopWorker, RegistryBegins, RegistryDone, Drained,
                  TimedOut, CloseDB, Goes
    <2>6. HandleIsThere'
      BY <2>1, <2>5 DEF Ownership, HandleIsThere, StopsInOrder
    <2>. QED
      BY <1>1, <2>2, <2>4, <2>6 DEF Ownership
  <1>. QED
    BY <1>2, <1>3, <1>4, <1>5 DEF Next

\* The inductive invariant about the worker, the handle and the order of Shutdown.
THEOREM OwnershipHolds == Spec => []Ownership
  <1>1. ASSUME Ownership, [Next]_vars PROVE Ownership'
    <2>1. CASE UNCHANGED vars
      <3>1. TypeOK'
        BY <1>1, <2>1 DEF Ownership, TypeOK, vars
      <3>. QED
        BY <1>1, <2>1, <3>1 DEF vars, Ownership, ProviderIsWired, WorkerStartsLate, HandleIsThere,
                                StopsInOrder
    <2>2. CASE Next
      BY <1>1, <2>2, OwnershipBoot, OwnershipRest
    <2>. QED
      BY <1>1, <2>1, <2>2
  <1>. QED
    BY OwnershipInit, <1>1, PTL DEF Spec

\* However often and from wherever Shutdown is called, the handle is never closed under a
\* running worker, and no failing start leaves one behind.
THEOREM RunningWorkerIsOwnedHolds == Spec => []RunningWorkerIsOwned
  <1>1. Ownership => RunningWorkerIsOwned
    BY DEF Ownership, TypeOK, WorkerStartsLate, HandleIsThere, RunningWorkerIsOwned
  <1>. QED
    BY OwnershipHolds, <1>1, PTL

-----------------------------------------------------------------------------
(* What the registry's shutdown waits for.                                 *)

\* The downloads it waits for are running, there are none in a process that main runs,
\* and none is left when the wait ended well.
Drains ==
    /\ draining \subseteq running
    /\ caller.who = "main" => draining = {}
    /\ once = "drained" => draining = {}

\* Only the end of a wait sets the flag, and it sees that nothing runs.
LEMMA DrainsShutdown ==
  ASSUME Ownership, Drains, NEW s \in Stoppers, ShutdownCalled(s) \/ Shutdown(s)
  PROVE  Drains'
  <1>1. UNCHANGED <<caller, running>>
    BY DEF ShutdownCalled, Shutdown, StopWorker, RegistryBegins, RegistryDone, Drained,
           TimedOut, CloseDB, StopOnly, Setting, Serving
  <1>2. CASE RegistryBegins(s)
    <2>1. caller.who = "embedder"
      BY <1>2 DEF RegistryBegins, Goes, Ownership, StopsInOrder
    <2>2. draining' = running /\ once' = "taken"
      BY <1>2 DEF RegistryBegins
    <2>. QED
      BY <1>1, <2>1, <2>2 DEF Drains
  <1>3. CASE Drained(s)
    <2>1. running = {} /\ UNCHANGED draining
      BY <1>3 DEF Drained, AllEnded
    <2>. QED
      BY <1>1, <2>1 DEF Drains
  <1>4. CASE ~RegistryBegins(s) /\ ~Drained(s)
    <2>1. UNCHANGED draining /\ (once' = "drained" => once = "drained")
      BY <1>4 DEF ShutdownCalled, Shutdown, StopWorker, RegistryDone, TimedOut, CloseDB
    <2>. QED
      BY <1>1, <2>1 DEF Drains
  <1>. QED
    BY <1>2, <1>3, <1>4

\* However many handlers schedule downloads meanwhile, a wait that ended well has seen
\* the end of every download that ran when it began.
THEOREM DrainIsCompleteHolds == Spec => []DrainIsComplete
  <1>1. Init => Drains
    BY DEF Init, Drains
  <1>2. ASSUME Ownership, Drains, [Next]_vars PROVE Drains'
    <2>. USE DEF Setting, Serving, Stopping, WorkerOnly
    <2>1. CASE UNCHANGED <<caller, running, once, draining>>
      BY <1>2, <2>1 DEF Drains
    <2>2. CASE Exits /\ caller.who = "main" /\ UNCHANGED caller
      BY <1>2, <2>2 DEF Exits, Drains
    <2>3. ASSUME NEW h \in Handlers, RequestEnds(h) PROVE Drains'
      <3>1. UNCHANGED <<caller, once, draining>> /\ running \subseteq running'
        BY <2>3 DEF RequestEnds
      <3>. QED
        BY <1>2, <3>1 DEF Drains
    <2>4. ASSUME NEW d \in Downloads, DownloadEnds(d) PROVE Drains'
      BY <1>2, <2>4 DEF DownloadEnds, Drains
    <2>5. CASE Boot \/ RunEnds
      BY <2>1, <2>2, <2>5 DEF Boot, RunEnds, LoadEnv, EnvGiven, BootStep, BootStepFails,
                              StartWorker, SelectProvider, Abandon
    <2>6. CASE WorkerWake \/ WorkerStop \/ WorkerWorks \/ Cancel
      BY <2>1, <2>6 DEF WorkerWake, WorkerStop, WorkerWorks, WorkerGoes, Cancel
    <2>7. ASSUME NEW h \in Handlers, RequestArrives(h) PROVE Drains'
      BY <2>1, <2>7 DEF RequestArrives
    <2>8. CASE UNCHANGED vars
      BY <2>1, <2>8 DEF vars
    <2>. QED
      BY <1>2, <2>3, <2>4, <2>5, <2>6, <2>7, <2>8, DrainsShutdown DEF Next
  <1>3. Drains => DrainIsComplete
    BY DEF Drains, DrainIsComplete
  <1>. QED
    BY OwnershipHolds, <1>1, <1>2, <1>3, PTL DEF Spec

=============================================================================
