---------------------------- MODULE PdfDownload ----------------------------
(***************************************************************************)
(* The PDF-download registry: Schedule registers an in-memory job and      *)
(* starts its worker goroutine; the worker downloads the entries one after *)
(* the other, appends an event per entry and a final summary to the job's  *)
(* log, and fans each event out over the buffered channels of the SSE      *)
(* streams subscribed to it.  Status and stream requests sweep out the     *)
(* jobs that completed Retention ago.                                      *)
(*                                                                         *)
(* Everything between a Lock and its Unlock is one step; the two locks of  *)
(* Subscribe are two.  The registry lives in memory: a restart is Init.    *)
(* A download itself is one call whose outcome is either result.           *)
(***************************************************************************)
EXTENDS Naturals, Sequences, FiniteSets

CONSTANTS
    Jobs,               \* job ids, each given out by one Schedule
    NoJob,              \* the job of a stream that has none
    Streams,            \* requests for a job's event stream
    SubscriberBuffer,   \* PDF_DOWNLOAD_SUBSCRIBER_BUFFER
    Retention,          \* PDF_DOWNLOAD_RETENTION, in clock ticks
    MaxEntries,         \* bound: requests in one job
    MaxTime             \* bound: clock ticks

ASSUME NoJobIsNoJob == NoJob \notin Jobs
ASSUME SubscriberBufferPositive == SubscriberBuffer \in Nat \ {0}
ASSUME RetentionPositive == Retention \in Nat \ {0}
ASSUME MaxEntriesPositive == MaxEntries \in Nat \ {0}

VARIABLES
    registry,   \* the ids in the jobs map
    job,        \* the job records, which their worker and streams keep a pointer to
    worker,     \* the goroutine running each job
    stream,     \* the handler of each stream request
    gone,       \* stream requests whose client has disconnected
    shutdown,   \* the registry's ShutdownFunc
    now         \* the wall clock

vars == <<registry, job, worker, stream, gone, shutdown, now>>

-----------------------------------------------------------------------------
(* Jobs, events and the local state of each goroutine.                     *)

Results == {"success", "failed"}
EntryStatus == {"pending"} \cup Results

Progress(i, result) == [kind |-> "progress", entry |-> i, status |-> result]
Summary(succeeded, failed) == [kind |-> "summary", succeeded |-> succeeded, failed |-> failed]

Events == {Progress(i, r) : i \in 1..MaxEntries, r \in Results}
     \cup {Summary(a, b) : a \in 0..MaxEntries, b \in 0..MaxEntries}

Job == [entries : Seq(EntryStatus), events : Seq(Events), subscribers : SUBSET Streams,
        completed : BOOLEAN, completedAt : Nat]
NewJob(n) == [entries |-> [i \in 1..n |-> "pending"], events |-> <<>>, subscribers |-> {},
              completed |-> FALSE, completedAt |-> 0]

\* "ensure" is inside the store's Ensure, "stamp" before the clock is read for
\* completedAt and "finish" before finishJob takes the lock.
WorkerPcs == {"off", "ensure", "commit", "stamp", "finish", "done"}
WorkerState == [pc : WorkerPcs, result : Results, completedAt : Nat]

\* A stream that Subscribe found a job for first writes its backlog, then what
\* arrives on its live channel, which is open until the registry closes it.
StreamPcs == {"idle", "found", "unknown", "backlog", "live", "summary", "error", "gone"}
StreamState == [pc : StreamPcs, job : Jobs \cup {NoJob}, backlog : Seq(Events),
                live : Seq(Events), open : BOOLEAN, written : Seq(Events)]
NoStream == [pc |-> "idle", job |-> NoJob, backlog |-> <<>>, live |-> <<>>,
             open |-> FALSE, written |-> <<>>]

TypeOK ==
    /\ registry \in SUBSET Jobs
    /\ job \in [Jobs -> Job]
    /\ worker \in [Jobs -> WorkerState]
    /\ stream \in [Streams -> StreamState]
    /\ gone \in SUBSET Streams
    /\ shutdown \in {"no", "waiting", "drained", "forced"}
    /\ now \in Nat
    /\ \A s \in Streams : Len(stream[s].live) <= SubscriberBuffer

Init ==
    /\ registry = {}
    /\ job = [j \in Jobs |-> NewJob(0)]
    /\ worker = [j \in Jobs |-> [pc |-> "off", result |-> "failed", completedAt |-> 0]]
    /\ stream = [s \in Streams |-> NoStream]
    /\ gone = {}
    /\ shutdown = "no"
    /\ now = 0

-----------------------------------------------------------------------------
(* Schedule and the worker goroutine.                                      *)

\* Register the job and start its worker.  An empty request list is no job.
Schedule(j, n) ==
    /\ worker[j].pc = "off"
    /\ registry' = registry \cup {j}
    /\ job' = [job EXCEPT ![j] = NewJob(n)]
    /\ worker' = [worker EXCEPT ![j].pc = "ensure"]
    /\ UNCHANGED <<stream, gone, shutdown, now>>

\* Ensure returned; a failure is classified and recorded, never fatal.
RunEntry(j) ==
    /\ worker[j].pc = "ensure"
    /\ \E r \in Results : worker' = [worker EXCEPT ![j].pc = "commit", ![j].result = r]
    /\ UNCHANGED <<registry, job, stream, gone, shutdown, now>>

\* Mutant: the send does not use the last place of the buffer.
HasRoomOffByOne(s) == Len(stream[s].live) + 1 < SubscriberBuffer

\* Mutant: the send finds room in a full buffer.
HasRoomWhenFull(s) == Len(stream[s].live) <= SubscriberBuffer

HasRoom(s) == Len(stream[s].live) < SubscriberBuffer

\* The subscribers that the non-blocking send reached; the others are dropped.
Kept(j) == {s \in job[j].subscribers : HasRoom(s)}

\* Mutant: a dropped subscriber's channel is not closed.
ReceiveNeverClosed(s, j, ev) ==
    IF s \in Kept(j) THEN [stream[s] EXCEPT !.live = Append(stream[s].live, ev)]
    ELSE stream[s]

\* What one fan-out does to a stream: it gets the event or its channel is closed.
Receive(s, j, ev) ==
    IF s \in Kept(j) THEN [stream[s] EXCEPT !.live = Append(stream[s].live, ev)]
    ELSE IF s \in job[j].subscribers THEN [stream[s] EXCEPT !.open = FALSE]
    ELSE stream[s]

\* Mutant: the send to a subscriber blocks until there is room.
AppendAndFanOutBlocking(j) ==
    LET i == Len(job[j].events) + 1
        ev == Progress(i, worker[j].result)
    IN  /\ worker[j].pc = "commit"
        /\ \A s \in job[j].subscribers : HasRoom(s)
        /\ job' = [job EXCEPT ![j].entries[i] = worker[j].result,
                              ![j].events = Append(job[j].events, ev)]
        /\ stream' = [s \in Streams |-> Receive(s, j, ev)]
        /\ worker' = [worker EXCEPT ![j].pc = IF i < Len(job[j].entries) THEN "ensure" ELSE "stamp"]
        /\ UNCHANGED <<registry, gone, shutdown, now>>

\* The entry's result, its progress event and the fan-out, under the job's lock.
AppendAndFanOut(j) ==
    LET i == Len(job[j].events) + 1
        ev == Progress(i, worker[j].result)
    IN  /\ worker[j].pc = "commit"
        /\ job' = [job EXCEPT ![j].entries[i] = worker[j].result,
                              ![j].events = Append(job[j].events, ev),
                              ![j].subscribers = Kept(j)]
        /\ stream' = [s \in Streams |-> Receive(s, j, ev)]
        /\ worker' = [worker EXCEPT ![j].pc = IF i < Len(job[j].entries) THEN "ensure" ELSE "stamp"]
        /\ UNCHANGED <<registry, gone, shutdown, now>>

StampCompletion(j) ==
    /\ worker[j].pc = "stamp"
    /\ worker' = [worker EXCEPT ![j].pc = "finish", ![j].completedAt = now]
    /\ UNCHANGED <<registry, job, stream, gone, shutdown, now>>

Counted(j, status) == Cardinality({i \in DOMAIN job[j].entries : job[j].entries[i] = status})

\* The last fan-out, then every remaining channel is closed.
FinishJob(j) ==
    LET ev == Summary(Counted(j, "success"), Counted(j, "failed"))
    IN  /\ worker[j].pc = "finish"
        /\ job' = [job EXCEPT ![j].events = Append(job[j].events, ev), ![j].subscribers = {},
                              ![j].completed = TRUE, ![j].completedAt = worker[j].completedAt]
        /\ stream' = [s \in Streams |->
                        IF s \in job[j].subscribers
                        THEN [Receive(s, j, ev) EXCEPT !.open = FALSE]
                        ELSE stream[s]]
        /\ worker' = [worker EXCEPT ![j].pc = "done"]
        /\ UNCHANGED <<registry, gone, shutdown, now>>

RunJob(j) == RunEntry(j) \/ AppendAndFanOut(j) \/ StampCompletion(j) \/ FinishJob(j)

-----------------------------------------------------------------------------
(* Sweep, status and stream requests.                                      *)

\* Mutant: a running job's zero completedAt counts as old.
ExpiredUnchecked(j) == now >= job[j].completedAt + Retention

Expired(j) == job[j].completed /\ now >= job[j].completedAt + Retention

\* sweepLocked, which every lookup runs first.
Swept == {j \in registry : ~Expired(j)}

\* A status request only reads what is left after the sweep.
Status == registry' = Swept /\ UNCHANGED <<job, worker, stream, gone, shutdown, now>>

\* Subscribe under the registry's lock: the job it found stays in hand even if
\* another request sweeps it out before the job's own lock is taken.
Lookup(s, j) ==
    /\ stream[s].pc = "idle"
    /\ registry' = Swept
    /\ stream' = [stream EXCEPT ![s].pc = IF j \in Swept THEN "found" ELSE "unknown", ![s].job = j]
    /\ UNCHANGED <<job, worker, gone, shutdown, now>>

\* Mutant: a job that completed meanwhile gets an open channel all the same.
SubscribeAlwaysOpen(s) ==
    LET j == stream[s].job
    IN  /\ stream[s].pc = "found"
        /\ stream' = [stream EXCEPT ![s].pc = "backlog", ![s].backlog = job[j].events,
                                    ![s].open = TRUE]
        /\ job' = [job EXCEPT ![j].subscribers = @ \cup {s}]
        /\ UNCHANGED <<registry, worker, gone, shutdown, now>>

\* Mutant: a new subscriber gets the live events only.
SubscribeWithoutReplay(s) ==
    LET j == stream[s].job
    IN  /\ stream[s].pc = "found"
        /\ stream' = [stream EXCEPT ![s].pc = "backlog", ![s].open = ~job[j].completed]
        /\ job' = IF job[j].completed THEN job
                  ELSE [job EXCEPT ![j].subscribers = job[j].subscribers \cup {s}]
        /\ UNCHANGED <<registry, worker, gone, shutdown, now>>

\* Subscribe under the job's lock: the log so far and a channel for the rest,
\* closed at once when the job has completed.
Subscribe(s) ==
    LET j == stream[s].job
    IN  /\ stream[s].pc = "found"
        /\ stream' = [stream EXCEPT ![s].pc = "backlog", ![s].backlog = job[j].events,
                                    ![s].open = ~job[j].completed]
        /\ job' = IF job[j].completed THEN job
                  ELSE [job EXCEPT ![j].subscribers = job[j].subscribers \cup {s}]
        /\ UNCHANGED <<registry, worker, gone, shutdown, now>>

StreamOnly == UNCHANGED <<registry, job, worker, gone, shutdown, now>>

\* writeDownloadEvent: a summary frame ends the response.
Wrote(st, ev) ==
    [st EXCEPT !.written = Append(st.written, ev),
               !.pc = IF ev.kind = "summary" THEN "summary" ELSE st.pc]

\* The backlog is replayed without looking at the client.
WriteBacklog(s) ==
    LET st == stream[s]
    IN  /\ st.pc = "backlog" /\ st.backlog # <<>>
        /\ stream' = [stream EXCEPT ![s] = [Wrote(st, Head(st.backlog)) EXCEPT !.backlog = Tail(st.backlog)]]
        /\ StreamOnly

BacklogDone(s) ==
    /\ stream[s].pc = "backlog" /\ stream[s].backlog = <<>>
    /\ stream' = [stream EXCEPT ![s].pc = "live"]
    /\ StreamOnly

WriteLive(s) ==
    LET st == stream[s]
    IN  /\ st.pc = "live" /\ st.live # <<>>
        /\ stream' = [stream EXCEPT ![s] = [Wrote(st, Head(st.live)) EXCEPT !.live = Tail(st.live)]]
        /\ StreamOnly

\* A closed channel yields what it still buffers, then ends in an error frame.
StreamClosed(s) ==
    /\ stream[s].pc = "live" /\ stream[s].live = <<>> /\ ~stream[s].open
    /\ stream' = [stream EXCEPT ![s].pc = "error"]
    /\ StreamOnly

\* The handler returns without unsubscribing its channel.
ClientDone(s) ==
    /\ stream[s].pc = "live" /\ s \in gone
    /\ stream' = [stream EXCEPT ![s].pc = "gone"]
    /\ StreamOnly

Serve(s) == Subscribe(s) \/ WriteBacklog(s) \/ BacklogDone(s) \/ WriteLive(s)
         \/ StreamClosed(s) \/ ClientDone(s)

Disconnect(s) ==
    /\ stream[s].pc \in {"found", "backlog", "live"} /\ s \notin gone
    /\ gone' = gone \cup {s}
    /\ UNCHANGED <<registry, job, worker, stream, shutdown, now>>

-----------------------------------------------------------------------------
(* Shutdown and time.                                                      *)

ShutdownOnly == UNCHANGED <<registry, job, worker, stream, gone, now>>

\* The background context is cancelled: pending downloads fail early, which is
\* one of the outcomes RunEntry already has.
ShutdownBegins == shutdown = "no" /\ shutdown' = "waiting" /\ ShutdownOnly

\* The WaitGroup reached zero.
ShutdownDrained ==
    /\ shutdown = "waiting" /\ \A j \in Jobs : worker[j].pc \in {"off", "done"}
    /\ shutdown' = "drained"
    /\ ShutdownOnly

\* The caller's deadline fires first; the downloads go on.
ShutdownForced == shutdown = "waiting" /\ shutdown' = "forced" /\ ShutdownOnly

Tick == now < MaxTime /\ now' = now + 1 /\ UNCHANGED <<registry, job, worker, stream, gone, shutdown>>

Next ==
    \/ \E j \in Jobs : RunJob(j) \/ \E n \in 1..MaxEntries : Schedule(j, n)
    \/ \E s \in Streams : Serve(s) \/ Disconnect(s) \/ \E j \in Jobs : Lookup(s, j)
    \/ Status \/ ShutdownBegins \/ ShutdownDrained \/ ShutdownForced \/ Tick

Spec == Init /\ [][Next]_vars

\* A worker's goroutine runs and its downloads return, for the HTTP client has
\* a timeout.  Nothing is assumed of the streams' clients.
WorkersRun == \A j \in Jobs : WF_vars(RunJob(j))
WorkerSpec == Spec /\ WorkersRun /\ WF_vars(ShutdownDrained)

\* The handlers run too, as they do while no client stalls a write for ever.
StreamsServed == \A s \in Streams : WF_vars(Serve(s))

-----------------------------------------------------------------------------
(* Properties.                                                             *)

Scheduled(j) == worker[j].pc # "off"

\* The status endpoint and the stream never disagree: the log holds one progress
\* event per finished entry, in request order and with its result, and then the
\* summary, which counts every entry under the result that Status shows for it, exactly
\* when the job is completed.
StatusAgreesWithLog ==
    \A j \in Jobs :
      LET entries == job[j].entries
          events == job[j].events
          finished == {i \in DOMAIN entries : entries[i] # "pending"}
      IN  /\ \A i \in finished : i \in DOMAIN events /\ events[i] = Progress(i, entries[i])
          /\ Len(events) = Cardinality(finished) + IF job[j].completed THEN 1 ELSE 0
          /\ job[j].completed =>
               /\ finished = DOMAIN entries
               /\ events[Len(events)] = Summary(Counted(j, "success"), Counted(j, "failed"))
               /\ events[Len(events)].succeeded + events[Len(events)].failed = Len(entries)

\* A response that ended with the summary carried the job's whole log.
SummaryEndsTheWholeLog ==
    \A s \in Streams : stream[s].pc = "summary" =>
      job[stream[s].job].completed /\ stream[s].written = job[stream[s].job].events

\* Only a consumer that fell a whole buffer behind gets the error frame, and it
\* did miss something.  A shutdown of the registry cuts no stream: it cancels the
\* downloads and waits, and the worker closes the channels after the summary.  The
\* comments of the controller (pdfdownload_controller.go:61 and :105) say otherwise.
ErrorOnlyWhenBehind ==
    \A s \in Streams : stream[s].pc = "error" =>
      /\ Len(stream[s].written) >= SubscriberBuffer
      /\ Len(stream[s].written) < Len(job[stream[s].job].events)

\* What a reader is shown is the job as it is: the status endpoint, a stream that ended
\* with the summary and one that ended with an error frame all agree with the log.  A
\* shutdown, before the job or during it, makes no exception.
ReadersSeeTheJob == StatusAgreesWithLog /\ SummaryEndsTheWholeLog /\ ErrorOnlyWhenBehind

\* No handler waits on a channel nobody will close, whatever the order in which
\* it subscribed and the job finished.
NoStreamStranded ==
    \A s \in Streams : stream[s].pc \in {"backlog", "live"} /\ stream[s].open =>
      ~job[stream[s].job].completed /\ s \in job[stream[s].job].subscribers

\* A job leaves the registry only Retention after it completed: never while its
\* worker still runs.
RetainedUntilAged ==
    \A j \in Jobs : Scheduled(j) /\ j \notin registry =>
      worker[j].pc = "done" /\ now >= job[j].completedAt + Retention

\* A stream is a reader of the job's append-only log.
FeedOf(st) ==
    IF st.pc \in {"backlog", "live", "summary", "error", "gone"}
    THEN [status |-> CASE st.pc = "summary" -> "complete"
                       [] st.pc \in {"error", "gone"} -> "cut"
                       [] OTHER -> "open",
          job |-> st.job, seen |-> st.written]
    ELSE [status |-> "none", job |-> NoJob, seen |-> <<>>]

Feed == INSTANCE EventFeed WITH log <- [j \in Jobs |-> job[j].events],
                                feed <- [s \in Streams |-> FeedOf(stream[s])]
ImplementsFeed == Feed!Spec

JobsComplete == \A j \in Jobs : Scheduled(j) ~> job[j].completed
ShutdownReturns == shutdown = "waiting" ~> shutdown # "waiting"

\* Every scheduled job completes and a shutdown drains, whatever its downloads
\* return and however slow, stalled or gone the streams' clients are.
WorkersFinish == JobsComplete /\ ShutdownReturns

\* While no client stalls a write for ever, every stream request that found its
\* job gets a last frame or loses its client.
StreamsEnd ==
    StreamsServed => \A s \in Streams : stream[s].pc \in {"found", "backlog", "live"} ~>
                                        stream[s].pc \in {"summary", "error", "gone"}

=============================================================================
