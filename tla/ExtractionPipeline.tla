------------------------- MODULE ExtractionPipeline -------------------------
(***************************************************************************)
(* The asynchronous extraction pipeline: HTTP handlers submit requests     *)
(* into the extractions table, a buffered channel carries wake signals,    *)
(* and one worker goroutine drains the pending rows.  The process may be   *)
(* cancelled or exit at any moment and boots again over the same table;    *)
(* database calls may fail.                                                *)
(*                                                                         *)
(* A request's payload is abstracted to the request's number, an artifact  *)
(* to the number of the request whose payload it was extracted from (0 is  *)
(* an empty column).  A row's id is its (source_type, source_id) key: the  *)
(* id is kept when a row is overwritten and no row is ever deleted.        *)
(***************************************************************************)
EXTENDS Naturals, FiniteSets

CONSTANTS
    Keys,           \* (source_type, source_id) pairs
    Clients,        \* request goroutines that may be submitting at once
    SignalBuffer,   \* EXTRACTION_SIGNAL_BUFFER
    JobExpiry,      \* EXTRACTION_JOB_EXPIRY, in clock ticks
    DbFaults,       \* the database calls that may fail
    MaxRequests,    \* bound: requests submitted in a behaviour
    MaxTime,        \* bound: clock ticks
    MaxExits,       \* bound: process exits
    MaxFaults       \* bound: failed database calls

DbCalls == {"upsert", "peek", "claim", "expire", "mark", "recover", "list"}

ASSUME KeysFinite == IsFiniteSet(Keys) /\ Keys # {}
ASSUME SignalBufferPositive == SignalBuffer \in Nat \ {0}
ASSUME JobExpiryNat == JobExpiry \in Nat
ASSUME DbFaultsKnown == DbFaults \subseteq DbCalls

VARIABLES
    rows,       \* the extractions table, one row per key
    signals,    \* wake signals in the notifier's channel
    client,     \* the Submit each request goroutine is executing
    worker,     \* the worker goroutine
    proc,       \* the life of the process
    cancelled,  \* the application context is cancelled
    now,        \* the wall clock
    issued,     \* requests submitted so far
    exits,      \* process exits so far
    faults      \* failed database calls so far

vars == <<rows, signals, client, worker, proc, cancelled, now, issued, exits, faults>>

-----------------------------------------------------------------------------
(* The row and the local state of each goroutine.                          *)

ExtractorReasons == {"scanned_pdf", "parse_failed", "extractor_failure"}
FailureReasons == ExtractorReasons \cup {"too_large", "expired", "process_restart"}
JobStatuses == {"pending", "running", "done", "failed"}

Row == [status : JobStatuses \cup {"absent"}, created : Nat, request : Nat,
        artifact : Nat, reason : FailureReasons \cup {""}]
NoRow == [status |-> "absent", created |-> 0, request |-> 0, artifact |-> 0, reason |-> ""]

\* Upsert's fresh row, and the columns overwriteOnConflict resets.
PendingRow(request, stamp) ==
    [status |-> "pending", created |-> stamp, request |-> request, artifact |-> 0, reason |-> ""]

ClientState == [pc : {"idle", "create", "conflict", "notify"}, key : Keys,
                request : Nat, stamp : Nat]

\* "select" is run's select; "drain" the top of drain's loop; the other places
\* hold the row that was peeked.  outcome is what Extract and the word gate gave.
WorkerPcs == {"off", "select", "drain", "peeked", "expire", "claim", "extract", "mark", "stopped"}
Outcomes == ExtractorReasons \cup {"too_large", "ok"}
WorkerState == [pc : WorkerPcs, key : Keys, request : Nat, created : Nat,
                outcome : Outcomes, claimed : Nat]

Pending == {k \in Keys : rows[k].status = "pending"}
Running == {k \in Keys : rows[k].status = "running"}

TypeOK ==
    /\ rows \in [Keys -> Row]
    /\ signals \in 0..SignalBuffer
    /\ client \in [Clients -> ClientState]
    /\ worker \in WorkerState
    /\ proc \in {"down", "recovered", "signalled", "up"}
    /\ cancelled \in BOOLEAN
    /\ now \in Nat
    /\ issued \in Nat
    /\ exits \in Nat
    /\ faults \in Nat

SomeKey == CHOOSE k \in Keys : TRUE
IdleClient == [pc |-> "idle", key |-> SomeKey, request |-> 0, stamp |-> 0]
IdleWorker(pc) == [pc |-> pc, key |-> SomeKey, request |-> 0, created |-> 0,
                   outcome |-> "ok", claimed |-> 0]

Init ==
    /\ rows = [k \in Keys |-> NoRow]
    /\ signals = 0
    /\ client = [c \in Clients |-> IdleClient]
    /\ worker = IdleWorker("off")
    /\ proc = "down"
    /\ cancelled = FALSE
    /\ now = 0
    /\ issued = 0
    /\ exits = 0
    /\ faults = 0

\* A database call that fails and leaves the table alone.
Fails(call) == call \in DbFaults /\ faults < MaxFaults /\ faults' = faults + 1

-----------------------------------------------------------------------------
(* Submit, run by one request goroutine per client.                        *)

\* Mutant: the buffer's capacity is not looked at.
AfterNotifyUnbounded(n) == n + 1

\* Notify is a non-blocking send: a full buffer drops the signal.
AfterNotify(n) == IF n < SignalBuffer THEN n + 1 ELSE n

Settled(c) == client' = [client EXCEPT ![c] = IdleClient]

\* A validated request; Upsert reads the clock before it touches the table.
SubmitArrives(c, k) ==
    /\ proc = "up" /\ client[c].pc = "idle" /\ issued < MaxRequests
    /\ issued' = issued + 1
    /\ client' = [client EXCEPT ![c] = [pc |-> "create", key |-> k, request |-> issued + 1, stamp |-> now]]
    /\ UNCHANGED <<rows, signals, worker, proc, cancelled, now, exits, faults>>

\* The INSERT either adds the row or hits the unique index.
UpsertCreate(c) ==
    LET k == client[c].key
        fresh == rows[k].status = "absent"
    IN  /\ client[c].pc = "create"
        /\ rows' = IF fresh
                   THEN [rows EXCEPT ![k] = PendingRow(client[c].request, client[c].stamp)]
                   ELSE rows
        /\ client' = [client EXCEPT ![c].pc = IF fresh THEN "notify" ELSE "conflict"]
        /\ UNCHANGED <<signals, worker, proc, cancelled, now, issued, exits, faults>>

\* Mutant: the overwrite resets the status but forgets the result columns.
UpsertOverwriteKeepsResult(c) ==
    LET k == client[c].key
    IN  /\ client[c].pc = "conflict"
        /\ rows' = [rows EXCEPT ![k].status = "pending", ![k].created = client[c].stamp,
                                ![k].request = client[c].request]
        /\ client' = [client EXCEPT ![c].pc = "notify"]
        /\ UNCHANGED <<signals, worker, proc, cancelled, now, issued, exits, faults>>

\* overwriteOnConflict's transaction, whatever status the row has by now.
UpsertOverwrite(c) ==
    LET k == client[c].key
    IN  /\ client[c].pc = "conflict"
        /\ rows' = [rows EXCEPT ![k] = PendingRow(client[c].request, client[c].stamp)]
        /\ client' = [client EXCEPT ![c].pc = "notify"]
        /\ UNCHANGED <<signals, worker, proc, cancelled, now, issued, exits, faults>>

UpsertFails(c) ==
    /\ client[c].pc \in {"create", "conflict"}
    /\ Fails("upsert")
    /\ Settled(c)
    /\ UNCHANGED <<rows, signals, worker, proc, cancelled, now, issued, exits>>

Notify(c) ==
    /\ client[c].pc = "notify"
    /\ signals' = AfterNotify(signals)
    /\ Settled(c)
    /\ UNCHANGED <<rows, worker, proc, cancelled, now, issued, exits, faults>>

Submit(c) == UpsertCreate(c) \/ UpsertOverwrite(c) \/ UpsertFails(c) \/ Notify(c)

-----------------------------------------------------------------------------
(* The worker goroutine: run, drain and Process.                           *)

Goto(pc) == worker' = [worker EXCEPT !.pc = pc]

\* The peeked row is a local of one iteration of drain.
Release(pc) == worker' = IdleWorker(pc)

\* Every worker call carries the application context.
CallFails(call) ==
    \/ cancelled /\ UNCHANGED faults
    \/ Fails(call)

WorkerOnly == UNCHANGED <<rows, signals, client, proc, cancelled, now, issued, exits>>

WorkerWake ==
    /\ worker.pc = "select" /\ signals > 0
    /\ signals' = signals - 1
    /\ Release("drain")
    /\ UNCHANGED <<rows, client, proc, cancelled, now, issued, exits, faults>>

WorkerStop ==
    /\ worker.pc = "select" /\ cancelled
    /\ Release("stopped")
    /\ WorkerOnly /\ UNCHANGED faults

\* The oldest pending row, copied into the worker's memory.
Oldest(k) == k \in Pending /\ \A j \in Pending : rows[k].created <= rows[j].created

Peek(k) ==
    /\ worker.pc = "drain" /\ ~cancelled
    /\ Oldest(k)
    /\ worker' = [worker EXCEPT !.pc = "peeked", !.key = k,
                                !.request = rows[k].request, !.created = rows[k].created]
    /\ WorkerOnly /\ UNCHANGED faults

\* drain returns to the select: nothing pending, or the peek failed.
DrainEnds ==
    /\ worker.pc = "drain"
    /\ \/ Pending = {} /\ UNCHANGED faults
       \/ CallFails("peek")
    /\ Release("select")
    /\ WorkerOnly

\* clock.Now().After(created_at + job_expiry) on the peeked copy.
PastExpiry(created) == now > created + JobExpiry

CheckExpiry ==
    /\ worker.pc = "peeked"
    /\ Goto(IF PastExpiry(worker.created) THEN "expire" ELSE "claim")
    /\ WorkerOnly /\ UNCHANGED faults

\* Mutant: the UPDATE matches on the id alone.
InStatusUnchecked(k, prior) == rows[k].status # "absent"

\* UPDATE ... WHERE id = k AND status = prior: no row matches unless it holds.
InStatus(k, prior) == rows[k].status = prior

\* MarkFailed(expired) asks for a pending row.
MarkExpired ==
    /\ worker.pc = "expire" /\ ~cancelled
    /\ rows' = IF InStatus(worker.key, "pending")
               THEN [rows EXCEPT ![worker.key].status = "failed", ![worker.key].reason = "expired"]
               ELSE rows
    /\ Release("drain")
    /\ UNCHANGED <<signals, client, proc, cancelled, now, issued, exits, faults>>

\* ClaimPending took the row; claimed records which request it took.
Claim ==
    /\ worker.pc = "claim" /\ ~cancelled
    /\ InStatus(worker.key, "pending")
    /\ rows' = [rows EXCEPT ![worker.key].status = "running"]
    /\ worker' = [worker EXCEPT !.pc = "extract", !.claimed = rows[worker.key].request]
    /\ UNCHANGED <<signals, client, proc, cancelled, now, issued, exits, faults>>

\* MarkFailed(expired) or ClaimPending failed, or ClaimPending matched no row.
PickupFails ==
    /\ \/ worker.pc = "expire" /\ CallFails("expire")
       \/ worker.pc = "claim" /\ CallFails("claim")
       \/ worker.pc = "claim" /\ ~InStatus(worker.key, "pending") /\ UNCHANGED faults
    /\ Release("drain")
    /\ WorkerOnly

\* Extract returned and, on success, Normalize and the word gate decided.
ExtractReturns ==
    /\ worker.pc = "extract"
    /\ \E out \in Outcomes :
         /\ cancelled => out \notin ExtractorReasons
         /\ worker' = [worker EXCEPT !.pc = "mark", !.outcome = out]
    /\ WorkerOnly /\ UNCHANGED faults

\* An extractor error under a cancelled context writes nothing.
ExtractCancelled ==
    /\ worker.pc = "extract" /\ cancelled
    /\ Release("select")
    /\ WorkerOnly /\ UNCHANGED faults

\* The columns MarkDone and MarkFailed set, from the peeked payload.
Finished(row) ==
    IF worker.outcome = "ok"
    THEN [row EXCEPT !.status = "done", !.artifact = worker.request]
    ELSE [row EXCEPT !.status = "failed", !.reason = worker.outcome]

\* Mutant: one row per wake, back to the select instead of the next peek.
MarkThenWait ==
    /\ worker.pc = "mark" /\ ~cancelled
    /\ rows' = IF InStatus(worker.key, "running")
               THEN [rows EXCEPT ![worker.key] = Finished(rows[worker.key])]
               ELSE rows
    /\ Release("select")
    /\ UNCHANGED <<signals, client, proc, cancelled, now, issued, exits, faults>>

Mark ==
    /\ worker.pc = "mark" /\ ~cancelled
    /\ rows' = IF InStatus(worker.key, "running")
               THEN [rows EXCEPT ![worker.key] = Finished(rows[worker.key])]
               ELSE rows
    /\ Release("drain")
    /\ UNCHANGED <<signals, client, proc, cancelled, now, issued, exits, faults>>

MarkFails ==
    /\ worker.pc = "mark"
    /\ CallFails("mark")
    /\ Release("drain")
    /\ WorkerOnly

WorkerStep ==
    \/ WorkerWake \/ WorkerStop
    \/ \E k \in Keys : Peek(k)
    \/ DrainEnds \/ CheckExpiry \/ MarkExpired \/ Claim \/ PickupFails
    \/ ExtractReturns \/ ExtractCancelled \/ Mark \/ MarkFails

-----------------------------------------------------------------------------
(* Boot, cancellation and exit of the process.                             *)

\* Mutant: running rows survive a restart.
RecoveredNothing(row) == row

Recovered(row) ==
    IF row.status = "running"
    THEN [row EXCEPT !.status = "failed", !.reason = "process_restart"]
    ELSE row

RecoverRunningOnStartup ==
    /\ proc = "down"
    /\ proc' = "recovered"
    /\ rows' = [k \in Keys |-> Recovered(rows[k])]
    /\ UNCHANGED <<signals, client, worker, cancelled, now, issued, exits, faults>>

\* Mutant: boot forgets the pending rows.
SelfSignalNever(n) == 0

\* One non-blocking Notify for each pending row.
SelfSignal(n) == IF n < SignalBuffer THEN n ELSE SignalBuffer

ListPending ==
    /\ proc = "recovered"
    /\ proc' = "signalled"
    /\ signals' = SelfSignal(Cardinality(Pending))
    /\ UNCHANGED <<rows, client, worker, cancelled, now, issued, exits, faults>>

\* NewApp returns the error and the process ends.
BootFails ==
    /\ \/ proc = "down" /\ Fails("recover")
       \/ proc = "recovered" /\ Fails("list")
    /\ proc' = "down"
    /\ UNCHANGED <<rows, signals, client, worker, cancelled, now, issued, exits>>

StartWorker ==
    /\ proc = "signalled"
    /\ proc' = "up"
    /\ worker' = IdleWorker("select")
    /\ UNCHANGED <<rows, signals, client, cancelled, now, issued, exits, faults>>

Boot == RecoverRunningOnStartup \/ ListPending \/ BootFails \/ StartWorker

\* The context given to NewApp is cancelled; Shutdown follows.
Cancel ==
    /\ proc = "up" /\ ~cancelled /\ exits < MaxExits
    /\ cancelled' = TRUE
    /\ UNCHANGED <<rows, signals, client, worker, proc, now, issued, exits, faults>>

\* The process ends: its memory is gone, the table stays.
ProcessEnds ==
    /\ exits' = exits + 1
    /\ proc' = "down"
    /\ cancelled' = FALSE
    /\ signals' = 0
    /\ client' = [c \in Clients |-> IdleClient]
    /\ worker' = IdleWorker("off")
    /\ UNCHANGED <<rows, now, issued, faults>>

\* Shutdown's Worker.Stop returns only once the worker goroutine has.
Shutdown == cancelled /\ worker.pc = "stopped" /\ ProcessEnds

Crash == proc # "down" /\ exits < MaxExits /\ ProcessEnds

Tick ==
    /\ now < MaxTime
    /\ now' = now + 1
    /\ UNCHANGED <<rows, signals, client, worker, proc, cancelled, issued, exits, faults>>

Next ==
    \/ \E c \in Clients, k \in Keys : SubmitArrives(c, k)
    \/ \E c \in Clients : Submit(c)
    \/ WorkerStep
    \/ Boot \/ Cancel \/ Shutdown \/ Crash \/ Tick

Spec == Init /\ [][Next]_vars

\* A goroutine that can run does run (Extract returns: the extractor has a
\* timeout), a stopped process is started again, and a cancelled one ends.
Fairness ==
    /\ WF_vars(WorkerStep)
    /\ \A c \in Clients : WF_vars(Submit(c))
    /\ WF_vars(Boot)
    /\ WF_vars(Shutdown)

FairSpec == Spec /\ Fairness

-----------------------------------------------------------------------------
(* Properties.                                                             *)

Terminal == {"done", "failed"}

\* No lost wakeup: unless a failed peek ate one, a worker parked on its select
\* while a row is pending has a wake signal waiting, or a Submit about to send
\* one: the channel may drop signals, but never the last that matters.
NoLostWakeup ==
    "peek" \notin DbFaults /\ worker.pc = "select" /\ ~cancelled /\ Pending # {}
      => signals > 0 \/ \E c \in Clients : client[c].pc = "notify"

\* A row in running belongs to the worker of this very process: what an earlier
\* process left behind is recovered before the worker starts, and resubmission,
\* failed claims and late results never strand a row (a failed Mark does).
RunningIsOwned ==
    "mark" \notin DbFaults /\ proc # "down" /\ ~cancelled
      => \A k \in Running : worker.pc \in {"extract", "mark"} /\ worker.key = k

\* Between the peek and the claim only resubmission touches the peeked row, so
\* MarkFailed(expired) and ClaimPending always find it pending.
PickupNeverConflicts ==
    worker.pc \in {"peeked", "expire", "claim"} => rows[worker.key].status = "pending"

\* From the peek to the Mark the row in the worker's hands is the worker's alone, and no
\* other row is running.
WorkerOwnsItsRows == RunningIsOwned /\ PickupNeverConflicts

\* The artifact columns are filled exactly on done rows and the failure columns
\* exactly on failed ones, through every resubmission, failure and restart.
ResultMatchesStatus ==
    \A k \in Keys : /\ rows[k].artifact # 0 <=> rows[k].status = "done"
                    /\ rows[k].reason # "" <=> rows[k].status = "failed"

\* An extraction overtaken by a resubmission never writes its result: whatever
\* the worker marks is still the request it claimed.
LateResultDiscarded ==
    [][\A k \in Keys : worker.pc = "mark" /\ rows'[k].status \in Terminal /\ rows'[k] # rows[k]
         => rows[k].status = "running" /\ rows[k].request = worker.claimed]_vars

\* Seen through their statuses, the rows are jobs of the abstract lifecycle.
Lifecycle == INSTANCE JobLifecycle WITH state <- [k \in Keys |-> rows[k].status]
ImplementsLifecycle == Lifecycle!Spec

\* Every accepted request is driven to a terminal state, across crashes,
\* cancellations and failing claims, without a further request.
RequestsSettle ==
    \A k \in Keys : rows[k].status \in {"pending", "running"} ~> rows[k].status \in Terminal

\* The requirements: a resubmission gets a full expiry window.
FullExpiryWindow ==
    [][\A k \in Keys : rows'[k].reason = "expired" /\ rows[k].reason # "expired"
         => PastExpiry(rows[k].created)]_vars

\* The model's comment: the worker reads its inputs from the row, so a done row
\* carries the artifact of its own request.
DoneFromOwnRequest == \A k \in Keys : rows[k].status = "done" => rows[k].artifact = rows[k].request

=============================================================================
