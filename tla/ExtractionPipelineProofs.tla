---------------------- MODULE ExtractionPipelineProofs ----------------------
(***************************************************************************)
(* Proofs about ExtractionPipeline, for every set of keys and clients,     *)
(* every buffer, expiry and bound, and every set of database faults; about *)
(* its composition with the calls of Analyze that read its rows; and about *)
(* Normalize, which makes the artifact that its worker stores, for every   *)
(* markdown of any length.                                                 *)
(***************************************************************************)
EXTENDS ExtractAndAnalyze, Normalize, FiniteSetTheorems, TLAPS

(* The memory of a process that is not up, and of a client that is not     *)
(* submitting, is empty; the application context belongs to a live one.    *)
MemoryMatchesProcess ==
    /\ worker.pc = "off" <=> proc # "up"
    /\ proc # "up" => \A c \in Clients : client[c].pc = "idle"
    /\ cancelled => proc = "up"

\* Boot has signalled for whatever pending rows it is about to serve.
BootSignalled == proc = "signalled" /\ Pending # {} => signals > 0

\* The worker's claim holds for as long as the row stays in running.
ClaimedIsCurrent ==
    worker.pc \in {"extract", "mark"} /\ rows[worker.key].status = "running"
      => rows[worker.key].request = worker.claimed

IInv ==
    /\ MemoryMatchesProcess
    /\ BootSignalled
    /\ NoLostWakeup
    /\ RunningIsOwned
    /\ PickupNeverConflicts
    /\ ClaimedIsCurrent

-----------------------------------------------------------------------------
(* Lemmas.                                                                 *)

\* The arbitrary key that idle goroutines hold is one of the table's keys.
LEMMA SomeKeyIsKey == SomeKey \in Keys
  BY KeysFinite DEF SomeKey

\* The clock-free local states that goroutines start from are well typed.
LEMMA IdleTypes ==
    /\ IdleClient \in ClientState
    /\ \A pc \in WorkerPcs : IdleWorker(pc) \in WorkerState
  BY SomeKeyIsKey DEF IdleClient, IdleWorker, ClientState, WorkerState, Outcomes

\* Counting the pending rows: none only when there are none.
LEMMA PendingCount ==
    /\ Cardinality(Pending) \in Nat
    /\ Pending # {} => Cardinality(Pending) > 0
<1>1. IsFiniteSet(Pending)
  BY KeysFinite, FS_Subset DEF Pending
<1>2. Cardinality(Pending) \in Nat /\ (Cardinality(Pending) = 0 <=> Pending = {})
  BY <1>1, FS_CardinalityType, FS_EmptySet
<1>3. QED
  BY <1>2

\* Boot sends at least one signal when anything is pending.
LEMMA ListPendingSignals ==
    ASSUME ListPending, Pending # {}
    PROVE  signals' > 0
  BY PendingCount, SignalBufferPositive DEF ListPending, SelfSignal

\* A failed call leaves a well-typed fault counter.
LEMMA FailsType ==
    ASSUME faults \in Nat, NEW call, Fails(call) \/ CallFails(call) \/ UNCHANGED faults
    PROVE  faults' \in Nat
  BY DEF Fails, CallFails

\* The row Upsert writes, fresh or overwritten, is a well-typed pending row.
LEMMA PendingRowType ==
    \A request, stamp \in Nat : PendingRow(request, stamp) \in Row
  BY DEF PendingRow, Row, JobStatuses, FailureReasons

-----------------------------------------------------------------------------
(* Type correctness.                                                       *)

\* Every reachable state is well typed; in particular the notifier's channel
\* never holds more than its buffer and no row leaves the job statuses.
THEOREM TypeCorrect == Spec => []TypeOK
<1>1. ASSUME Init PROVE TypeOK
  <2>1. NoRow \in Row
    BY DEF NoRow, Row
  <2>2. rows \in [Keys -> Row] /\ cancelled \in BOOLEAN
    BY <1>1, <2>1 DEF Init
  <2>3. "off" \in WorkerPcs /\ signals \in 0..SignalBuffer
    BY <1>1, SignalBufferPositive DEF Init, WorkerPcs
  <2>4. worker \in WorkerState /\ client \in [Clients -> ClientState]
    BY <1>1, <2>3, IdleTypes DEF Init
  <2>5. /\ proc \in {"down", "recovered", "signalled", "up"}
        /\ now \in Nat /\ issued \in Nat /\ exits \in Nat /\ faults \in Nat
    BY <1>1 DEF Init
  <2>6. QED
    BY <2>2, <2>3, <2>4, <2>5 DEF TypeOK
<1>2. TypeOK /\ [Next]_vars => TypeOK'
  <2> SUFFICES ASSUME TypeOK, [Next]_vars PROVE TypeOK'
    OBVIOUS
  <2> USE DEF TypeOK
  <2>1. ASSUME NEW c \in Clients, NEW k \in Keys, SubmitArrives(c, k) PROVE TypeOK'
    BY <2>1 DEF SubmitArrives, ClientState
  <2>2. ASSUME NEW c \in Clients, UpsertCreate(c) PROVE TypeOK'
    BY <2>2, PendingRowType DEF UpsertCreate, ClientState
  <2>3. ASSUME NEW c \in Clients, UpsertOverwrite(c) PROVE TypeOK'
    BY <2>3, PendingRowType DEF UpsertOverwrite, ClientState
  <2>4. ASSUME NEW c \in Clients, UpsertFails(c) PROVE TypeOK'
    BY <2>4, IdleTypes, FailsType DEF UpsertFails, Settled
  <2>5. ASSUME NEW c \in Clients, Notify(c) PROVE TypeOK'
    BY <2>5, IdleTypes, SignalBufferPositive DEF Notify, Settled, AfterNotify
  <2>6. CASE WorkerWake
    BY <2>6, IdleTypes, SignalBufferPositive DEF WorkerWake, Release, WorkerPcs
  <2>7. CASE WorkerStop
    BY <2>7, IdleTypes DEF WorkerStop, Release, WorkerPcs, WorkerOnly
  <2>8. ASSUME NEW k \in Keys, Peek(k) PROVE TypeOK'
    BY <2>8 DEF Peek, WorkerOnly, WorkerState, WorkerPcs, Row
  <2>9. CASE DrainEnds
    BY <2>9, IdleTypes, FailsType DEF DrainEnds, Release, WorkerPcs, WorkerOnly
  <2>10. CASE CheckExpiry
    BY <2>10 DEF CheckExpiry, Goto, WorkerOnly, WorkerState, WorkerPcs
  <2>11. CASE MarkExpired
    <3>1. worker.key \in Keys /\ "drain" \in WorkerPcs
      BY DEF WorkerState, WorkerPcs
    <3>2. [rows EXCEPT ![worker.key].status = "failed", ![worker.key].reason = "expired"] \in [Keys -> Row]
      <4>1. [rows[worker.key] EXCEPT !.status = "failed", !.reason = "expired"] \in Row
        BY <3>1 DEF Row, JobStatuses, FailureReasons
      <4>2. [rows EXCEPT ![worker.key].status = "failed", ![worker.key].reason = "expired"]
              = [rows EXCEPT ![worker.key] =
                   [rows[worker.key] EXCEPT !.status = "failed", !.reason = "expired"]]
        BY <3>1
      <4>3. QED
        BY <4>1, <4>2
    <3>3. QED
      BY <2>11, <3>1, <3>2, IdleTypes DEF MarkExpired, Release
  <2>12. CASE Claim
    <3>1. worker.key \in Keys /\ rows[worker.key] \in Row
      BY DEF WorkerState
    <3>2. [rows[worker.key] EXCEPT !.status = "running"] \in Row
      BY <3>1 DEF Row, JobStatuses
    <3>3. rows' \in [Keys -> Row]
      BY <2>12, <3>1, <3>2 DEF Claim
    <3>4. rows[worker.key].request \in Nat
      BY <3>1 DEF Row
    <3>5. worker' \in WorkerState
      BY <2>12, <3>4 DEF Claim, WorkerState, WorkerPcs
    <3>6. QED
      BY <2>12, <3>3, <3>5 DEF Claim
  <2>13. CASE PickupFails
    BY <2>13, IdleTypes, FailsType DEF PickupFails, Release, WorkerPcs, WorkerOnly
  <2>14. CASE ExtractReturns
    BY <2>14 DEF ExtractReturns, WorkerOnly, WorkerState, WorkerPcs
  <2>15. CASE ExtractCancelled
    BY <2>15, IdleTypes DEF ExtractCancelled, Release, WorkerPcs, WorkerOnly
  <2>16. CASE Mark
    <3>1. worker.key \in Keys /\ "drain" \in WorkerPcs
      BY DEF WorkerState, WorkerPcs
    <3>2. rows[worker.key] \in Row /\ worker.request \in Nat /\ worker.outcome \in Outcomes
      BY <3>1 DEF WorkerState
    <3>3. Finished(rows[worker.key]) \in Row
      BY <3>2 DEF Finished, Row, Outcomes, FailureReasons, JobStatuses
    <3>4. QED
      BY <2>16, <3>1, <3>3, IdleTypes DEF Mark, Release
  <2>17. CASE MarkFails
    BY <2>17, IdleTypes, FailsType DEF MarkFails, Release, WorkerPcs, WorkerOnly
  <2>18. CASE RecoverRunningOnStartup
    <3>1. \A k \in Keys : Recovered(rows[k]) \in Row
      BY DEF Recovered, Row, FailureReasons, JobStatuses
    <3>2. QED
      BY <2>18, <3>1 DEF RecoverRunningOnStartup
  <2>19. CASE ListPending
    BY <2>19, PendingCount, SignalBufferPositive DEF ListPending, SelfSignal
  <2>20. CASE BootFails
    BY <2>20, FailsType DEF BootFails
  <2>21. CASE StartWorker
    BY <2>21, IdleTypes DEF StartWorker, WorkerPcs
  <2>22. CASE Cancel
    BY <2>22 DEF Cancel
  <2>23. CASE ProcessEnds
    <3>1. "off" \in WorkerPcs /\ 0 \in 0..SignalBuffer
      BY SignalBufferPositive DEF WorkerPcs
    <3>2. IdleWorker("off") \in WorkerState /\ [c \in Clients |-> IdleClient] \in [Clients -> ClientState]
      BY <3>1, IdleTypes
    <3>3. cancelled' \in BOOLEAN /\ UNCHANGED <<rows, now, issued, faults>>
      BY <2>23 DEF ProcessEnds
    <3>4. exits' \in Nat /\ proc' \in {"down", "recovered", "signalled", "up"}
      BY <2>23 DEF ProcessEnds
    <3>5. signals' \in 0..SignalBuffer /\ worker' \in WorkerState /\ client' \in [Clients -> ClientState]
      BY <2>23, <3>1, <3>2 DEF ProcessEnds
    <3>6. QED
      BY <3>3, <3>4, <3>5
  <2>24. CASE Tick
    BY <2>24 DEF Tick
  <2>25. CASE UNCHANGED vars
    BY <2>25 DEF vars
  <2>26. QED
    BY <2>1, <2>2, <2>3, <2>4, <2>5, <2>6, <2>7, <2>8, <2>9, <2>10, <2>11, <2>12, <2>13, <2>14,
       <2>15, <2>16, <2>17, <2>18, <2>19, <2>20, <2>21, <2>22, <2>23, <2>24, <2>25
       DEF Next, Submit, WorkerStep, Boot, Shutdown, Crash
<1>3. QED
  BY <1>1, <1>2, PTL DEF Spec

-----------------------------------------------------------------------------
(* The inductive invariant, on top of type correctness.                    *)

\* What each kind of step may assume: the pre-state is typed and satisfies IInv.
LEMMA IInvInductive ==
    ASSUME TypeOK, TypeOK', IInv, [Next]_vars
    PROVE  IInv'
<1> USE DEF IInv, TypeOK, MemoryMatchesProcess, BootSignalled, NoLostWakeup, RunningIsOwned,
            PickupNeverConflicts, ClaimedIsCurrent, Pending, Running
<1>1. ASSUME NEW c \in Clients, NEW k \in Keys, SubmitArrives(c, k) PROVE IInv'
  BY <1>1 DEF SubmitArrives, ClientState
<1>2. ASSUME NEW c \in Clients, UpsertCreate(c) PROVE IInv'
  <2>1. CASE rows[client[c].key].status = "absent"
    <3>1. proc = "up" /\ proc' = "up" /\ UNCHANGED <<worker, cancelled, signals>>
      BY <1>2 DEF UpsertCreate
    <3>2. client'[c].pc = "notify"
      BY <1>2, <2>1 DEF UpsertCreate, ClientState
    <3>3. \A k \in Keys : \/ rows'[k] = rows[k]
                          \/ rows[k].status = "absent" /\ rows'[k].status = "pending"
      BY <1>2, <2>1 DEF UpsertCreate, PendingRow
    <3>4. MemoryMatchesProcess' /\ BootSignalled' /\ NoLostWakeup'
      BY <3>1, <3>2
    <3>5. RunningIsOwned' /\ PickupNeverConflicts' /\ ClaimedIsCurrent'
      BY <3>1, <3>3 DEF WorkerState
    <3>6. QED
      BY <3>4, <3>5
  <2>2. CASE rows[client[c].key].status # "absent"
    <3>1. proc = "up" /\ proc' = "up" /\ UNCHANGED <<rows, worker, cancelled, signals>>
      BY <1>2, <2>2 DEF UpsertCreate
    <3>2. \A d \in Clients : client[d].pc = "notify" => client'[d].pc = "notify"
      BY <1>2, <2>2 DEF UpsertCreate
    <3>3. QED
      BY <3>1, <3>2
  <2>3. QED
    BY <2>1, <2>2
<1>3. ASSUME NEW c \in Clients, UpsertOverwrite(c) PROVE IInv'
  <2>1. proc = "up" /\ proc' = "up" /\ UNCHANGED <<worker, cancelled, signals>>
    BY <1>3 DEF UpsertOverwrite
  <2>2. client'[c].pc = "notify"
    BY <1>3 DEF UpsertOverwrite, ClientState
  <2>3. \A k \in Keys : rows'[k] = rows[k] \/ rows'[k].status = "pending"
    BY <1>3 DEF UpsertOverwrite, PendingRow
  <2>4. MemoryMatchesProcess' /\ BootSignalled' /\ NoLostWakeup'
    BY <2>1, <2>2
  <2>5. RunningIsOwned' /\ PickupNeverConflicts' /\ ClaimedIsCurrent'
    BY <2>1, <2>3 DEF WorkerState
  <2>6. QED
    BY <2>4, <2>5
<1>4. ASSUME NEW c \in Clients, UpsertFails(c) PROVE IInv'
  BY <1>4 DEF UpsertFails, Settled, IdleClient, ClientState
<1>5. ASSUME NEW c \in Clients, Notify(c) PROVE IInv'
  BY <1>5, SignalBufferPositive DEF Notify, Settled, AfterNotify, IdleClient, ClientState
<1>6. CASE WorkerWake
  BY <1>6 DEF WorkerWake, Release, IdleWorker
<1>7. CASE WorkerStop
  BY <1>7 DEF WorkerStop, WorkerOnly, Release, IdleWorker
<1>8. ASSUME NEW k \in Keys, Peek(k) PROVE IInv'
  BY <1>8 DEF Peek, Oldest, WorkerOnly, WorkerState
<1>9. CASE DrainEnds
  BY <1>9 DEF DrainEnds, CallFails, Fails, WorkerOnly, Release, IdleWorker
<1>10. CASE CheckExpiry
  BY <1>10 DEF CheckExpiry, Goto, WorkerOnly, WorkerState
<1>11. CASE MarkExpired
  BY <1>11 DEF MarkExpired, InStatus, Release, IdleWorker, WorkerState
<1>12. CASE Claim
  BY <1>12 DEF Claim, InStatus, WorkerState
<1>13. CASE PickupFails
  BY <1>13 DEF PickupFails, CallFails, Fails, WorkerOnly, Release, IdleWorker
<1>14. CASE ExtractReturns
  BY <1>14 DEF ExtractReturns, WorkerOnly, WorkerState
<1>15. CASE ExtractCancelled
  BY <1>15 DEF ExtractCancelled, WorkerOnly, Release, IdleWorker
<1>16. CASE Mark
  BY <1>16 DEF Mark, InStatus, Finished, Release, IdleWorker, WorkerState
<1>17. CASE MarkFails
  BY <1>17 DEF MarkFails, CallFails, Fails, WorkerOnly, Release, IdleWorker
<1>18. CASE RecoverRunningOnStartup
  <2>1. \A k \in Keys : rows'[k].status # "running"
    BY <1>18 DEF RecoverRunningOnStartup, Recovered, Row
  <2>2. proc' = "recovered" /\ worker.pc = "off" /\ UNCHANGED <<client, worker, cancelled>>
    BY <1>18 DEF RecoverRunningOnStartup
  <2>3. QED
    BY <1>18, <2>1, <2>2 DEF RecoverRunningOnStartup
<1>19. CASE ListPending
  <2>1. Pending # {} => signals' > 0
    <3> HIDE DEF Pending
    <3>1. QED
      BY <1>19, ListPendingSignals
  <2>2. proc = "recovered" /\ proc' = "signalled" /\ UNCHANGED <<rows, client, worker, cancelled>>
    BY <1>19 DEF ListPending
  <2>3. \A c \in Clients : client'[c].pc = "idle"
    BY <2>2
  <2>4. worker'.pc = "off" /\ proc' # "up"
    BY <2>2
  <2>5. MemoryMatchesProcess' /\ NoLostWakeup' /\ PickupNeverConflicts' /\ ClaimedIsCurrent'
    BY <2>2, <2>3, <2>4
  <2>6. RunningIsOwned'
    BY <2>2, <2>4
  <2>7. BootSignalled'
    BY <2>1, <2>2
  <2>8. QED
    BY <2>5, <2>6, <2>7
<1>20. CASE BootFails
  BY <1>20 DEF BootFails, Fails
<1>21. CASE StartWorker
  BY <1>21 DEF StartWorker, IdleWorker
<1>22. CASE Cancel
  BY <1>22 DEF Cancel
<1>23. CASE ProcessEnds
  BY <1>23 DEF ProcessEnds, IdleWorker, IdleClient
<1>24. CASE Tick
  BY <1>24 DEF Tick
<1>25. CASE UNCHANGED vars
  BY <1>25 DEF vars
<1>26. QED
  BY <1>1, <1>2, <1>3, <1>4, <1>5, <1>6, <1>7, <1>8, <1>9, <1>10, <1>11, <1>12, <1>13, <1>14,
     <1>15, <1>16, <1>17, <1>18, <1>19, <1>20, <1>21, <1>22, <1>23, <1>24, <1>25
     DEF Next, Submit, WorkerStep, Boot, Shutdown, Crash

\* The invariant of the whole pipeline.
THEOREM PipelineInvariant == Spec => []IInv
<1>1. Init => IInv
  BY DEF Init, IInv, MemoryMatchesProcess, BootSignalled, NoLostWakeup, RunningIsOwned,
         PickupNeverConflicts, ClaimedIsCurrent, Running, IdleClient, IdleWorker
<1>2. TypeOK /\ TypeOK' /\ IInv /\ [Next]_vars => IInv'
  BY IInvInductive
<1>3. QED
  BY <1>1, <1>2, TypeCorrect, PTL DEF Spec

-----------------------------------------------------------------------------
(* What follows from it.                                                   *)

\* However small the channel and however many requests race with the worker, a
\* parked worker has a signal coming whenever a row is pending.
THEOREM NoLostWakeupHolds == Spec => []NoLostWakeup
  BY PipelineInvariant, PTL DEF IInv

\* Every running row is in the hands of this process's worker.
THEOREM RunningIsOwnedHolds == Spec => []RunningIsOwned
  BY PipelineInvariant, PTL DEF IInv

\* The worker's expiry and claim updates always find their row pending, which is
\* what the repository port says of the single worker.
THEOREM PickupNeverConflictsHolds == Spec => []PickupNeverConflicts
  BY PipelineInvariant, PTL DEF IInv

\* From the peek to the Mark the worker's row is its alone, and no other is running.
THEOREM WorkerOwnsItsRowsHolds == Spec => []WorkerOwnsItsRows
<1>1. QED
  BY RunningIsOwnedHolds, PickupNeverConflictsHolds, PTL DEF WorkerOwnsItsRows

\* The result of an extraction that a resubmission overtook is never written.
THEOREM LateResultDiscardedHolds == Spec => LateResultDiscarded
<1> DEFINE Discard == \A k \in Keys :
             worker.pc = "mark" /\ rows'[k].status \in Terminal /\ rows'[k] # rows[k]
               => rows[k].status = "running" /\ rows[k].request = worker.claimed
<1>1. ASSUME TypeOK, IInv, [Next]_vars PROVE [Discard]_vars
  <2>1. CASE UNCHANGED rows
    BY <2>1
  <2>2. ASSUME NEW c \in Clients, UpsertCreate(c) \/ UpsertOverwrite(c) PROVE Discard
    <3>1. \A k \in Keys : rows'[k] = rows[k] \/ rows'[k].status = "pending"
      <4>1. CASE UpsertCreate(c)
        BY <1>1, <4>1 DEF UpsertCreate, PendingRow, TypeOK, ClientState
      <4>2. CASE UpsertOverwrite(c)
        BY <1>1, <4>2 DEF UpsertOverwrite, PendingRow, TypeOK, ClientState
      <4>3. QED
        BY <2>2, <4>1, <4>2
    <3>2. QED
      BY <3>1 DEF Terminal
  <2>3. CASE MarkExpired \/ Claim
    BY <2>3 DEF MarkExpired, Claim
  <2>4. CASE Mark
    BY <2>4, <1>1 DEF Mark, InStatus, IInv, ClaimedIsCurrent, TypeOK, WorkerState
  <2>5. CASE RecoverRunningOnStartup
    BY <2>5, <1>1 DEF RecoverRunningOnStartup, IInv, MemoryMatchesProcess
  <2>6. QED
    BY <1>1, <2>1, <2>2, <2>3, <2>4, <2>5
       DEF Next, Submit, WorkerStep, Boot, Shutdown, Crash, ProcessEnds, vars, SubmitArrives,
           UpsertFails, Notify, WorkerWake, WorkerStop, Peek, DrainEnds, CheckExpiry, PickupFails,
           ExtractReturns, ExtractCancelled, MarkFails, WorkerOnly, ListPending, BootFails,
           StartWorker, Cancel, Tick
<1>2. QED
  BY <1>1, TypeCorrect, PipelineInvariant, PTL DEF LateResultDiscarded, Spec

-----------------------------------------------------------------------------
(* The rows implement the abstract job lifecycle.                          *)

Statuses == [k \in Keys |-> rows[k].status]

\* A step that changes at most the status of one row changes Statuses there.
LEMMA StatusOf ==
    ASSUME TypeOK, NEW k \in Keys, NEW row, rows' = [rows EXCEPT ![k] = row]
    PROVE  Statuses' = [Statuses EXCEPT ![k] = row.status]
  BY DEF Statuses, TypeOK

\* A submission sends its row back to pending, or meets the one that is there.
LEMMA UpsertsRequest ==
    ASSUME TypeOK, NEW c \in Clients, UpsertCreate(c) \/ UpsertOverwrite(c)
    PROVE  UNCHANGED rows \/ \E k \in Keys : Statuses' = [Statuses EXCEPT ![k] = "pending"]
<1> DEFINE k == client[c].key
           row == PendingRow(client[c].request, client[c].stamp)
<1>1. k \in Keys /\ row.status = "pending"
  BY DEF TypeOK, ClientState, PendingRow
<1>2. CASE rows' = [rows EXCEPT ![k] = row]
  <2>1. Statuses' = [Statuses EXCEPT ![k] = "pending"]
    BY <1>1, <1>2, StatusOf
  <2>2. QED
    BY <1>1, <2>1
<1>3. QED
  BY <1>2 DEF UpsertCreate, UpsertOverwrite

\* What expires was pending.
LEMMA MarkExpiredFails ==
    ASSUME TypeOK, MarkExpired
    PROVE  \/ UNCHANGED rows
           \/ \E k \in Keys : Statuses[k] = "pending" /\ Statuses' = [Statuses EXCEPT ![k] = "failed"]
<1> DEFINE k == worker.key
<1>1. k \in Keys
  BY DEF TypeOK, WorkerState
<1>2. CASE rows[k].status = "pending"
  <2>1. Statuses' = [Statuses EXCEPT ![k] = "failed"] /\ Statuses[k] = "pending"
    BY <1>1, <1>2 DEF MarkExpired, InStatus, Statuses, TypeOK, Row
  <2>2. QED
    BY <1>1, <2>1
<1>3. QED
  BY <1>2 DEF MarkExpired, InStatus

\* A claim runs what was pending, while nothing else runs.
LEMMA ClaimBegins ==
    ASSUME "mark" \notin DbFaults, TypeOK, IInv, Claim
    PROVE  \E k \in Keys : /\ Statuses[k] = "pending" /\ Running = {}
                           /\ Statuses' = [Statuses EXCEPT ![k] = "running"]
<1> DEFINE k == worker.key
<1>1. k \in Keys
  BY DEF TypeOK, WorkerState
<1>2. Running = {}
  BY DEF Claim, IInv, MemoryMatchesProcess, RunningIsOwned, Running
<1>3. Statuses' = [Statuses EXCEPT ![k] = "running"] /\ Statuses[k] = "pending"
  BY <1>1 DEF Claim, InStatus, Statuses, TypeOK, Row
<1>4. QED
  BY <1>1, <1>2, <1>3

\* A result ends what was running.
LEMMA MarkEnds ==
    ASSUME TypeOK, Mark
    PROVE  \/ UNCHANGED rows
           \/ \E k \in Keys, s \in Terminal :
                Statuses[k] = "running" /\ Statuses' = [Statuses EXCEPT ![k] = s]
<1> DEFINE k == worker.key
           row == Finished(rows[k])
<1>1. k \in Keys /\ row.status \in Terminal
  BY DEF TypeOK, WorkerState, Finished, Row, Terminal
<1>2. CASE rows[k].status = "running"
  <2>1. Statuses' = [Statuses EXCEPT ![k] = row.status] /\ Statuses[k] = "running"
    BY <1>1, <1>2, StatusOf DEF Mark, InStatus, Statuses
  <2>2. QED
    BY <1>1, <2>1
<1>3. QED
  BY <1>2 DEF Mark, InStatus

\* Recovery fails what was running and nothing else.
LEMMA RecoveryFails ==
    ASSUME TypeOK, RecoverRunningOnStartup
    PROVE  Statuses' = [k \in Keys |-> IF Statuses[k] = "running" THEN "failed" ELSE Statuses[k]]
  BY DEF RecoverRunningOnStartup, Recovered, Statuses, TypeOK, Row

\* No other step writes a row.
LEMMA OnlyTheseWrite ==
    ASSUME [Next]_vars
    PROVE  \/ UNCHANGED rows
           \/ \E c \in Clients : UpsertCreate(c) \/ UpsertOverwrite(c)
           \/ MarkExpired \/ Claim \/ Mark \/ RecoverRunningOnStartup
  BY DEF Next, Submit, WorkerStep, Boot, Shutdown, Crash, ProcessEnds, vars, SubmitArrives,
         UpsertFails, Notify, WorkerWake, WorkerStop, Peek, DrainEnds, CheckExpiry, PickupFails,
         ExtractReturns, ExtractCancelled, MarkFails, WorkerOnly, ListPending, BootFails,
         StartWorker, Cancel, Tick

\* A pipeline step is a lifecycle step or leaves every status alone.
LEMMA LifecycleStep ==
    ASSUME "mark" \notin DbFaults, TypeOK, IInv, [Next]_vars
    PROVE  [Lifecycle!Next]_Statuses
<1> USE DEF Lifecycle!Next, Statuses
<1>1. CASE UNCHANGED rows
  BY <1>1
<1>2. ASSUME NEW c \in Clients, UpsertCreate(c) \/ UpsertOverwrite(c) PROVE [Lifecycle!Next]_Statuses
  BY <1>1, <1>2, UpsertsRequest DEF Lifecycle!Request
<1>3. CASE MarkExpired
  BY <1>1, <1>3, MarkExpiredFails DEF Lifecycle!Expire
<1>4. CASE Claim
  BY <1>4, ClaimBegins DEF Lifecycle!Begin, Lifecycle!Running, Running
<1>5. CASE Mark
  BY <1>1, <1>5, MarkEnds DEF Lifecycle!Finish, Lifecycle!Terminal, Terminal
<1>6. CASE RecoverRunningOnStartup
  BY <1>6, RecoveryFails DEF Lifecycle!Restart
<1>7. QED
  BY <1>1, <1>2, <1>3, <1>4, <1>5, <1>6, OnlyTheseWrite

\* As long as no Mark fails, the table is an implementation of the lifecycle the
\* repository port promises: in particular one job runs at a time.
THEOREM PipelineImplementsLifecycle ==
    ASSUME "mark" \notin DbFaults
    PROVE  Spec => ImplementsLifecycle
<1>1. ASSUME Init PROVE Lifecycle!Init
  <2>1. \A k \in Keys : rows[k].status = "absent"
    BY <1>1 DEF Init, NoRow
  <2>2. QED
    BY <2>1 DEF Lifecycle!Init
<1>2. TypeOK /\ IInv /\ [Next]_vars => [Lifecycle!Next]_Statuses
  BY LifecycleStep
<1>3. QED
  BY <1>1, <1>2, TypeCorrect, PipelineInvariant, PTL
     DEF ImplementsLifecycle, Lifecycle!Spec, Spec, Statuses

-----------------------------------------------------------------------------
(* Results and statuses.                                                   *)

\* 0 is the empty artifact column; no request has that number.
RowOK(row) ==
    /\ row.status # "absent" => row.request > 0
    /\ row.artifact # 0 <=> row.status = "done"
    /\ row.reason # "" <=> row.status = "failed"

RowsOK == \A k \in Keys : RowOK(rows[k])
ClientsOK == \A c \in Clients : client[c].pc \in {"create", "conflict"} => client[c].request > 0
WorkerOK == worker.pc \in {"peeked", "expire", "claim", "extract", "mark"} => worker.request > 0

\* Only Submit, the pickup, Mark and the boot's recovery write rows.
LEMMA RowsOKPreserved ==
    ASSUME TypeOK, RowsOK, ClientsOK, WorkerOK, [Next]_vars
    PROVE  RowsOK'
<1> USE DEF TypeOK, RowsOK
<1>1. CASE UNCHANGED rows
  BY <1>1
<1>2. ASSUME NEW c \in Clients, UpsertCreate(c) \/ UpsertOverwrite(c) PROVE RowsOK'
  <2> DEFINE fresh == PendingRow(client[c].request, client[c].stamp)
  <2>1. client[c].request > 0
    BY <1>2 DEF UpsertCreate, UpsertOverwrite, ClientsOK
  <2>2. RowOK(fresh)
    BY <2>1 DEF PendingRow, RowOK
  <2>3. \A k \in Keys : rows'[k] = rows[k] \/ rows'[k] = fresh
    <3>1. CASE UpsertCreate(c)
      BY <3>1 DEF UpsertCreate, ClientState
    <3>2. CASE UpsertOverwrite(c)
      BY <3>2 DEF UpsertOverwrite, ClientState
    <3>3. QED
      BY <1>2, <3>1, <3>2
  <2>4. QED
    BY <2>2, <2>3
<1>3. ASSUME NEW k \in Keys, NEW row, RowOK(row), rows' = [rows EXCEPT ![k] = row] PROVE RowsOK'
  BY <1>3
<1>4. CASE MarkExpired
  <2> DEFINE row == [rows[worker.key] EXCEPT !.status = "failed", !.reason = "expired"]
  <2>1. worker.key \in Keys /\ rows[worker.key] \in Row /\ RowOK(rows[worker.key])
    BY DEF WorkerState
  <2>2. CASE rows[worker.key].status = "pending"
    <3>1. RowOK(row)
      BY <2>1, <2>2 DEF RowOK, Row
    <3>2. rows' = [rows EXCEPT ![worker.key] = row]
      BY <1>4, <2>2 DEF MarkExpired, InStatus
    <3>3. QED
      BY <1>3, <2>1, <3>1, <3>2
  <2>3. QED
    BY <1>1, <1>4, <2>2 DEF MarkExpired, InStatus
<1>5. CASE Claim
  <2> DEFINE row == [rows[worker.key] EXCEPT !.status = "running"]
  <2>1. worker.key \in Keys /\ rows[worker.key] \in Row /\ RowOK(rows[worker.key])
    BY DEF WorkerState
  <2>2. RowOK(row)
    BY <1>5, <2>1 DEF Claim, InStatus, RowOK, Row
  <2>3. QED
    BY <1>3, <1>5, <2>1, <2>2 DEF Claim
<1>6. CASE Mark
  <2> DEFINE row == Finished(rows[worker.key])
  <2>1. worker.key \in Keys /\ rows[worker.key] \in Row /\ RowOK(rows[worker.key])
    BY DEF WorkerState
  <2>2. worker.request \in Nat /\ worker.request > 0 /\ worker.outcome \in Outcomes
    BY <1>6 DEF Mark, WorkerOK, WorkerState
  <2>3. CASE rows[worker.key].status = "running"
    <3>1. RowOK(row)
      <4>1. CASE worker.outcome = "ok"
        <5>1. row = [rows[worker.key] EXCEPT !.status = "done", !.artifact = worker.request]
          BY <4>1 DEF Finished
        <5>2. /\ row.status = "done" /\ row.artifact = worker.request
              /\ row.request = rows[worker.key].request /\ row.reason = rows[worker.key].reason
          BY <2>1, <5>1 DEF Row
        <5>3. rows[worker.key].reason = "" /\ rows[worker.key].request > 0
          BY <2>1, <2>3 DEF RowOK
        <5>4. row.artifact # 0
          BY <2>2, <5>2
        <5>5. row.request > 0
          BY <5>2, <5>3
        <5>6. row.reason = ""
          BY <5>2, <5>3
        <5>7. QED
          BY <5>2, <5>4, <5>5, <5>6 DEF RowOK
      <4>2. CASE worker.outcome # "ok"
        BY <2>1, <2>2, <2>3, <4>2 DEF RowOK, Row, Finished, Outcomes, ExtractorReasons
      <4>3. QED
        BY <4>1, <4>2
    <3>2. rows' = [rows EXCEPT ![worker.key] = row]
      BY <1>6, <2>3 DEF Mark, InStatus
    <3>3. QED
      BY <1>3, <2>1, <3>1, <3>2
  <2>4. QED
    BY <1>1, <1>6, <2>3 DEF Mark, InStatus
<1>7. CASE RecoverRunningOnStartup
  <2>1. \A k \in Keys : RowOK(Recovered(rows[k]))
    BY DEF Recovered, RowOK, Row
  <2>2. QED
    BY <1>7, <2>1 DEF RecoverRunningOnStartup
<1>8. QED
  BY <1>1, <1>2, <1>4, <1>5, <1>6, <1>7
     DEF Next, Submit, WorkerStep, Boot, Shutdown, Crash, ProcessEnds, vars, SubmitArrives,
         UpsertFails, Notify, WorkerWake, WorkerStop, Peek, DrainEnds, CheckExpiry, PickupFails,
         ExtractReturns, ExtractCancelled, MarkFails, WorkerOnly, ListPending, BootFails,
         StartWorker, Cancel, Tick

\* A Submit in flight always carries a request number that was issued.
LEMMA ClientsOKPreserved ==
    ASSUME TypeOK, ClientsOK, [Next]_vars
    PROVE  ClientsOK'
<1> USE DEF TypeOK, ClientsOK
<1>1. CASE UNCHANGED client
  BY <1>1
<1>2. ASSUME NEW c \in Clients, NEW k \in Keys, SubmitArrives(c, k) PROVE ClientsOK'
  BY <1>2 DEF SubmitArrives
<1>3. ASSUME NEW c \in Clients, UpsertCreate(c) PROVE ClientsOK'
  BY <1>3 DEF UpsertCreate, ClientState
<1>4. ASSUME NEW c \in Clients, UpsertOverwrite(c) PROVE ClientsOK'
  BY <1>4 DEF UpsertOverwrite, ClientState
<1>5. ASSUME NEW c \in Clients, UpsertFails(c) \/ Notify(c) PROVE ClientsOK'
  BY <1>5 DEF UpsertFails, Notify, Settled, IdleClient
<1>6. CASE ProcessEnds
  BY <1>6 DEF ProcessEnds, IdleClient
<1>7. QED
  BY <1>1, <1>2, <1>3, <1>4, <1>5, <1>6
     DEF Next, Submit, WorkerStep, Boot, Shutdown, Crash, vars, WorkerWake, WorkerStop, Peek,
         DrainEnds, CheckExpiry, MarkExpired, Claim, PickupFails, ExtractReturns,
         ExtractCancelled, Mark, MarkFails, WorkerOnly, RecoverRunningOnStartup, ListPending,
         BootFails, StartWorker, Cancel, Tick

\* The worker never holds the empty payload once it has peeked a row.
LEMMA WorkerOKPreserved ==
    ASSUME TypeOK, RowsOK, WorkerOK, [Next]_vars
    PROVE  WorkerOK'
<1> USE DEF TypeOK, WorkerOK
<1>1. CASE UNCHANGED worker
  BY <1>1
<1>2. ASSUME NEW k \in Keys, Peek(k) PROVE WorkerOK'
  BY <1>2 DEF Peek, Oldest, Pending, RowsOK, RowOK, WorkerState
<1>3. CASE CheckExpiry \/ Claim \/ ExtractReturns
  BY <1>3 DEF CheckExpiry, Claim, ExtractReturns, Goto, WorkerState
<1>4. ASSUME NEW pc \in {"off", "select", "drain", "stopped"}, worker' = IdleWorker(pc) PROVE WorkerOK'
  BY <1>4 DEF IdleWorker
<1>5. QED
  BY <1>1, <1>2, <1>3, <1>4
     DEF Next, Submit, WorkerStep, Boot, Shutdown, Crash, ProcessEnds, vars, SubmitArrives,
         UpsertCreate, UpsertOverwrite, UpsertFails, Notify, WorkerWake, WorkerStop, DrainEnds,
         MarkExpired, PickupFails, ExtractCancelled, Mark, MarkFails, Release,
         RecoverRunningOnStartup, ListPending, BootFails, StartWorker, Cancel, Tick

\* Whatever interleaving produced it, a stored row shows an artifact exactly when
\* it is done and a failure reason exactly when it failed.
THEOREM ResultMatchesStatusHolds == Spec => []ResultMatchesStatus
<1>1. ASSUME Init PROVE RowsOK /\ ClientsOK /\ WorkerOK
  <2>1. \A k \in Keys : rows[k].status = "absent" /\ rows[k].artifact = 0 /\ rows[k].reason = ""
    BY <1>1 DEF Init, NoRow
  <2>2. worker.pc = "off" /\ \A c \in Clients : client[c].pc = "idle"
    BY <1>1 DEF Init, IdleWorker, IdleClient
  <2>3. QED
    BY <2>1, <2>2 DEF RowsOK, RowOK, ClientsOK, WorkerOK
<1>2. TypeOK /\ RowsOK /\ ClientsOK /\ WorkerOK /\ [Next]_vars => RowsOK' /\ ClientsOK' /\ WorkerOK'
  BY RowsOKPreserved, ClientsOKPreserved, WorkerOKPreserved
<1>3. RowsOK => ResultMatchesStatus
  BY DEF RowsOK, RowOK, ResultMatchesStatus
<1>4. QED
  BY <1>1, <1>2, <1>3, TypeCorrect, PTL DEF Spec

-----------------------------------------------------------------------------
(* Whose window expires.                                                   *)

\* Requests are numbered as they arrive; what a client has yet to write is nowhere else.
RequestsAreTold ==
    /\ \A k \in Keys : rows[k].request <= issued
    /\ worker.request <= issued
    /\ \A c \in Clients : client[c].pc # "idle" => 0 < client[c].request /\ client[c].request <= issued
    /\ \A c, d \in Clients :
         client[c].pc # "idle" /\ client[d].pc # "idle" /\ c # d
           => client[c].request # client[d].request
    /\ \A c \in Clients : client[c].pc \in {"create", "conflict"} =>
         /\ client[c].request # worker.request
         /\ \A k \in Keys : client[c].request # rows[k].request

\* A row that still is of the request that was peeked is as old as it was then.
PeekedIsOld ==
    /\ worker.pc \in {"peeked", "expire", "claim"} /\ rows[worker.key].request = worker.request
         => rows[worker.key].created = worker.created
    /\ worker.pc = "expire" => PastExpiry(worker.created)

RequestInv == RequestsAreTold /\ PeekedIsOld

\* A row expires before its window has passed only if a resubmission came between the peek
\* and MarkFailed: FullExpiryWindow fails in that case and in no other (Process).
WindowIsFullUnlessOverwritten ==
    [][\A k \in Keys : rows'[k].reason = "expired" /\ rows[k].reason # "expired"
         => PastExpiry(rows[k].created) \/ rows[k].request # worker.request]_vars

\* A submission at the database keeps its request, and every other its own.
LEMMA UpsertKeepsRequests ==
    ASSUME TypeOK, NEW c \in Clients, UpsertCreate(c) \/ UpsertOverwrite(c)
    PROVE  /\ UNCHANGED <<worker, now, issued>>
           /\ \A d \in Clients : client'[d].request = client[d].request
           /\ \A d \in Clients : client'[d].pc # "idle" => client[d].pc # "idle"
           /\ \A d \in Clients : client'[d].pc \in {"create", "conflict"}
                                   => client[d].pc \in {"create", "conflict"}
           /\ client[c].pc \in {"create", "conflict"}
<1>1. UNCHANGED <<worker, now, issued>> /\ client[c].pc \in {"create", "conflict"}
  BY DEF UpsertCreate, UpsertOverwrite
<1>2. \E pc : client' = [client EXCEPT ![c].pc = pc]
  BY DEF UpsertCreate, UpsertOverwrite
<1>3. client \in [Clients -> ClientState]
  BY DEF TypeOK
<1>4. \A d \in Clients : client'[d].request = client[d].request /\ (d # c => client'[d] = client[d])
  BY <1>2, <1>3 DEF ClientState
<1>5. QED
  BY <1>1, <1>4

\* It writes its own row, with its own request, and then only has to notify.
LEMMA UpsertWrites ==
    ASSUME TypeOK, NEW c \in Clients, UpsertCreate(c) \/ UpsertOverwrite(c)
    PROVE  \/ UNCHANGED rows
           \/ /\ \A k \in Keys : \/ rows'[k] = rows[k]
                                 \/ /\ rows'[k].request = client[c].request
                                    /\ rows'[k].reason = ""
              /\ client'[c].pc = "notify"
<1> DEFINE row == PendingRow(client[c].request, client[c].stamp)
<1>1. row.request = client[c].request /\ row.reason = ""
  BY DEF PendingRow
<1>2. client[c].key \in Keys /\ rows \in [Keys -> Row] /\ client \in [Clients -> ClientState]
  BY DEF TypeOK, ClientState
<1>3. \/ UNCHANGED rows
      \/ rows' = [rows EXCEPT ![client[c].key] = row] /\ client' = [client EXCEPT ![c].pc = "notify"]
  BY DEF UpsertCreate, UpsertOverwrite
<1> HIDE DEF row
<1>4. CASE /\ rows' = [rows EXCEPT ![client[c].key] = row]
           /\ client' = [client EXCEPT ![c].pc = "notify"]
  <2>1. \A k \in Keys : rows'[k] = rows[k] \/ rows'[k] = row
    BY <1>2, <1>4
  <2>2. client'[c].pc = "notify"
    BY <1>2, <1>4 DEF ClientState
  <2>3. QED
    BY <1>1, <2>1, <2>2
<1>5. QED
  BY <1>3, <1>4

\* A result is written to the row of the request it finds, and never as an expiry.
LEMMA FinishedKeepsRequest ==
    ASSUME TypeOK, NEW k \in Keys
    PROVE  /\ Finished(rows[k]).request = rows[k].request
           /\ Finished(rows[k]).reason = "expired" => rows[k].reason = "expired"
  BY DEF Finished, TypeOK, Row, WorkerState, Outcomes, ExtractorReasons

\* Every step preserves the invariant.
LEMMA RequestInvStep ==
    ASSUME TypeOK, TypeOK', IInv, RequestInv, [Next]_vars
    PROVE  RequestInv'
<1> USE DEF RequestInv, RequestsAreTold, PeekedIsOld, TypeOK
<1>0. \A k \in Keys : rows[k].request \in Nat /\ rows[k].created \in Nat
  BY DEF Row
<1>1. ASSUME NEW c \in Clients, NEW k \in Keys, SubmitArrives(c, k) PROVE RequestInv'
  <2>1. issued' = issued + 1 /\ UNCHANGED <<rows, worker, now>>
    BY <1>1 DEF SubmitArrives
  <2>2. /\ client'[c].request = issued + 1
        /\ \A d \in Clients : d # c => client'[d] = client[d]
    BY <1>1 DEF SubmitArrives
  <2>3. \A d \in Clients : client[d].request \in Nat
    BY DEF ClientState
  <2>4. worker.request \in Nat
    BY DEF WorkerState
  <2>5. RequestsAreTold'
    BY <1>0, <2>1, <2>2, <2>3, <2>4
  <2>6. PeekedIsOld'
    BY <2>1 DEF PastExpiry
  <2>7. QED
    BY <2>5, <2>6
<1>2. ASSUME NEW c \in Clients, UpsertCreate(c) \/ UpsertOverwrite(c) PROVE RequestInv'
  <2>1. /\ UNCHANGED <<worker, now, issued>>
        /\ \A d \in Clients : client'[d].request = client[d].request
        /\ \A d \in Clients : client'[d].pc # "idle" => client[d].pc # "idle"
        /\ \A d \in Clients : client'[d].pc \in {"create", "conflict"}
                                => client[d].pc \in {"create", "conflict"}
        /\ client[c].pc \in {"create", "conflict"}
    BY <1>2, UpsertKeepsRequests
  <2>2. \/ UNCHANGED rows
        \/ /\ \A k \in Keys : rows'[k] = rows[k] \/ rows'[k].request = client[c].request
           /\ client'[c].pc = "notify"
    BY <1>2, UpsertWrites
  <2>3. RequestsAreTold'
    BY <2>1, <2>2
  <2>4. PeekedIsOld'
    BY <2>1, <2>2 DEF PastExpiry, WorkerState
  <2>5. QED
    BY <2>3, <2>4
<1>3. ASSUME NEW c \in Clients, UpsertFails(c) \/ Notify(c) PROVE RequestInv'
  <2>1. /\ UNCHANGED <<rows, worker, now, issued>>
        /\ \A d \in Clients : client'[d] = client[d] \/ client'[d].pc = "idle"
    BY <1>3 DEF UpsertFails, Notify, Settled, IdleClient
  <2>2. QED
    BY <2>1 DEF PastExpiry
<1>4. ASSUME NEW k \in Keys, Peek(k) PROVE RequestInv'
  <2>1. /\ worker'.pc = "peeked" /\ worker'.key = k
        /\ worker'.request = rows[k].request /\ worker'.created = rows[k].created
        /\ UNCHANGED <<rows, client, now, issued>>
    BY <1>4 DEF Peek, WorkerOnly, WorkerState
  <2>2. QED
    BY <2>1
<1>5. CASE CheckExpiry
  BY <1>5 DEF CheckExpiry, Goto, WorkerOnly, WorkerState, PastExpiry
<1>6. CASE Claim
  <2>1. /\ worker'.pc = "extract" /\ worker'.request = worker.request
        /\ UNCHANGED <<client, issued>>
        /\ \A k \in Keys : rows'[k].request = rows[k].request
    BY <1>6 DEF Claim, WorkerState
  <2>2. QED
    BY <2>1
<1>7. CASE ExtractReturns
  BY <1>7 DEF ExtractReturns, WorkerOnly, WorkerState
<1>8. CASE WorkerWake \/ WorkerStop \/ DrainEnds \/ MarkExpired \/ PickupFails
             \/ ExtractCancelled \/ Mark \/ MarkFails
  <2>1. /\ worker'.request = 0 /\ worker'.pc \in {"drain", "stopped", "select"}
        /\ UNCHANGED <<client, issued>>
    BY <1>8 DEF WorkerWake, WorkerStop, DrainEnds, MarkExpired, PickupFails,
                ExtractCancelled, Mark, MarkFails, Release, IdleWorker, WorkerOnly
  <2>2. \A k \in Keys : rows'[k].request = rows[k].request
    <3>1. CASE MarkExpired
      BY <3>1 DEF MarkExpired
    <3>2. CASE Mark
      BY <3>2, FinishedKeepsRequest DEF Mark
    <3>3. QED
      BY <1>8, <3>1, <3>2 DEF WorkerWake, WorkerStop, DrainEnds, PickupFails, ExtractCancelled,
                              MarkFails, WorkerOnly
  <2>3. QED
    BY <2>1, <2>2
<1>9. CASE RecoverRunningOnStartup
  <2>1. /\ \A k \in Keys : rows'[k].request = rows[k].request
        /\ UNCHANGED <<client, issued, worker>> /\ worker.pc = "off"
    BY <1>9 DEF RecoverRunningOnStartup, Recovered, Row, IInv, MemoryMatchesProcess
  <2>2. QED
    BY <2>1
<1>10. CASE StartWorker \/ ProcessEnds
  <2>1. /\ worker'.request = 0 /\ worker'.pc \in {"select", "off"}
        /\ UNCHANGED <<rows, issued>>
        /\ \A d \in Clients : client'[d] = client[d] \/ client'[d].pc = "idle"
    BY <1>10 DEF StartWorker, ProcessEnds, IdleWorker, IdleClient
  <2>2. QED
    BY <2>1
<1>11. CASE Tick
  <2>1. UNCHANGED <<rows, client, worker, issued>> /\ now' = now + 1
    BY <1>11 DEF Tick
  <2>2. worker.created \in Nat
    BY DEF WorkerState
  <2>3. PastExpiry(worker.created) => PastExpiry(worker.created)'
    BY <2>1, <2>2, JobExpiryNat DEF PastExpiry
  <2>4. QED
    BY <2>1, <2>3
<1>12. CASE ListPending \/ BootFails \/ Cancel \/ UNCHANGED vars
  BY <1>12 DEF ListPending, BootFails, Cancel, vars, PastExpiry
<1>13. QED
  BY <1>1, <1>2, <1>3, <1>4, <1>5, <1>6, <1>7, <1>8, <1>9, <1>10, <1>11, <1>12
     DEF Next, Submit, WorkerStep, Boot, Shutdown, Crash

\* A row is marked expired by MarkFailed alone, and from the copy of its age.
LEMMA ExpiryStep ==
    ASSUME TypeOK, RequestInv, [Next]_vars, NEW k \in Keys,
           rows'[k].reason = "expired", rows[k].reason # "expired"
    PROVE  PastExpiry(rows[k].created) \/ rows[k].request # worker.request
<1> USE DEF TypeOK
<1>1. CASE MarkExpired
  <2>1. worker.pc = "expire" /\ k = worker.key
    BY <1>1 DEF MarkExpired
  <2>2. QED
    BY <2>1 DEF RequestInv, PeekedIsOld
<1>2. ASSUME NEW c \in Clients, UpsertCreate(c) \/ UpsertOverwrite(c) PROVE FALSE
  BY <1>2, UpsertWrites
<1>3. CASE Claim
  BY <1>3 DEF Claim
<1>4. CASE Mark
  BY <1>4, FinishedKeepsRequest DEF Mark
<1>5. CASE RecoverRunningOnStartup
  BY <1>5 DEF RecoverRunningOnStartup, Recovered, Row
<1>6. QED
  BY <1>1, <1>2, <1>3, <1>4, <1>5, OnlyTheseWrite

\* Only the race between the peek and a resubmission shortens a window (Process, Upsert).
THEOREM WindowIsFullUnlessOverwrittenHolds == Spec => WindowIsFullUnlessOverwritten
<1>1. Init => RequestInv
  <2> SUFFICES ASSUME Init PROVE RequestInv
    OBVIOUS
  <2>1. \A k \in Keys : rows[k].request = 0
    BY DEF Init, NoRow
  <2>2. QED
    BY <2>1 DEF Init, RequestInv, RequestsAreTold, PeekedIsOld, IdleClient, IdleWorker
<1>2. TypeOK /\ TypeOK' /\ IInv /\ RequestInv /\ [Next]_vars => RequestInv'
  BY RequestInvStep
<1>3. TypeOK /\ RequestInv /\ [Next]_vars =>
        [\A k \in Keys : rows'[k].reason = "expired" /\ rows[k].reason # "expired"
           => PastExpiry(rows[k].created) \/ rows[k].request # worker.request]_vars
  BY ExpiryStep
<1>4. QED
  BY <1>1, <1>2, <1>3, TypeCorrect, PipelineInvariant, PTL
     DEF Spec, WindowIsFullUnlessOverwritten

\* A row is done with another request's result only if the row was overwritten between the
\* peek and the claim: DoneFromOwnRequest fails in that case and in no other (Process).
ResultIsOwnUnlessOverwritten ==
    [][\A k \in Keys : rows'[k].status = "done" /\ rows[k].status # "done"
         => rows'[k].artifact = rows'[k].request \/ worker.claimed # worker.request]_vars

\* Only Mark finishes a row, and it finds the request that was claimed.
LEMMA ResultStep ==
    ASSUME TypeOK, IInv, [Next]_vars, NEW k \in Keys,
           rows'[k].status = "done", rows[k].status # "done"
    PROVE  rows'[k].artifact = rows'[k].request \/ worker.claimed # worker.request
<1> USE DEF TypeOK
<1>1. CASE Mark
  <2>1. /\ k = worker.key /\ rows[k].status = "running" /\ worker.pc = "mark"
        /\ rows'[k] = Finished(rows[k])
    BY <1>1 DEF Mark, InStatus
  <2>2. rows[k].request = worker.claimed
    BY <2>1 DEF IInv, ClaimedIsCurrent
  <2>3. worker.outcome = "ok" => Finished(rows[k]).artifact = worker.request
    BY DEF Finished, Row
  <2>4. worker.outcome # "ok" => Finished(rows[k]).status = "failed"
    BY DEF Finished, Row
  <2>5. rows'[k].request = rows[k].request
    BY <2>1, FinishedKeepsRequest
  <2>6. QED
    BY <2>1, <2>2, <2>3, <2>4, <2>5
<1>2. ASSUME NEW c \in Clients, UpsertCreate(c) \/ UpsertOverwrite(c) PROVE FALSE
  <2>1. UNCHANGED rows \/ \E j \in Keys : Statuses' = [Statuses EXCEPT ![j] = "pending"]
    BY <1>2, UpsertsRequest
  <2>2. QED
    BY <2>1 DEF Statuses
<1>3. CASE MarkExpired
  BY <1>3, MarkExpiredFails DEF Statuses
<1>4. CASE Claim
  BY <1>4 DEF Claim
<1>5. CASE RecoverRunningOnStartup
  BY <1>5 DEF RecoverRunningOnStartup, Recovered, Row
<1>6. QED
  BY <1>1, <1>2, <1>3, <1>4, <1>5, OnlyTheseWrite

\* Only the race between the peek and the claim gives a row the result of another request.
THEOREM ResultIsOwnUnlessOverwrittenHolds == Spec => ResultIsOwnUnlessOverwritten
<1>1. TypeOK /\ IInv /\ [Next]_vars =>
        [\A k \in Keys : rows'[k].status = "done" /\ rows[k].status # "done"
           => rows'[k].artifact = rows'[k].request \/ worker.claimed # worker.request]_vars
  BY ResultStep
<1>2. QED
  BY <1>1, TypeCorrect, PipelineInvariant, PTL DEF Spec, ResultIsOwnUnlessOverwritten

-----------------------------------------------------------------------------
(***************************************************************************)
(* The pipeline is the environment that Analyzer assumes.                  *)
(***************************************************************************)

\* Only done rows have a body, and it is one the row has had.
BodiesOfRows ==
    /\ bodies \in Nat
    /\ bodyOf \in [Keys -> Nat] /\ made \in [Keys -> SUBSET Nat]
    /\ \A k \in Keys : /\ rows[k].status # "done" => bodyOf[k] = 0
                       /\ bodyOf[k] # 0 => bodyOf[k] \in made[k]

\* Calls live in a process that serves requests.
CallsHaveProcess == proc # "up" => calls = NobodyCalls

ComposedInv == BodiesOfRows /\ CallsHaveProcess

\* Nothing changes what a call is before it begins.
LEMMA NobodyStays == NobodyCalls' = NobodyCalls
  BY DEF NobodyCalls, Analysis!IdleCall, Analysis!NoBody, Analysis!NoText, Analysis!NoRow

\* The composition makes only steps of the pipeline, and leaves it alone otherwise.
LEMMA ComposedStepsOfPipeline == [ComposedNext]_composed => [Next]_vars
  BY DEF ComposedNext, Extracts, Analyzes, composed

\* A process that does not serve requests yet or any more did not before, or has just ended.
LEMMA ProcessIsNotUp ==
    ASSUME [Next]_vars, proc' # "up"
    PROVE  proc' = "down" \/ proc # "up"
  BY DEF Next, Submit, WorkerStep, Boot, Shutdown, Crash, ProcessEnds, vars, SubmitArrives,
         UpsertCreate, UpsertOverwrite, UpsertFails, Notify, WorkerWake, WorkerStop, Peek, DrainEnds,
         CheckExpiry, MarkExpired, Claim, PickupFails, ExtractReturns, ExtractCancelled, Mark,
         MarkFails, WorkerOnly, RecoverRunningOnStartup, ListPending, BootFails, StartWorker,
         Cancel, Tick

\* A call of Analyze leaves the pipeline and the bodies alone.
LEMMA AnalyzesShares ==
    ASSUME NEW c \in Calls, Analyzes(c)
    PROVE  UNCHANGED <<vars, bodyOf, made, bodies>>
  BY DEF Analyzes, Analysis!Returns, Analysis!ShortReturns, Analysis!LongReturns,
         Analysis!CompletionFails, Analysis!Insert, Analysis!InsertConflicts, Analysis!Overwrite,
         Analysis!UpsertFails, Analysis!Stores, Analysis!Private, Analysis!Load, Analysis!LoadFails,
         Analysis!extraction

\* The invariant of the composition holds initially.
LEMMA ComposedInvInit == ComposedInit => ComposedInv
  BY DEF ComposedInit, ComposedInv, BodiesOfRows, CallsHaveProcess

\* Every step of the composition preserves it.
LEMMA ComposedInvStep ==
    ASSUME ComposedInv, [ComposedNext]_composed
    PROVE  ComposedInv'
<1> USE DEF ComposedInv, BodiesOfRows, CallsHaveProcess
<1>1. CASE Extracts
  <2>1. BodiesOfRows'
    <3>1. bodies' \in Nat /\ bodyOf' \in [Keys -> Nat]
      BY <1>1 DEF Extracts
    <3>2. made' \in [Keys -> SUBSET Nat]
      BY <1>1, <3>1 DEF Extracts
    <3>3. \A k \in Keys : rows'[k].status # "done" => bodyOf'[k] = 0
      BY <1>1 DEF Extracts
    <3>4. \A k \in Keys : bodyOf'[k] # 0 => bodyOf'[k] \in made'[k]
      BY <1>1 DEF Extracts
    <3>5. QED
      BY <3>1, <3>2, <3>3, <3>4
  <2>2. CallsHaveProcess'
    <3>1. proc' # "up" => proc' = "down" \/ proc # "up"
      BY <1>1, ProcessIsNotUp DEF Extracts
    <3>2. QED
      BY <1>1, <3>1, NobodyStays DEF Extracts
  <2>3. QED
    BY <2>1, <2>2
<1>2. CASE (\E c \in Calls : Analyzes(c)) \/ UNCHANGED composed
  <2>1. UNCHANGED <<rows, proc, bodyOf, made, bodies>> /\ (proc = "up" \/ UNCHANGED calls)
    BY <1>2, AnalyzesShares DEF Analyzes, composed, vars
  <2>2. QED
    BY <2>1, NobodyStays
<1>3. QED
  BY <1>1, <1>2 DEF ComposedNext

\* A pipeline step that ends no run and finishes no row makes no body.
LEMMA QuietBodies ==
    ASSUME ComposedInv, Extracts, ~RunEnds,
           \A k \in Keys : rows'[k].status = "done" => rows[k].status = "done"
    PROVE  /\ UNCHANGED <<bodies, made>>
           /\ bodyOf' = [k \in Keys |-> IF rows'[k].status = "done" THEN bodyOf[k] ELSE 0]
<1> USE DEF ComposedInv, BodiesOfRows
<1>1. bodies' = bodies
  BY DEF Extracts
<1>2. bodyOf' = [k \in Keys |-> IF rows'[k].status = "done" THEN bodyOf[k] ELSE 0]
  BY DEF Extracts
<1>3. \A k \in Keys : made[k] \cup ({bodyOf'[k]} \ {0}) = made[k]
  BY <1>2
<1>4. made' = [k \in Keys |-> made[k]]
  BY <1>3 DEF Extracts
<1>5. QED
  BY <1>1, <1>2, <1>4

\* If no row steps to or from done, the bodies stay.
LEMMA BodiesStay ==
    ASSUME ComposedInv, Extracts, ~RunEnds,
           \A k \in Keys : rows'[k].status = "done" <=> rows[k].status = "done"
    PROVE  UNCHANGED <<bodies, made, bodyOf>>
<1>1. /\ UNCHANGED <<bodies, made>>
      /\ bodyOf' = [k \in Keys |-> IF rows'[k].status = "done" THEN bodyOf[k] ELSE 0]
  BY QuietBodies
<1>2. bodyOf' = [k \in Keys |-> bodyOf[k]]
  BY <1>1 DEF ComposedInv, BodiesOfRows
<1>3. QED
  BY <1>1, <1>2 DEF ComposedInv, BodiesOfRows

\* While there is a process, what is seen of a row is its status.
LEMMA SeenAreStatuses ==
    /\ proc # "down" => Seen = Statuses
    /\ proc' # "down" => Seen' = Statuses'
  BY DEF Seen, Statuses

\* A row goes to a status other than done, and no run ends: its body goes, the others stay.
LEMMA MovesOneJob ==
    ASSUME ComposedInv, Extracts, proc # "down", UNCHANGED <<proc, now>>,
           NEW k \in Keys, NEW s \in {"pending", "running", "failed"},
           Statuses[k] = "running" => s = "pending",
           Statuses' = [Statuses EXCEPT ![k] = s]
    PROVE  /\ Seen' = [Seen EXCEPT ![k] = s] /\ Seen[k] = Statuses[k]
           /\ bodyOf' = [e \in Keys |-> IF Seen'[e] = "done" THEN bodyOf[e] ELSE 0]
           /\ UNCHANGED <<made, bodies, analyses, calls, now, runs>>
<1>1. Seen = Statuses /\ Seen' = Statuses'
  BY SeenAreStatuses
<1>2. \A e \in Keys : /\ Statuses[e] = rows[e].status /\ Statuses'[e] = rows'[e].status
                      /\ e # k => Statuses'[e] = Statuses[e]
                      /\ Statuses'[k] = s
  BY DEF Statuses
<1>3. ~RunEnds
  BY <1>2 DEF RunEnds, Terminal
<1>4. \A e \in Keys : rows'[e].status = "done" => rows[e].status = "done"
  BY <1>2
<1>5. /\ UNCHANGED <<bodies, made>>
      /\ bodyOf' = [e \in Keys |-> IF rows'[e].status = "done" THEN bodyOf[e] ELSE 0]
  BY <1>3, <1>4, QuietBodies
<1>6. bodyOf' = [e \in Keys |-> IF Seen'[e] = "done" THEN bodyOf[e] ELSE 0]
  BY <1>1, <1>2, <1>5
<1>7. UNCHANGED <<analyses, calls, runs>>
  BY DEF Extracts
<1>8. QED
  BY <1>1, <1>5, <1>6, <1>7

\* A running row ends: its body is the next one, if it is done.
LEMMA EndsOneJob ==
    ASSUME ComposedInv, Extracts, proc # "down", UNCHANGED <<proc, now>>,
           NEW k \in Keys, NEW s \in Terminal, Statuses[k] = "running",
           Statuses' = [Statuses EXCEPT ![k] = s]
    PROVE  /\ Seen' = [Seen EXCEPT ![k] = s] /\ Seen[k] = "running"
           /\ bodies < MaxBodies /\ bodies' = bodies + 1
           /\ bodyOf' = [bodyOf EXCEPT ![k] = IF Seen'[k] = "done" THEN bodies' ELSE 0]
           /\ made' = [made EXCEPT ![k] = @ \cup ({bodyOf'[k]} \ {0})]
           /\ UNCHANGED <<analyses, calls, now, runs>>
<1> USE DEF ComposedInv, BodiesOfRows
<1>1. Seen = Statuses /\ Seen' = Statuses'
  BY SeenAreStatuses
<1>2. \A e \in Keys : /\ Statuses[e] = rows[e].status /\ Statuses'[e] = rows'[e].status
                      /\ e # k => Statuses'[e] = Statuses[e]
                      /\ Statuses'[k] = s
  BY DEF Statuses
<1>3. RunEnds
  BY <1>2 DEF RunEnds
<1>4. bodies < MaxBodies /\ bodies' = bodies + 1 /\ UNCHANGED <<analyses, calls, runs>>
  BY <1>3 DEF Extracts
<1>5. \A e \in Keys : e # k => bodyOf'[e] = bodyOf[e]
  BY <1>2 DEF Extracts
<1>6. bodyOf'[k] = IF Seen'[k] = "done" THEN bodies' ELSE 0
  BY <1>1, <1>2 DEF Extracts
<1>7. bodyOf' = [bodyOf EXCEPT ![k] = IF Seen'[k] = "done" THEN bodies' ELSE 0]
  BY <1>5, <1>6 DEF Extracts
<1>8. \A e \in Keys : e # k => made[e] \cup ({bodyOf'[e]} \ {0}) = made[e]
  BY <1>5
<1>9. made' = [made EXCEPT ![k] = @ \cup ({bodyOf'[k]} \ {0})]
  BY <1>8 DEF Extracts
<1>10. QED
  BY <1>1, <1>4, <1>7, <1>9

\* The steps that begin, end or wait out the life of a process.
LEMMA OnlyTheseMoveTheProcess ==
    ASSUME [Next]_vars
    PROVE  \/ UNCHANGED <<proc, now>>
           \/ RecoverRunningOnStartup \/ ListPending \/ BootFails \/ StartWorker
           \/ Shutdown \/ Crash \/ Tick
  BY DEF Next, Submit, WorkerStep, Boot, vars, SubmitArrives,
         UpsertCreate, UpsertOverwrite, UpsertFails, Notify, WorkerWake, WorkerStop, Peek, DrainEnds,
         CheckExpiry, MarkExpired, Claim, PickupFails, ExtractReturns, ExtractCancelled, Mark,
         MarkFails, WorkerOnly, Cancel

\* A step of the pipeline that writes rows for a reader to see is one Analyzer knows.
LEMMA RowSteps ==
    ASSUME "mark" \notin DbFaults, TypeOK, IInv, ComposedInv, Extracts,
           UNCHANGED <<proc, now>>, ~UNCHANGED rows
    PROVE  Analysis!ExtractionMoves
<1> USE DEF Analysis!ExtractionMoves, Analysis!Extracts, Analysis!NoBody
<1>1. ASSUME NEW c \in Clients, UpsertCreate(c) \/ UpsertOverwrite(c)
      PROVE  Analysis!ExtractionMoves
  <2>1. proc # "down"
    BY <1>1 DEF IInv, MemoryMatchesProcess, UpsertCreate, UpsertOverwrite
  <2>2. PICK k \in Keys : Statuses' = [Statuses EXCEPT ![k] = "pending"]
    BY <1>1, UpsertsRequest
  <2>3. /\ Seen' = [Seen EXCEPT ![k] = "pending"]
        /\ bodyOf' = [e \in Keys |-> IF Seen'[e] = "done" THEN bodyOf[e] ELSE 0]
        /\ UNCHANGED <<made, bodies, analyses, calls, now, runs>>
    BY <2>1, <2>2, MovesOneJob
  <2>4. Analysis!Job!Request(k)
    BY <2>3 DEF Analysis!Job!Request
  <2>5. QED
    BY <2>3, <2>4
<1>2. CASE MarkExpired
  <2>1. proc # "down"
    BY <1>2 DEF IInv, MemoryMatchesProcess, MarkExpired
  <2>2. PICK k \in Keys : Statuses[k] = "pending" /\ Statuses' = [Statuses EXCEPT ![k] = "failed"]
    BY <1>2, MarkExpiredFails
  <2>3. /\ Seen' = [Seen EXCEPT ![k] = "failed"] /\ Seen[k] = "pending"
        /\ bodyOf' = [e \in Keys |-> IF Seen'[e] = "done" THEN bodyOf[e] ELSE 0]
        /\ UNCHANGED <<made, bodies, analyses, calls, now, runs>>
    BY <2>1, <2>2, MovesOneJob
  <2>4. Analysis!Job!Expire(k)
    BY <2>3 DEF Analysis!Job!Expire
  <2>5. QED
    BY <2>3, <2>4
<1>3. CASE Claim
  <2>1. proc # "down"
    BY <1>3 DEF IInv, MemoryMatchesProcess, Claim
  <2>2. PICK k \in Keys : /\ Statuses[k] = "pending" /\ Running = {}
                          /\ Statuses' = [Statuses EXCEPT ![k] = "running"]
    BY <1>3, ClaimBegins
  <2>3. /\ Seen' = [Seen EXCEPT ![k] = "running"] /\ Seen[k] = "pending"
        /\ bodyOf' = [e \in Keys |-> IF Seen'[e] = "done" THEN bodyOf[e] ELSE 0]
        /\ UNCHANGED <<made, bodies, analyses, calls, now, runs>>
    BY <2>1, <2>2, MovesOneJob
  <2>4. \A j \in Keys : Seen[j] # "running"
    BY <2>1, <2>2 DEF Seen, Running
  <2>5. Analysis!Job!Begin(k)
    BY <2>3, <2>4 DEF Analysis!Job!Begin, Analysis!Job!Running
  <2>6. QED
    BY <2>3, <2>5
<1>4. CASE Mark
  <2>1. proc # "down"
    BY <1>4 DEF IInv, MemoryMatchesProcess, Mark
  <2>2. PICK k \in Keys, s \in Terminal :
          Statuses[k] = "running" /\ Statuses' = [Statuses EXCEPT ![k] = s]
    BY <1>4, MarkEnds
  <2>3. /\ Seen' = [Seen EXCEPT ![k] = s] /\ Seen[k] = "running"
        /\ bodies < MaxBodies /\ bodies' = bodies + 1
        /\ bodyOf' = [bodyOf EXCEPT ![k] = IF Seen'[k] = "done" THEN bodies' ELSE 0]
        /\ made' = [made EXCEPT ![k] = @ \cup ({bodyOf'[k]} \ {0})]
        /\ UNCHANGED <<analyses, calls, now, runs>>
    BY <2>1, <2>2, EndsOneJob
  <2>4. Analysis!Job!Finish(k)
    BY <2>3 DEF Analysis!Job!Finish, Analysis!Job!Terminal, Terminal
  <2>5. QED
    BY <2>3, <2>4
<1>5. CASE RecoverRunningOnStartup
  BY <1>5 DEF RecoverRunningOnStartup
<1>6. QED
  BY <1>1, <1>2, <1>3, <1>4, <1>5, OnlyTheseWrite DEF Extracts

\* A step that moves the process: its end is a restart, its start is not seen.
LEMMA ProcessSteps ==
    ASSUME "mark" \notin DbFaults, TypeOK, IInv, ComposedInv, Extracts,
           \/ RecoverRunningOnStartup \/ ListPending \/ BootFails \/ StartWorker
           \/ Shutdown \/ Crash \/ Tick
    PROVE  [Analysis!Next]_(Analysis!vars)
<1>0. UNCHANGED <<analyses, runs>> /\ calls' = (IF proc' = "down" THEN NobodyCalls ELSE calls)
  BY DEF Extracts
<1>1. CASE RecoverRunningOnStartup
  <2>1. Statuses' = [k \in Keys |-> IF Statuses[k] = "running" THEN "failed" ELSE Statuses[k]]
    BY <1>1, RecoveryFails
  <2>2. proc = "down" /\ proc' = "recovered" /\ now' = now
    BY <1>1 DEF RecoverRunningOnStartup
  <2>3. Seen' = Seen
    BY <2>1, <2>2 DEF Seen, Statuses
  <2>4. \A k \in Keys : rows'[k].status = "done" <=> rows[k].status = "done"
    BY <2>1 DEF Statuses
  <2>5. UNCHANGED <<bodies, made, bodyOf>>
    BY <2>2, <2>4, BodiesStay DEF RunEnds
  <2>6. QED
    BY <1>0, <2>2, <2>3, <2>5 DEF Analysis!vars
<1>2. ASSUME UNCHANGED rows PROVE UNCHANGED <<bodies, made, bodyOf>>
  <2>1. ~RunEnds
    BY <1>2 DEF RunEnds, Terminal
  <2>2. QED
    BY <1>2, <2>1, BodiesStay
<1>3. CASE ListPending \/ BootFails \/ StartWorker
  <2>1. UNCHANGED <<rows, now>> /\ proc # "up"
    BY <1>3 DEF ListPending, BootFails, StartWorker
  <2>2. proc # "down" => \A k \in Keys : rows[k].status # "running"
    BY <2>1 DEF IInv, MemoryMatchesProcess, RunningIsOwned, Running
  <2>3. proc = "down" => proc' = "down"
    BY <1>3 DEF ListPending, BootFails, StartWorker
  <2>4. Seen' = Seen
    BY <2>1, <2>2, <2>3 DEF Seen
  <2>5. calls' = calls
    BY <1>0, <2>1 DEF ComposedInv, CallsHaveProcess
  <2>6. QED
    BY <1>0, <1>2, <2>1, <2>4, <2>5 DEF Analysis!vars
<1>4. CASE Shutdown \/ Crash
  <2>1. proc # "down" /\ proc' = "down" /\ UNCHANGED <<rows, now>>
    BY <1>4 DEF Shutdown, Crash, ProcessEnds, IInv, MemoryMatchesProcess
  <2>2. Seen' = [k \in Keys |-> IF Seen[k] = "running" THEN "failed" ELSE Seen[k]]
    BY <2>1 DEF Seen
  <2>3. calls' = [c \in Calls |-> Analysis!IdleCall]
    BY <1>0, <2>1 DEF NobodyCalls
  <2>4. Analysis!Restart
    BY <1>0, <1>2, <2>1, <2>2, <2>3 DEF Analysis!Restart, Analysis!Job!Restart
  <2>5. QED
    BY <2>4 DEF Analysis!Next
<1>5. CASE Tick
  <2>1. UNCHANGED <<rows, proc>> /\ now < MaxTime /\ now' = now + 1
    BY <1>5 DEF Tick
  <2>2. Seen' = Seen /\ calls' = calls
    BY <1>0, <2>1 DEF Seen, ComposedInv, CallsHaveProcess
  <2>3. Analysis!Tick
    BY <1>0, <1>2, <2>1, <2>2 DEF Analysis!Tick, Analysis!extraction
  <2>4. QED
    BY <2>3 DEF Analysis!Next
<1>6. QED
  BY <1>1, <1>3, <1>4, <1>5

\* Every step of the composition is one of Analyzer, or is not seen.
LEMMA ComposedStep ==
    ASSUME "mark" \notin DbFaults, TypeOK, IInv, ComposedInv, [ComposedNext]_composed
    PROVE  [Analysis!Next]_(Analysis!vars)
<1>1. CASE Extracts
  <2>1. CASE UNCHANGED <<proc, now, rows>>
    <3>1. UNCHANGED <<bodies, made, bodyOf>>
      BY <1>1, <2>1, BodiesStay DEF RunEnds, Terminal
    <3>2. Seen' = Seen /\ UNCHANGED <<analyses, runs, calls>>
      BY <1>1, <2>1 DEF Extracts, Seen, ComposedInv, CallsHaveProcess
    <3>3. QED
      BY <2>1, <3>1, <3>2 DEF Analysis!vars
  <2>2. CASE UNCHANGED <<proc, now>> /\ ~UNCHANGED rows
    BY <1>1, <2>2, RowSteps DEF Analysis!Next
  <2>3. CASE ~UNCHANGED <<proc, now>>
    BY <1>1, <2>3, OnlyTheseMoveTheProcess, ProcessSteps DEF Extracts
  <2>4. QED
    BY <2>1, <2>2, <2>3
<1>2. ASSUME NEW c \in Calls, Analyzes(c) PROVE Analysis!Next
  BY <1>2 DEF Analyzes, Analysis!Next
<1>3. CASE UNCHANGED composed
  BY <1>3 DEF composed, vars, Seen, Analysis!vars
<1>4. QED
  BY <1>1, <1>2, <1>3 DEF ComposedNext

\* The composition starts where Analyzer does.
LEMMA ComposedStart == ComposedInit => Analysis!Init
<1> SUFFICES ASSUME ComposedInit PROVE Analysis!Init
  OBVIOUS
<1>1. \A k \in Keys : rows[k].status = "absent"
  BY DEF ComposedInit, Init, NoRow
<1>2. Seen = [k \in Keys |-> "absent"]
  BY <1>1 DEF Seen
<1>3. now = 0
  BY DEF ComposedInit, Init
<1>4. QED
  BY <1>2, <1>3
     DEF ComposedInit, NobodyCalls, Analysis!Init, Analysis!Job!Init, Analysis!NoBody

\* Analyze over the real table, with its worker, submissions, crashes and restarts, behaves
\* as Analyzer over jobs of JobLifecycle (Analyzer), as long as no Mark fails: what is shown
\* of analyses there holds of the application.
THEOREM PipelineUnderAnalyzer ==
    ASSUME "mark" \notin DbFaults
    PROVE  ComposedSpec => ImplementsAnalyzer
<1>1. ComposedSpec => Spec
  <2>1. ComposedInit => Init
    BY DEF ComposedInit
  <2>2. [ComposedNext]_composed => [Next]_vars
    BY ComposedStepsOfPipeline
  <2>3. QED
    BY <2>1, <2>2, PTL DEF ComposedSpec, Spec
<1>2. ComposedSpec => []ComposedInv
  <2>1. ComposedInv /\ [ComposedNext]_composed => ComposedInv'
    BY ComposedInvStep
  <2>2. QED
    BY <2>1, ComposedInvInit, PTL DEF ComposedSpec
<1>3. TypeOK /\ IInv /\ ComposedInv /\ [ComposedNext]_composed => [Analysis!Next]_(Analysis!vars)
  BY ComposedStep
<1>4. QED
  BY <1>1, <1>2, <1>3, ComposedStart, TypeCorrect, PipelineInvariant, PTL
     DEF ComposedSpec, ImplementsAnalyzer, Analysis!Spec

-----------------------------------------------------------------------------
(***************************************************************************)
(* Normalize.  The sweep is shown to keep what the reference keeps, turn   *)
(* by turn; the rules after it are closed forms, and compose to Shown.     *)
(***************************************************************************)

\* What is left of the input once it is cut at the references.
Document == UpToReferences(given)

TextTypes ==
    /\ markdown \in Markdowns
    /\ given \subseteq DOMAIN markdown /\ body \subseteq given /\ ahead \subseteq body
    /\ inTable \in BOOLEAN
    /\ pass \in {1, 2}

\* The sweep has reached the lines in next and left those in out; headers are those it found.
\* Behind it the lines are dropped that lie in a table; among rows, the last table reaches
\* up to the line that is next, and otherwise none does.
Swept(lines, next, out, amid, headers) ==
    LET seen == lines \ next
    IN  /\ \A i \in next, j \in lines : i <= j => j \in next
        /\ headers \subseteq seen
        /\ \A i \in seen :
              i \in headers <=> /\ TableStarts(lines, i)
                                /\ \A h \in headers : h < i => i \notin TableFrom(lines, h)
        /\ out = next \cup (seen \cap Kept(lines, headers))
        /\ amid => \E h \in headers : /\ \A g \in headers : g <= h
                                      /\ \A i \in seen : h <= i => i \in TableFrom(lines, h)
                                      /\ \E i \in seen : h < i
        /\ ~amid => \A h \in headers, i \in next : i \notin TableFrom(lines, h)

-----------------------------------------------------------------------------
(* Lemmas on lines and tables.                                             *)

\* The lines of a markdown are numbered from 1, finitely many, and each is of a known kind.
LEMMA LinesOfMarkdown ==
    ASSUME markdown \in Markdowns
    PROVE  /\ Len(markdown) \in Nat
           /\ DOMAIN markdown = 1 .. Len(markdown)
           /\ IsFiniteSet(DOMAIN markdown)
           /\ \A i \in DOMAIN markdown : markdown[i] \in LineKinds
<1>1. PICK n \in 1 .. MaxLines : markdown \in [1 .. n -> LineKinds]
  BY DEF Markdowns
<1>2. n \in Nat /\ DOMAIN markdown = 1 .. n /\ markdown \in Seq(LineKinds)
  BY <1>1, MaxLinesPositive
<1>3. Len(markdown) = n
  BY <1>2
<1>4. IsFiniteSet(1 .. n)
  BY <1>2, FS_Interval
<1>5. QED
  BY <1>1, <1>2, <1>3, <1>4

\* A table has no gap: with a line, all the lines from the header up to it.
LEMMA TableHasNoGap ==
    ASSUME NEW lines \in SUBSET Nat, NEW h \in Nat, NEW i \in TableFrom(lines, h),
           NEW j \in lines, h <= j, j <= i
    PROVE  j \in TableFrom(lines, h)
  BY DEF TableFrom

\* A header and the line after it are of its table.
LEMMA TableBegins ==
    ASSUME NEW lines \in SUBSET Nat, NEW h \in lines
    PROVE  /\ h \in TableFrom(lines, h)
           /\ \A j \in lines : Follows(lines, h, j) => j \in TableFrom(lines, h)
  BY DEF TableFrom, Follows

\* Past the separator, the line after a piece of the table is of it if a pipe leads it.
LEMMA TableGoesOn ==
    ASSUME NEW lines \in SUBSET Nat, NEW h \in lines, NEW i \in lines, h < i,
           \E j \in lines : h < j /\ j < i,
           \A j \in lines : h <= j /\ j < i => j \in TableFrom(lines, h)
    PROVE  i \in TableFrom(lines, h) <=> markdown[i] \in PipeLed
<1>1. ~Follows(lines, h, i)
  BY DEF Follows
<1>2. i \in TableFrom(lines, h) => markdown[i] \in PipeLed
  BY <1>1 DEF TableFrom
<1>3. ASSUME markdown[i] \in PipeLed, NEW j \in lines, h < j, j <= i
      PROVE  Follows(lines, h, j) \/ markdown[j] \in PipeLed
  <2>1. CASE j = i
    BY <2>1, <1>3
  <2>2. CASE j < i
    BY <2>2, <1>3 DEF TableFrom
  <2>3. QED
    BY <2>1, <2>2, <1>3
<1>4. QED
  BY <1>2, <1>3 DEF TableFrom

\* No line of a table is prose.
LEMMA TablesHaveNoProse ==
    ASSUME NEW lines \in SUBSET Nat, NEW h \in lines, TableStarts(lines, h),
           NEW i \in TableFrom(lines, h)
    PROVE  markdown[i] \in PipeLed \cup Separators
<1>1. PICK s \in lines : Follows(lines, h, s) /\ markdown[s] \in Separators
  BY DEF TableStarts
<1>2. i \in lines /\ h <= i
  BY DEF TableFrom
<1>3. CASE i = h
  BY <1>3 DEF TableStarts
<1>4. CASE h < i /\ Follows(lines, h, i)
  <2>1. i = s
    BY <1>1, <1>2, <1>4 DEF Follows
  <2>2. QED
    BY <2>1, <1>1
<1>5. CASE h < i /\ ~Follows(lines, h, i)
  BY <1>5, <1>2 DEF TableFrom
<1>6. QED
  BY <1>2, <1>3, <1>4, <1>5

\* The sweep looks ahead and sees what there is in the whole text.
LEMMA AheadIsTheText ==
    ASSUME NEW lines \in SUBSET Nat, NEW next \in SUBSET lines,
           \A i \in next, j \in lines : i <= j => j \in next,
           NEW i \in next
    PROVE  /\ \A j \in lines : Follows(lines, i, j) => j \in next
           /\ \A j \in next : Follows(next, i, j) <=> Follows(lines, i, j)
           /\ TableStarts(next, i) <=> TableStarts(lines, i)
<1>1. \A j \in lines : Follows(lines, i, j) => j \in next
  BY DEF Follows
<1>2. \A j \in next : Follows(next, i, j) <=> Follows(lines, i, j)
  BY DEF Follows
<1>3. QED
  BY <1>1, <1>2 DEF TableStarts

-----------------------------------------------------------------------------
(* One turn of the sweep.                                                  *)

\* Among rows, a line led by a pipe is one more.
LEMMA SweepsRow ==
    ASSUME NEW lines \in SUBSET Nat, NEW next \in SUBSET lines, NEW out,
           NEW headers \in SUBSET lines, Swept(lines, next, out, TRUE, headers),
           NEW i \in next, \A j \in next : i <= j, markdown[i] \in PipeLed
    PROVE  Swept(lines, next \ {i}, out \ {i}, TRUE, headers)
<1> DEFINE seen == lines \ next
           more == lines \ (next \ {i})
<1>1. /\ \A k \in next, j \in lines : k <= j => j \in next
      /\ headers \subseteq seen
      /\ \A k \in seen :
            k \in headers <=> /\ TableStarts(lines, k)
                              /\ \A g \in headers : g < k => k \notin TableFrom(lines, g)
      /\ out = next \cup (seen \cap Kept(lines, headers))
  BY DEF Swept
<1>2. PICK h \in headers : /\ \A g \in headers : g <= h
                           /\ \A k \in seen : h <= k => k \in TableFrom(lines, h)
                           /\ \E k \in seen : h < k
  BY DEF Swept
<1>3. more = seen \cup {i} /\ i \notin seen
  OBVIOUS
<1>4. \A k \in seen : k < i
  BY <1>1
<1>5. i \in TableFrom(lines, h)
  <2>1. h \in lines /\ h < i
    BY <1>1, <1>4
  <2>2. \E k \in lines : h < k /\ k < i
    BY <1>2, <1>4
  <2>3. \A k \in lines : k < i => k \in seen
    OBVIOUS
  <2>4. \A k \in lines : h <= k /\ k < i => k \in TableFrom(lines, h)
    BY <2>3, <1>2
  <2>5. QED
    BY <2>1, <2>2, <2>4, TableGoesOn
<1>6. i \notin Kept(lines, headers)
  BY <1>5 DEF Kept
<1>7. i \notin headers /\ h < i
  BY <1>1, <1>4
<1>8. \A k \in more :
          k \in headers <=> /\ TableStarts(lines, k)
                            /\ \A g \in headers : g < k => k \notin TableFrom(lines, g)
  BY <1>1, <1>3, <1>5, <1>7
<1>9. out \ {i} = (next \ {i}) \cup (more \cap Kept(lines, headers))
  BY <1>1, <1>3, <1>6
<1>10. \A k \in next \ {i}, j \in lines : k <= j => j \in next \ {i}
  BY <1>1
<1>11. /\ \A k \in more : h <= k => k \in TableFrom(lines, h)
       /\ \E k \in more : h < k
       /\ headers \subseteq more
  BY <1>1, <1>2, <1>3, <1>5
<1> HIDE DEF seen
<1>12. QED
  BY <1>2, <1>8, <1>9, <1>10, <1>11 DEF Swept

\* Unless the next line goes on with the rows, no table found so far reaches what is ahead.
LEMMA TablesAreOver ==
    ASSUME NEW lines \in SUBSET Nat, NEW next \in SUBSET lines, NEW out,
           NEW amid \in BOOLEAN, NEW headers \in SUBSET lines,
           Swept(lines, next, out, amid, headers),
           NEW i \in next, \A j \in next : i <= j, ~(amid /\ markdown[i] \in PipeLed)
    PROVE  \A h \in headers, j \in next : j \notin TableFrom(lines, h)
<1> DEFINE seen == lines \ next
<1>1. CASE ~amid
  BY <1>1 DEF Swept
<1>2. CASE amid
  <2>1. PICK h \in headers : /\ \A g \in headers : g <= h
                             /\ \A k \in seen : h <= k => k \in TableFrom(lines, h)
                             /\ \E k \in seen : h < k
    BY <1>2 DEF Swept
  <2>2. /\ headers \subseteq seen
        /\ \A g \in headers : g < h => h \notin TableFrom(lines, g)
        /\ \A k \in next, j \in lines : k <= j => j \in next
    BY DEF Swept
  <2>3. \A k \in seen : k < i
    BY <2>2
  <2>4. i \notin TableFrom(lines, h)
    <3>1. h \in lines /\ h < i
      BY <2>2, <2>3
    <3>2. \E k \in lines : h < k /\ k < i
      BY <2>1, <2>3
    <3>3. \A k \in lines : k < i => k \in seen
      OBVIOUS
    <3>4. \A k \in lines : h <= k /\ k < i => k \in TableFrom(lines, h)
      BY <3>3, <2>1
    <3>5. QED
      BY <3>1, <3>2, <3>4, <1>2, TableGoesOn
  <2>5. ASSUME NEW g \in headers, NEW j \in next, j \in TableFrom(lines, g)
        PROVE  FALSE
    <3>1. h \in lines /\ g \in Nat /\ g <= h /\ h <= i /\ i <= j /\ j \in lines
      BY <2>1, <2>2, <2>3
    <3>2. h \in TableFrom(lines, g) /\ i \in TableFrom(lines, g)
      BY <3>1, <2>5, TableHasNoGap
    <3>3. QED
      BY <3>1, <3>2, <2>2, <2>4
  <2>6. QED
    BY <2>5
<1>3. QED
  BY <1>1, <1>2

\* A line that begins a table, with the separator that follows it, is its header.
LEMMA SweepsHeader ==
    ASSUME NEW lines \in SUBSET Nat, NEW next \in SUBSET lines, NEW out,
           NEW amid \in BOOLEAN, NEW headers \in SUBSET lines,
           Swept(lines, next, out, amid, headers),
           NEW i \in next, \A j \in next : i <= j, ~(amid /\ markdown[i] \in PipeLed),
           NEW j \in next, Follows(next, i, j), TableStarts(next, i)
    PROVE  Swept(lines, next \ {i, j}, out \ {i, j}, TRUE, headers \cup {i})
<1> DEFINE seen == lines \ next
           rest == next \ {i, j}
           more == lines \ rest
           found == headers \cup {i}
<1>1. /\ \A k \in next, l \in lines : k <= l => l \in next
      /\ headers \subseteq seen
      /\ \A k \in seen :
            k \in headers <=> /\ TableStarts(lines, k)
                              /\ \A g \in headers : g < k => k \notin TableFrom(lines, g)
      /\ out = next \cup (seen \cap Kept(lines, headers))
  BY DEF Swept
<1>2. \A h \in headers, k \in next : k \notin TableFrom(lines, h)
  BY TablesAreOver
<1>3. more = seen \cup {i, j} /\ i \notin seen /\ j \notin seen
  OBVIOUS
<1>4. i < j /\ Follows(lines, i, j) /\ TableStarts(lines, i)
  <2>1. Follows(lines, i, j) /\ TableStarts(lines, i)
    BY <1>1, AheadIsTheText
  <2>2. QED
    BY <2>1 DEF Follows
<1>5. i \in TableFrom(lines, i) /\ j \in TableFrom(lines, i)
  BY <1>4, TableBegins
<1>6. \A k \in seen : k < i /\ k \notin TableFrom(lines, i)
  BY <1>1 DEF TableFrom
<1>7. \A k \in more :
          k \in found <=> /\ TableStarts(lines, k)
                          /\ \A g \in found : g < k => k \notin TableFrom(lines, g)
  <2>1. ASSUME NEW k \in seen
        PROVE  k \in found <=> /\ TableStarts(lines, k)
                               /\ \A g \in found : g < k => k \notin TableFrom(lines, g)
    BY <1>1, <1>6
  <2>2. \A g \in found : g < i => i \notin TableFrom(lines, g)
    BY <1>2
  <2>3. j \notin found
    BY <1>1, <1>4
  <2>4. QED
    BY <2>1, <2>2, <2>3, <1>3, <1>4, <1>5
<1>8. out \ {i, j} = rest \cup (more \cap Kept(lines, found))
  <2>1. i \notin Kept(lines, found) /\ j \notin Kept(lines, found)
    BY <1>5 DEF Kept
  <2>2. seen \cap Kept(lines, found) = seen \cap Kept(lines, headers)
    BY <1>6 DEF Kept
  <2>3. QED
    BY <2>1, <2>2, <1>1, <1>3
<1>9. \A k \in rest, l \in lines : k <= l => l \in rest
  <2>1. SUFFICES ASSUME NEW k \in rest, NEW l \in lines, k <= l
                 PROVE  l \in next /\ l # i /\ l # j
    OBVIOUS
  <2>2. j < k
    BY <1>4 DEF Follows
  <2>3. QED
    BY <2>1, <2>2, <1>1, <1>4
<1>10. /\ \A g \in found : g <= i
       /\ \A k \in more : i <= k => k \in TableFrom(lines, i)
       /\ \E k \in more : i < k
       /\ found \subseteq more
  BY <1>1, <1>3, <1>4, <1>5, <1>6
<1> HIDE DEF seen
<1>11. QED
  BY <1>7, <1>8, <1>9, <1>10 DEF Swept

\* Any other line is dropped if it is an image or a caption, and kept if not.
LEMMA SweepsOther ==
    ASSUME NEW lines \in SUBSET Nat, NEW next \in SUBSET lines, NEW out,
           NEW amid \in BOOLEAN, NEW headers \in SUBSET lines,
           Swept(lines, next, out, amid, headers),
           NEW i \in next, \A j \in next : i <= j, ~(amid /\ markdown[i] \in PipeLed),
           ~TableStarts(next, i)
    PROVE  Swept(lines, next \ {i},
                 IF markdown[i] \in {"image", "caption"} THEN out \ {i} ELSE out, FALSE, headers)
<1> DEFINE seen == lines \ next
           more == lines \ (next \ {i})
           left == IF markdown[i] \in {"image", "caption"} THEN out \ {i} ELSE out
<1>1. /\ \A k \in next, l \in lines : k <= l => l \in next
      /\ headers \subseteq seen
      /\ \A k \in seen :
            k \in headers <=> /\ TableStarts(lines, k)
                              /\ \A g \in headers : g < k => k \notin TableFrom(lines, g)
      /\ out = next \cup (seen \cap Kept(lines, headers))
  BY DEF Swept
<1>2. \A h \in headers, k \in next : k \notin TableFrom(lines, h)
  BY TablesAreOver
<1>3. more = seen \cup {i} /\ i \notin seen
  OBVIOUS
<1>4. ~TableStarts(lines, i) /\ i \notin headers
  BY <1>1, AheadIsTheText
<1>5. \A k \in more :
          k \in headers <=> /\ TableStarts(lines, k)
                            /\ \A g \in headers : g < k => k \notin TableFrom(lines, g)
  BY <1>1, <1>3, <1>4
<1>6. left = (next \ {i}) \cup (more \cap Kept(lines, headers))
  <2>1. i \in Kept(lines, headers) <=> markdown[i] \notin {"image", "caption"}
    BY <1>2 DEF Kept
  <2>2. QED
    BY <2>1, <1>1, <1>3
<1>7. \A k \in next \ {i}, l \in lines : k <= l => l \in next \ {i}
  BY <1>1
<1>8. headers \subseteq more
  BY <1>1
<1> HIDE DEF seen
<1>9. QED
  BY <1>2, <1>5, <1>6, <1>7, <1>8 DEF Swept

-----------------------------------------------------------------------------
(* The whitespace rules.                                                   *)

\* The blank lines before a line are finitely many.
LEMMA BlankRunsAreCounted ==
    ASSUME markdown \in Markdowns, NEW lines \in SUBSET DOMAIN markdown, NEW i
    PROVE  IsFiniteSet(BlankRun(lines, i)) /\ Cardinality(BlankRun(lines, i)) \in Nat
<1>1. BlankRun(lines, i) \subseteq DOMAIN markdown
  BY DEF BlankRun
<1>2. QED
  BY <1>1, LinesOfMarkdown, FS_Subset, FS_CardinalityType

\* Collapsing the runs and trimming the end together show what the reference shows.
LEMMA TrimOfCollapsed ==
    ASSUME markdown \in Markdowns, NEW lines \in SUBSET DOMAIN markdown
    PROVE  TrimmedRight(Collapsed(lines)) = Shown(lines)
<1>1. lines \subseteq Nat
  BY LinesOfMarkdown
<1>2. \A j \in lines : ~Blank(j) => j \in Collapsed(lines)
  BY DEF Collapsed
<1>3. ASSUME NEW i \in lines
      PROVE  i \in TrimmedRight(Collapsed(lines)) <=> i \in Shown(lines)
  <2>1. CASE ~Blank(i)
    <3>1. i \in Collapsed(lines) /\ i <= i /\ i \in Shown(lines)
      BY <1>1, <1>2, <2>1 DEF Shown
    <3>2. QED
      BY <3>1, <2>1 DEF TrimmedRight
  <2>2. CASE Blank(i)
    <3> DEFINE n == Cardinality(BlankRun(lines, i))
    <3>1. n \in Nat
      BY BlankRunsAreCounted
    <3>2. i \in TrimmedRight(Collapsed(lines)) <=> i \in Collapsed(lines) /\ ~AtEnd(lines, i)
      <4>1. ASSUME NEW j \in lines
            PROVE  i <= j /\ ~Blank(j) <=> i < j /\ ~Blank(j)
        BY <1>1, <2>2
      <4>2. Collapsed(lines) \subseteq lines
        BY DEF Collapsed
      <4>3. (\E j \in Collapsed(lines) : i <= j /\ ~Blank(j)) <=> ~AtEnd(lines, i)
        BY <4>1, <4>2, <1>2 DEF AtEnd
      <4>4. QED
        BY <4>3 DEF TrimmedRight
    <3>3. i \in Collapsed(lines) /\ ~AtEnd(lines, i)
            <=> n <= (IF AtTop(lines, i) THEN 1 ELSE 0) /\ ~AtEnd(lines, i)
      BY <2>2, <3>1 DEF Collapsed
    <3>4. i \in Shown(lines) <=> n < (IF AtTop(lines, i) THEN 2 ELSE 1) /\ ~AtEnd(lines, i)
      BY <2>2 DEF Shown
    <3>5. n <= (IF AtTop(lines, i) THEN 1 ELSE 0) <=> n < (IF AtTop(lines, i) THEN 2 ELSE 1)
      BY <3>1
    <3>6. QED
      BY <3>2, <3>3, <3>4, <3>5
  <2>3. QED
    BY <2>1, <2>2
<1>4. TrimmedRight(Collapsed(lines)) \subseteq lines /\ Shown(lines) \subseteq lines
  BY DEF TrimmedRight, Collapsed, Shown
<1>5. QED
  BY <1>3, <1>4

\* What is shown needs no more showing: its runs are short already.
LEMMA ShownIsStable ==
    ASSUME markdown \in Markdowns, NEW lines \in SUBSET DOMAIN markdown
    PROVE  Shown(Shown(lines)) = Shown(lines)
<1> DEFINE shown == Shown(lines)
<1>1. lines \subseteq Nat /\ shown \subseteq lines
  BY LinesOfMarkdown DEF Shown
<1>2. \A j \in lines : ~Blank(j) => j \in shown
  BY DEF Shown
<1>3. ASSUME NEW i \in shown, Blank(i)
      PROVE  /\ ~AtEnd(shown, i)
             /\ Cardinality(BlankRun(shown, i)) < IF AtTop(shown, i) THEN 2 ELSE 1
  <2>1. /\ ~AtEnd(lines, i)
        /\ Cardinality(BlankRun(lines, i)) < IF AtTop(lines, i) THEN 2 ELSE 1
    BY <1>3 DEF Shown
  <2>2. ~AtEnd(shown, i)
    BY <2>1, <1>2 DEF AtEnd
  <2>3. AtTop(shown, i) <=> AtTop(lines, i)
    BY <1>1, <1>2 DEF AtTop
  <2>4. BlankRun(shown, i) \subseteq BlankRun(lines, i)
    BY <1>1, <1>2 DEF BlankRun
  <2>5. Cardinality(BlankRun(shown, i)) <= Cardinality(BlankRun(lines, i))
    BY <2>4, BlankRunsAreCounted, FS_Subset
  <2>6. Cardinality(BlankRun(shown, i)) \in Nat /\ Cardinality(BlankRun(lines, i)) \in Nat
    <3>1. shown \in SUBSET DOMAIN markdown
      BY <1>1
    <3>2. QED
      BY <3>1, BlankRunsAreCounted
  <2>7. Cardinality(BlankRun(shown, i)) < IF AtTop(lines, i) THEN 2 ELSE 1
    BY <2>1, <2>5, <2>6
  <2>8. QED
    BY <2>2, <2>3, <2>7
<1>4. shown \subseteq Shown(shown) /\ Shown(shown) \subseteq shown
  <2> HIDE DEF shown
  <2>1. QED
    BY <1>3 DEF Shown
<1>5. QED
  BY <1>4

\* A text that the rules have nothing to drop from, but for tables.
Clean(lines) ==
    /\ \A i \in lines : markdown[i] \notin {"refs", "image", "caption"}
    /\ Shown(lines) = lines

\* What the rules leave is clean.
LEMMA WhatIsShownIsClean ==
    ASSUME markdown \in Markdowns, NEW input \in SUBSET DOMAIN markdown, NEW headers
    PROVE  Clean(Shown(Kept(UpToReferences(input), headers)))
<1> DEFINE kept == Kept(UpToReferences(input), headers)
<1>1. UpToReferences(input) \subseteq DOMAIN markdown
  BY DEF UpToReferences
<1>2. kept \subseteq UpToReferences(input)
  BY DEF Kept
<1>3. Shown(kept) \subseteq kept
  BY DEF Shown
<1>4. \A i \in UpToReferences(input) : markdown[i] # "refs"
  <2>1. \A i \in input : i <= i
    BY LinesOfMarkdown
  <2>2. QED
    BY <2>1 DEF UpToReferences
<1>5. \A i \in kept : markdown[i] \notin {"image", "caption"}
  BY DEF Kept
<1>6. kept \in SUBSET DOMAIN markdown
  BY <1>1, <1>2
<1> HIDE DEF kept
<1>7. Shown(Shown(kept)) = Shown(kept)
  BY <1>6, ShownIsStable
<1>8. Clean(Shown(kept))
  BY <1>2, <1>3, <1>4, <1>5, <1>7 DEF Clean
<1>9. QED
  BY <1>8 DEF kept

\* A clean text without the beginning of a table is its own body.
LEMMA CleanTextIsKept ==
    ASSUME markdown \in Markdowns, NEW input \in SUBSET DOMAIN markdown, Clean(input),
           \A i \in input : ~TableStarts(input, i),
           NEW headers \in SUBSET UpToReferences(input),
           AreHeaders(UpToReferences(input), headers)
    PROVE  Shown(Kept(UpToReferences(input), headers)) = input
<1>1. UpToReferences(input) = input
  BY DEF UpToReferences, Clean
<1>2. headers = {}
  BY <1>1 DEF AreHeaders
<1>3. Kept(input, headers) = input
  BY <1>2 DEF Kept, Clean
<1>4. QED
  BY <1>1, <1>3 DEF Clean

-----------------------------------------------------------------------------
(* Counting words.                                                         *)

\* A nonempty set of naturals up to a bound has a least member: without one, taking one
\* away would map what lies above it one to one into less of it.
LEMMA LeastMember ==
    ASSUME NEW n \in Nat, NEW S \in SUBSET (0 .. n), S # {}
    PROVE  \E x \in S : \A y \in S : x <= y
<1> SUFFICES ASSUME \A x \in S : \E y \in S : y < x
             PROVE  FALSE
  OBVIOUS
<1> DEFINE above == {i \in 0 .. n : \E x \in S : x <= i}
           down == [i \in above |-> i - 1]
<1>1. n \in above /\ IsFiniteSet(above)
  <2>1. n \in above
    <3>1. PICK x \in S : TRUE
      OBVIOUS
    <3>2. x \in 0 .. n /\ x <= n /\ n \in 0 .. n
      OBVIOUS
    <3>3. QED
      BY <3>2
  <2>2. IsFiniteSet(0 .. n)
    BY FS_Interval
  <2>3. above \subseteq 0 .. n
    OBVIOUS
  <2>4. QED
    BY <2>1, <2>2, <2>3, FS_Subset
<1>2. \A i \in above : i - 1 \in above \ {n}
  <2>1. SUFFICES ASSUME NEW i \in above
                 PROVE  i - 1 \in above \ {n}
    OBVIOUS
  <2>2. PICK x \in S : x <= i
    OBVIOUS
  <2>3. PICK y \in S : y < x
    OBVIOUS
  <2>4. y \in Int /\ x \in Int /\ i \in Int /\ 0 <= y /\ i <= n
    OBVIOUS
  <2>5. y <= i - 1 /\ i - 1 \in 0 .. n /\ i - 1 # n
    BY <2>2, <2>3, <2>4
  <2>6. QED
    BY <2>5
<1>3. IsFiniteSet(above \ {n}) /\ Cardinality(above \ {n}) < Cardinality(above)
  <2> HIDE DEF above
  <2>1. Cardinality(above) \in Nat /\ Cardinality(above \ {n}) = Cardinality(above) - 1
    BY <1>1, FS_RemoveElement, FS_CardinalityType
  <2>2. QED
    BY <2>1, <1>1, FS_RemoveElement
<1>4. down \in [above -> above \ {n}]
  BY <1>2
<1>5. \A i, j \in above : i # j => down[i] # down[j]
  OBVIOUS
<1> HIDE DEF above, down
<1>6. \E i, j \in above : i # j /\ down[i] = down[j]
  BY <1>1, <1>3, <1>4, FS_PigeonHole
<1>7. QED
  BY <1>5, <1>6

\* What a line adds to the count of the words of lines.
Adds(lines, m) == IF m \in lines THEN Words(markdown[m]) ELSE 0

\* f counts the words of lines up to each position, as far as n.
Counts(lines, n, f) ==
    /\ f \in [0 .. n -> Nat]
    /\ \A m \in 0 .. n : f[m] = IF m = 0 THEN 0 ELSE f[m - 1] + Adds(lines, m)

\* A line adds a number of words.
LEMMA AddsType == \A lines, m : Adds(lines, m) \in Nat
  BY DEF Adds, Words

\* However many lines there are, their words can be counted.
LEMMA WordsCanBeCounted ==
    ASSUME NEW last \in Nat, NEW lines
    PROVE  \E f : Counts(lines, last, f)
<1> DEFINE Bad == {n \in 0 .. last : ~\E f : Counts(lines, n, f)}
<1> SUFFICES ASSUME Bad # {}
             PROVE  FALSE
  OBVIOUS
<1>1. PICK n \in Bad : \A m \in Bad : n <= m
  <2>1. Bad \in SUBSET (0 .. last)
    OBVIOUS
  <2> HIDE DEF Bad
  <2>2. QED
    BY <2>1, LeastMember
<1>2. n \in 0 .. last /\ ~\E f : Counts(lines, n, f)
  OBVIOUS
<1>3. n # 0
  <2>1. Counts(lines, 0, [m \in 0 .. 0 |-> 0])
    BY DEF Counts
  <2>2. QED
    BY <2>1, <1>2
<1>4. PICK f : Counts(lines, n - 1, f)
  <2>1. n - 1 \in 0 .. last /\ n - 1 < n
    BY <1>2, <1>3
  <2>2. n - 1 \notin Bad
    BY <1>1, <2>1
  <2>3. QED
    BY <2>1, <2>2
<1> DEFINE g == [m \in 0 .. n |-> IF m = n THEN f[n - 1] + Adds(lines, n) ELSE f[m]]
<1>5. Counts(lines, n, g)
  <2>1. f \in [0 .. n - 1 -> Nat]
    BY <1>4 DEF Counts
  <2>2. n \in Nat /\ n - 1 \in 0 .. n - 1
    BY <1>2, <1>3
  <2>3. g \in [0 .. n -> Nat]
    BY <2>1, <2>2, AddsType
  <2>4. \A m \in 0 .. n : m # n => m \in 0 .. n - 1 /\ (m # 0 => m - 1 \in 0 .. n - 1)
    BY <2>2
  <2>5. \A m \in 0 .. n - 1 : f[m] = IF m = 0 THEN 0 ELSE f[m - 1] + Adds(lines, m)
    BY <1>4 DEF Counts
  <2>6. ASSUME NEW m \in 0 .. n
        PROVE  g[m] = IF m = 0 THEN 0 ELSE g[m - 1] + Adds(lines, m)
    <3>1. CASE m = n
      <4>1. g[n] = f[n - 1] + Adds(lines, n) /\ g[n - 1] = f[n - 1]
        BY <2>2
      <4>2. QED
        BY <4>1, <3>1, <1>3
    <3>2. CASE m # n
      <4>1. g[m] = f[m] /\ (m # 0 => g[m - 1] = f[m - 1])
        BY <3>2, <2>2, <2>4
      <4>2. QED
        BY <4>1, <3>2, <2>4, <2>5
    <3>3. QED
      BY <3>1, <3>2
  <2> HIDE DEF g
  <2>7. QED
    BY <2>3, <2>6 DEF Counts
<1>6. QED
  BY <1>2, <1>5

\* WordCount is the last of those numbers.
LEMMA WordCountCounts ==
    ASSUME Len(markdown) \in Nat, NEW lines
    PROVE  \E f : Counts(lines, Len(markdown), f) /\ WordCount(lines) = f[Len(markdown)]
<1> DEFINE L == Len(markdown)
           Body(f) == [n \in 0 .. L |-> IF n = 0 THEN 0 ELSE f[n - 1] + Adds(lines, n)]
           upTo == CHOOSE f : f = Body(f)
<1>1. PICK f : Counts(lines, L, f)
  BY WordsCanBeCounted
<1>2. f = Body(f)
  BY <1>1 DEF Counts
<1>3. upTo = Body(upTo)
  BY <1>2
<1>4. WordCount(lines) = upTo[L]
  BY DEF WordCount, Adds
<1>5. \A m \in 0 .. L : upTo[m] = IF m = 0 THEN 0 ELSE upTo[m - 1] + Adds(lines, m)
  <2> DEFINE u == upTo
  <2>1. u = [n \in 0 .. L |-> IF n = 0 THEN 0 ELSE u[n - 1] + Adds(lines, n)]
    BY <1>3
  <2> HIDE DEF u
  <2>2. \A m \in 0 .. L : u[m] = IF m = 0 THEN 0 ELSE u[m - 1] + Adds(lines, m)
    BY <2>1
  <2>3. QED
    BY <2>2 DEF u
<1> HIDE DEF upTo
<1>6. \A m \in 0 .. L : upTo[m] = f[m]
  <2> DEFINE Bad == {m \in 0 .. L : upTo[m] # f[m]}
  <2> SUFFICES ASSUME Bad # {}
               PROVE  FALSE
    OBVIOUS
  <2>1. PICK n \in Bad : \A m \in Bad : n <= m
    <3>1. Bad \in SUBSET (0 .. L)
      OBVIOUS
    <3> HIDE DEF Bad
    <3>2. QED
      BY <3>1, LeastMember
  <2>2. n \in 0 .. L /\ upTo[n] # f[n]
    OBVIOUS
  <2>3. n # 0
    BY <2>2, <1>1, <1>5 DEF Counts
  <2>4. n - 1 \in 0 .. L /\ n - 1 < n
    BY <2>2, <2>3
  <2>5. upTo[n - 1] = f[n - 1]
    BY <2>1, <2>4
  <2>6. f[n] = f[n - 1] + Adds(lines, n) /\ upTo[n] = upTo[n - 1] + Adds(lines, n)
    BY <2>2, <2>3, <1>1, <1>5 DEF Counts
  <2>7. QED
    BY <2>2, <2>5, <2>6
<1>7. L \in 0 .. L
  OBVIOUS
<1>8. QED
  BY <1>1, <1>4, <1>6, <1>7

\* Fewer lines have no more words.
LEMMA FewerLinesFewerWords ==
    ASSUME Len(markdown) \in Nat, NEW lines, NEW fewer \in SUBSET lines
    PROVE  /\ WordCount(fewer) \in Nat /\ WordCount(lines) \in Nat
           /\ WordCount(fewer) <= WordCount(lines)
<1> DEFINE L == Len(markdown)
<1>1. PICK f : Counts(fewer, L, f) /\ WordCount(fewer) = f[L]
  BY WordCountCounts
<1>2. PICK g : Counts(lines, L, g) /\ WordCount(lines) = g[L]
  BY WordCountCounts
<1>3. f \in [0 .. L -> Nat] /\ g \in [0 .. L -> Nat]
  BY <1>1, <1>2 DEF Counts
<1>4. \A m : Adds(fewer, m) <= Adds(lines, m) /\ Adds(fewer, m) \in Nat /\ Adds(lines, m) \in Nat
  BY AddsType DEF Adds
<1>5. \A m \in 0 .. L : f[m] <= g[m]
  <2> DEFINE Bad == {m \in 0 .. L : ~(f[m] <= g[m])}
  <2> SUFFICES ASSUME Bad # {}
               PROVE  FALSE
    OBVIOUS
  <2>1. PICK n \in Bad : \A m \in Bad : n <= m
    <3>1. Bad \in SUBSET (0 .. L)
      OBVIOUS
    <3> HIDE DEF Bad
    <3>2. QED
      BY <3>1, LeastMember
  <2>2. n \in 0 .. L /\ ~(f[n] <= g[n])
    OBVIOUS
  <2>3. n # 0
    BY <2>2, <1>1, <1>2 DEF Counts
  <2>4. n - 1 \in 0 .. L /\ n - 1 < n
    BY <2>2, <2>3
  <2>5. f[n - 1] <= g[n - 1]
    BY <2>1, <2>4
  <2>6. f[n] = f[n - 1] + Adds(fewer, n) /\ g[n] = g[n - 1] + Adds(lines, n)
    BY <2>2, <2>3, <1>1, <1>2 DEF Counts
  <2>7. f[n - 1] \in Nat /\ g[n - 1] \in Nat
    BY <2>4, <1>3
  <2>8. QED
    BY <2>2, <2>5, <2>6, <2>7, <1>4
<1>6. L \in 0 .. L
  OBVIOUS
<1>7. QED
  BY <1>1, <1>2, <1>3, <1>5, <1>6

-----------------------------------------------------------------------------
(* The inductive invariant.                                                *)

\* What the later rules have made of the lines that are kept.
Made(kept) ==
    IF rule = "collapse" THEN kept
    ELSE IF rule = "trim" THEN Collapsed(kept) ELSE Shown(kept)

RuleInv ==
    /\ rule \in {"truncate", "strip", "collapse", "trim", "describe", "done"}
    /\ rule # "strip" => ahead = {}
    /\ rule = "truncate" => body = given
    /\ rule = "strip" =>
         /\ ahead \subseteq Document
         /\ \E headers \in SUBSET Document : Swept(Document, ahead, body, inTable, headers)
    /\ rule \in {"collapse", "trim", "describe", "done"} =>
         \E headers \in SUBSET Document :
            AreHeaders(Document, headers) /\ body = Made(Kept(Document, headers))
    /\ rule = "done" => artifact = [title |-> SelectTitle(body), words |-> WordCount(body)]

SecondInputIsClean == pass = 2 => Clean(given)

NormalizeInv == TextTypes /\ RuleInv /\ SecondInputIsClean

\* While the document and the input stay, so does what is said of them.
LEMMA SameInput ==
    ASSUME markdown' = markdown, given' = given
    PROVE  /\ Document' = Document
           /\ Clean(given)' = Clean(given)
           /\ \A lines, headers : /\ Kept(lines, headers)' = Kept(lines, headers)
                                  /\ AreHeaders(lines, headers)' = AreHeaders(lines, headers)
  BY DEF Document, UpToReferences, Clean, Shown, Blank, AtEnd, AtTop, BlankRun, Kept,
         AreHeaders, TableStarts, TableFrom, Follows

\* While the document stays, so do the rules on lines.
LEMMA SameRules ==
    ASSUME markdown' = markdown
    PROVE  \A lines : /\ Collapsed(lines)' = Collapsed(lines)
                      /\ Shown(lines)' = Shown(lines)
                      /\ Clean(lines)' = Clean(lines)
                      /\ SelectTitle(lines)' = SelectTitle(lines)
                      /\ WordCount(lines)' = WordCount(lines)
  BY DEF Collapsed, Shown, Clean, Blank, AtEnd, AtTop, BlankRun, SelectTitle, WordCount

\* While the document stays, so does what a state of the sweep says.
LEMMA SameSweep ==
    ASSUME markdown' = markdown, NEW lines, NEW next, NEW out, NEW amid, NEW headers
    PROVE  Swept(lines, next, out, amid, headers)' <=> Swept(lines, next, out, amid, headers)
  BY DEF Swept, Kept, TableStarts, TableFrom, Follows

\* The lines of the input are numbers, and those of the document are of the input.
LEMMA DocumentLines ==
    ASSUME TextTypes
    PROVE  /\ given \in SUBSET Nat /\ given \in SUBSET DOMAIN markdown
           /\ Document \in SUBSET given /\ Document \in SUBSET Nat
           /\ Document \in SUBSET DOMAIN markdown
  BY LinesOfMarkdown DEF TextTypes, Document, UpToReferences

\* The invariant holds initially.
LEMMA NormalizeInvInit == NormalizeInit => NormalizeInv
<1> SUFFICES ASSUME NormalizeInit
             PROVE  NormalizeInv
  OBVIOUS
<1>1. /\ markdown \in Markdowns /\ given = DOMAIN markdown /\ body = given /\ ahead = {}
      /\ inTable = FALSE /\ rule = "truncate" /\ pass = 1
  BY DEF NormalizeInit
<1>2. TextTypes
  BY <1>1 DEF TextTypes
<1>3. RuleInv
  BY <1>1 DEF RuleInv
<1>4. SecondInputIsClean
  BY <1>1 DEF SecondInputIsClean
<1>5. QED
  BY <1>2, <1>3, <1>4 DEF NormalizeInv

\* Truncation leaves the document, all of it ahead of the sweep.
LEMMA TruncateStep == NormalizeInv /\ TruncateAtReferences => NormalizeInv'
<1> SUFFICES ASSUME NormalizeInv, TruncateAtReferences
             PROVE  NormalizeInv'
  OBVIOUS
<1>1. TextTypes /\ RuleInv /\ SecondInputIsClean
  BY DEF NormalizeInv
<1>2. /\ body = given /\ markdown' = markdown /\ given' = given /\ pass' = pass
      /\ body' = Document /\ ahead' = Document /\ inTable' = FALSE /\ rule' = "strip"
  BY <1>1 DEF TruncateAtReferences, Rewrites, RuleInv, Document
<1>3. Document' = Document /\ Document \in SUBSET given
  BY <1>1, <1>2, SameInput, DocumentLines
<1>4. TextTypes'
  BY <1>1, <1>2, <1>3 DEF TextTypes
<1>5. Swept(Document, Document, Document, FALSE, {})
  BY DEF Swept
<1>6. Swept(Document, Document, Document, FALSE, {})'
  <2>1. PICK lines : lines = Document
    OBVIOUS
  <2>2. Swept(lines, lines, lines, FALSE, {})'
    BY <1>2, <1>5, <2>1, SameSweep
  <2>3. Document' = lines
    BY <1>3, <2>1
  <2>4. QED
    BY <2>2, <2>3
<1>7. RuleInv'
  BY <1>2, <1>3, <1>6 DEF RuleInv
<1>8. SecondInputIsClean'
  BY <1>1, <1>2, SameInput DEF SecondInputIsClean
<1>9. QED
  BY <1>4, <1>7, <1>8 DEF NormalizeInv

\* A turn of the sweep leaves a state of the sweep.
LEMMA StripLineStep == NormalizeInv /\ StripLine => NormalizeInv'
<1> SUFFICES ASSUME NormalizeInv, StripLine
             PROVE  NormalizeInv'
  OBVIOUS
<1>1. TextTypes /\ RuleInv /\ SecondInputIsClean
  BY DEF NormalizeInv
<1>2. markdown' = markdown /\ given' = given /\ rule' = "strip" /\ rule = "strip" /\ pass' = pass
  BY DEF StripLine
<1>3. PICK lines, next, out : lines = Document /\ next = ahead /\ out = body
  OBVIOUS
<1>4. lines \in SUBSET Nat /\ next \in SUBSET lines /\ inTable \in BOOLEAN
  BY <1>1, <1>2, <1>3, DocumentLines DEF RuleInv, TextTypes
<1>5. PICK headers \in SUBSET lines : Swept(lines, next, out, inTable, headers)
  BY <1>1, <1>2, <1>3 DEF RuleInv
<1>6. PICK i \in next :
         LET header == ~IsRow(i) /\ TableStarts(next, i)
             taken == {i} \cup {j \in next : header /\ Follows(next, i, j)}
             dropped == IsRow(i) \/ header \/ markdown[i] \in {"image", "caption"}
         IN  /\ \A j \in next : i <= j
             /\ ahead' = next \ taken
             /\ body' = IF dropped THEN out \ taken ELSE out
             /\ inTable' = (IsRow(i) \/ header)
  BY <1>3 DEF StripLine
<1>7. \E found \in SUBSET lines : Swept(lines, ahead', body', inTable', found)
  <2>1. CASE IsRow(i)
    <3>1. /\ ahead' = next \ {i} /\ body' = out \ {i} /\ inTable' = TRUE
          /\ inTable = TRUE /\ markdown[i] \in PipeLed
      BY <1>6, <2>1 DEF IsRow
    <3>2. Swept(lines, next, out, TRUE, headers)
      BY <1>5, <3>1
    <3>3. Swept(lines, next \ {i}, out \ {i}, TRUE, headers)
      BY <1>4, <1>6, <3>1, <3>2, SweepsRow
    <3>4. QED
      BY <3>1, <3>3
  <2>2. CASE ~IsRow(i) /\ TableStarts(next, i)
    <3>1. PICK j \in next : Follows(next, i, j)
      BY <2>2 DEF TableStarts
    <3>2. {k \in next : Follows(next, i, k)} = {j}
      <4>1. ASSUME NEW k \in next, Follows(next, i, k)
            PROVE  k = j
        BY <1>4, <3>1, <4>1 DEF Follows
      <4>2. QED
        BY <3>1, <4>1
    <3>3. ahead' = next \ {i, j} /\ body' = out \ {i, j} /\ inTable' = TRUE
      BY <1>6, <2>2, <3>2
    <3>4. ~(inTable /\ markdown[i] \in PipeLed)
      BY <2>2 DEF IsRow
    <3>5. Swept(lines, next \ {i, j}, out \ {i, j}, TRUE, headers \cup {i})
      BY <1>4, <1>5, <1>6, <2>2, <3>1, <3>4, SweepsHeader
    <3>6. headers \cup {i} \in SUBSET lines
      BY <1>4
    <3>7. QED
      BY <3>3, <3>5, <3>6
  <2>3. CASE ~IsRow(i) /\ ~TableStarts(next, i)
    <3>1. /\ ahead' = next \ {i} /\ inTable' = FALSE
          /\ body' = IF markdown[i] \in {"image", "caption"} THEN out \ {i} ELSE out
      BY <1>6, <2>3
    <3>2. ~(inTable /\ markdown[i] \in PipeLed)
      BY <2>3 DEF IsRow
    <3>3. Swept(lines, next \ {i},
                IF markdown[i] \in {"image", "caption"} THEN out \ {i} ELSE out, FALSE, headers)
      BY <1>4, <1>5, <1>6, <2>3, <3>2, SweepsOther
    <3>4. QED
      BY <3>1, <3>3
  <2>4. QED
    BY <2>1, <2>2, <2>3
<1>8. ahead' \subseteq ahead /\ body' \subseteq body /\ inTable' \in BOOLEAN
  BY <1>3, <1>6
<1>9. Document' = lines
  BY <1>2, <1>3, SameInput
<1>10. ahead' \subseteq lines
  BY <1>3, <1>4, <1>8
<1>11. ahead' \subseteq body'
  <2>1. next \subseteq out
    BY <1>1, <1>3 DEF TextTypes
  <2>2. QED
    BY <1>6, <2>1
<1>12. TextTypes'
  BY <1>1, <1>2, <1>8, <1>11 DEF TextTypes
<1>13. PICK found \in SUBSET lines : Swept(lines, ahead', body', inTable', found)
  BY <1>7
<1>14. Swept(Document, ahead, body, inTable, found)'
  <2>1. PICK a, b, t : a = ahead' /\ b = body' /\ t = inTable'
    OBVIOUS
  <2>2. Swept(lines, a, b, t, found)'
    BY <1>2, <1>13, <2>1, SameSweep
  <2>3. QED
    BY <1>9, <2>1, <2>2
<1>15. RuleInv'
  BY <1>2, <1>9, <1>10, <1>14 DEF RuleInv
<1>16. SecondInputIsClean'
  BY <1>1, <1>2, SameInput DEF SecondInputIsClean
<1>17. QED
  BY <1>12, <1>15, <1>16 DEF NormalizeInv

\* The sweep that has passed the last line has dropped what the reference drops.
LEMMA StripEndsStep == NormalizeInv /\ StripEnds => NormalizeInv'
<1> SUFFICES ASSUME NormalizeInv, StripEnds
             PROVE  NormalizeInv'
  OBVIOUS
<1>1. TextTypes /\ RuleInv /\ SecondInputIsClean
  BY DEF NormalizeInv
<1>2. /\ markdown' = markdown /\ given' = given /\ rule = "strip" /\ rule' = "collapse"
      /\ pass' = pass /\ body' = body /\ ahead' = ahead /\ inTable' = inTable /\ ahead = {}
  BY DEF StripEnds, Rewrites
<1>3. PICK headers \in SUBSET Document : Swept(Document, {}, body, inTable, headers)
  BY <1>1, <1>2 DEF RuleInv
<1>4. AreHeaders(Document, headers) /\ body = Kept(Document, headers)
  <2>1. Document \ {} = Document /\ Kept(Document, headers) \subseteq Document
    BY DEF Kept
  <2>2. QED
    BY <1>3, <2>1 DEF Swept, AreHeaders
<1>5. TextTypes'
  BY <1>1, <1>2 DEF TextTypes
<1>6. Document' = Document /\ Clean(given)' = Clean(given)
  BY <1>2, SameInput
<1>7. AreHeaders(Document, headers)' /\ body' = Kept(Document, headers)'
  <2>1. PICK lines : lines = Document
    OBVIOUS
  <2>2. AreHeaders(lines, headers)' /\ Kept(lines, headers)' = Kept(lines, headers)
    BY <1>2, <1>4, <2>1, SameInput
  <2>3. Document' = lines
    BY <1>6, <2>1
  <2>4. QED
    BY <1>2, <1>4, <2>1, <2>2, <2>3
<1>8. RuleInv'
  BY <1>2, <1>6, <1>7 DEF RuleInv, Made
<1>9. SecondInputIsClean'
  BY <1>1, <1>2, <1>6 DEF SecondInputIsClean
<1>10. QED
  BY <1>5, <1>8, <1>9 DEF NormalizeInv

\* The rules after the sweep leave what Made says of the lines that are kept.
LEMMA WhitespaceStep == NormalizeInv /\ (CollapseBlankRuns \/ TrimRight) => NormalizeInv'
<1> SUFFICES ASSUME NormalizeInv, CollapseBlankRuns \/ TrimRight
             PROVE  NormalizeInv'
  OBVIOUS
<1>1. TextTypes /\ RuleInv /\ SecondInputIsClean
  BY DEF NormalizeInv
<1>2. /\ markdown' = markdown /\ given' = given /\ pass' = pass
      /\ ahead' = ahead /\ inTable' = inTable /\ rule \in {"collapse", "trim"}
  BY DEF CollapseBlankRuns, TrimRight, Rewrites
<1>3. PICK headers \in SUBSET Document :
         AreHeaders(Document, headers) /\ body = Made(Kept(Document, headers))
  BY <1>1, <1>2 DEF RuleInv
<1>4. PICK kept : kept = Kept(Document, headers)
  OBVIOUS
<1>5. kept \in SUBSET DOMAIN markdown
  BY <1>1, <1>4, DocumentLines DEF Kept
<1>6. rule' \in {"trim", "describe"} /\ body' = IF rule' = "trim" THEN Collapsed(kept) ELSE Shown(kept)
  <2>1. CASE CollapseBlankRuns
    BY <2>1, <1>3, <1>4 DEF CollapseBlankRuns, Rewrites, Made
  <2>2. CASE TrimRight
    <3>1. body = Collapsed(kept) /\ body' = TrimmedRight(body) /\ rule' = "describe"
      BY <2>2, <1>3, <1>4 DEF TrimRight, Rewrites, Made
    <3>2. QED
      BY <3>1, <1>1, <1>5, TrimOfCollapsed DEF TextTypes
  <2>3. QED
    BY <2>1, <2>2
<1>7. body' = Made(kept)'
  <2>1. Collapsed(kept)' = Collapsed(kept) /\ Shown(kept)' = Shown(kept)
    BY <1>2, SameRules
  <2>2. QED
    BY <1>6, <2>1 DEF Made
<1>8. Document' = Document /\ Clean(given)' = Clean(given)
  BY <1>2, SameInput
<1>9. AreHeaders(Document, headers)' /\ body' = Made(Kept(Document, headers))'
  <2>1. PICK lines : lines = Document
    OBVIOUS
  <2>2. AreHeaders(lines, headers)' /\ Kept(lines, headers)' = kept
    BY <1>2, <1>3, <1>4, <2>1, SameInput
  <2>3. Document' = lines
    BY <1>8, <2>1
  <2>4. QED
    BY <1>7, <2>2, <2>3 DEF Made
<1>10. RuleInv'
  <2>1. ahead' = {}
    BY <1>1, <1>2 DEF RuleInv
  <2>2. QED
    BY <2>1, <1>6, <1>8, <1>9 DEF RuleInv
<1>11. TextTypes'
  <2>1. body' \subseteq body
    BY DEF CollapseBlankRuns, TrimRight, Rewrites, Collapsed, TrimmedRight
  <2>2. body' \subseteq given
    BY <1>1, <2>1 DEF TextTypes
  <2>3. ahead' \subseteq body'
    BY <1>1, <1>2 DEF RuleInv
  <2>4. QED
    BY <1>1, <1>2, <2>2, <2>3 DEF TextTypes
<1>12. SecondInputIsClean'
  BY <1>1, <1>2, <1>8 DEF SecondInputIsClean
<1>13. QED
  BY <1>10, <1>11, <1>12 DEF NormalizeInv

\* The description is of the body as it stands.
LEMMA DescribeStep == NormalizeInv /\ Describe => NormalizeInv'
<1> SUFFICES ASSUME NormalizeInv, Describe
             PROVE  NormalizeInv'
  OBVIOUS
<1>1. TextTypes /\ RuleInv /\ SecondInputIsClean
  BY DEF NormalizeInv
<1>2. /\ markdown' = markdown /\ given' = given /\ pass' = pass /\ body' = body
      /\ ahead' = ahead /\ inTable' = inTable /\ rule = "describe" /\ rule' = "done"
      /\ artifact' = [title |-> SelectTitle(body), words |-> WordCount(body)]
  BY DEF Describe
<1>3. PICK headers \in SUBSET Document :
         AreHeaders(Document, headers) /\ body = Made(Kept(Document, headers))
  BY <1>1, <1>2 DEF RuleInv
<1>4. Document' = Document /\ Clean(given)' = Clean(given)
  BY <1>2, SameInput
<1>5. AreHeaders(Document, headers)' /\ body' = Made(Kept(Document, headers))'
  <2>1. PICK lines, kept : lines = Document /\ kept = Kept(Document, headers)
    OBVIOUS
  <2>2. AreHeaders(lines, headers)' /\ Kept(lines, headers)' = kept
    BY <1>2, <1>3, <2>1, SameInput
  <2>3. body' = Shown(kept) /\ Shown(kept)' = Shown(kept)
    BY <1>2, <1>3, <2>1, SameRules DEF Made
  <2>4. Document' = lines
    BY <1>4, <2>1
  <2>5. Made(kept)' = Shown(kept)'
    BY <1>2 DEF Made
  <2>6. QED
    BY <2>2, <2>3, <2>4, <2>5 DEF Made
<1>6. artifact' = [title |-> SelectTitle(body), words |-> WordCount(body)]'
  <2>1. PICK lines : lines = body
    OBVIOUS
  <2>2. SelectTitle(lines)' = SelectTitle(lines) /\ WordCount(lines)' = WordCount(lines)
    BY <1>2, SameRules
  <2>3. QED
    BY <1>2, <2>1, <2>2
<1>7. RuleInv'
  <2>1. ahead' = {}
    BY <1>1, <1>2 DEF RuleInv
  <2>2. QED
    BY <2>1, <1>2, <1>4, <1>5, <1>6 DEF RuleInv
<1>8. TextTypes'
  BY <1>1, <1>2 DEF TextTypes
<1>9. SecondInputIsClean'
  BY <1>1, <1>2, <1>4 DEF SecondInputIsClean
<1>10. QED
  BY <1>7, <1>8, <1>9 DEF NormalizeInv

\* The body of the first pass is a clean input of the second.
LEMMA AgainStep == NormalizeInv /\ Again => NormalizeInv'
<1> SUFFICES ASSUME NormalizeInv, Again
             PROVE  NormalizeInv'
  OBVIOUS
<1>1. TextTypes /\ RuleInv
  BY DEF NormalizeInv
<1>2. /\ markdown' = markdown /\ given' = body /\ pass' = 2 /\ body' = body
      /\ ahead' = ahead /\ inTable' = inTable /\ rule = "done" /\ rule' = "truncate"
  BY DEF Again
<1>3. PICK headers \in SUBSET Document :
         AreHeaders(Document, headers) /\ body = Shown(Kept(Document, headers))
  BY <1>1, <1>2 DEF RuleInv, Made
<1>4. Clean(body)
  BY <1>1, <1>3, WhatIsShownIsClean DEF Document, TextTypes
<1>5. Clean(given)'
  <2>1. PICK lines : lines = body
    OBVIOUS
  <2>2. Clean(lines)'
    BY <1>2, <1>4, <2>1, SameRules
  <2>3. QED
    BY <1>2, <2>1, <2>2
<1>6. TextTypes'
  BY <1>1, <1>2 DEF TextTypes
<1>7. RuleInv'
  BY <1>1, <1>2 DEF RuleInv
<1>8. QED
  BY <1>5, <1>6, <1>7 DEF NormalizeInv, SecondInputIsClean

\* Every step preserves the invariant.
LEMMA NormalizeInvNext == NormalizeInv /\ [NormalizeNext]_normalizeVars => NormalizeInv'
<1>1. ASSUME NormalizeInv, UNCHANGED normalizeVars
      PROVE  NormalizeInv'
  <2>1. /\ markdown' = markdown /\ given' = given /\ body' = body /\ ahead' = ahead
        /\ inTable' = inTable /\ artifact' = artifact /\ rule' = rule /\ pass' = pass
    BY <1>1 DEF normalizeVars
  <2>2. TextTypes' /\ SecondInputIsClean'
    BY <2>1, <1>1, SameInput DEF NormalizeInv, TextTypes, SecondInputIsClean
  <2>3. PICK lines, next, out, amid :
            lines = Document /\ next = ahead /\ out = body /\ amid = inTable
    OBVIOUS
  <2>4. Document' = lines
    BY <2>1, <2>3, SameInput
  <2>5. ASSUME NEW headers
        PROVE  /\ Swept(Document, ahead, body, inTable, headers)'
                    <=> Swept(lines, next, out, amid, headers)
               /\ AreHeaders(Document, headers)' <=> AreHeaders(lines, headers)
               /\ Made(Kept(Document, headers))' = Made(Kept(lines, headers))
    <3>1. Swept(lines, next, out, amid, headers)' <=> Swept(lines, next, out, amid, headers)
      BY <2>1, SameSweep
    <3>2. PICK kept : kept = Kept(lines, headers)
      OBVIOUS
    <3>3. Kept(lines, headers)' = kept
      BY <2>1, <3>2, SameInput
    <3>4. Made(kept)' = Made(kept)
      BY <2>1, SameRules DEF Made
    <3>5. AreHeaders(lines, headers)' <=> AreHeaders(lines, headers)
      BY <2>1 DEF AreHeaders, TableStarts, TableFrom, Follows
    <3>6. Swept(Document, ahead, body, inTable, headers)' <=> Swept(lines, next, out, amid, headers)'
      BY <2>1, <2>3, <2>4
    <3>7. Made(Kept(Document, headers))' = Made(kept)'
      BY <2>4, <3>3 DEF Made
    <3>8. AreHeaders(Document, headers)' <=> AreHeaders(lines, headers)'
      BY <2>4
    <3>9. QED
      BY <3>1, <3>2, <3>4, <3>5, <3>6, <3>7, <3>8
  <2>6. (artifact = [title |-> SelectTitle(body), words |-> WordCount(body)])'
          <=> artifact = [title |-> SelectTitle(body), words |-> WordCount(body)]
    BY <2>1 DEF SelectTitle, WordCount
  <2>7. RuleInv'
    BY <1>1, <2>1, <2>3, <2>4, <2>5, <2>6 DEF NormalizeInv, RuleInv
  <2>8. QED
    BY <2>2, <2>7 DEF NormalizeInv
<1>2. QED
  BY <1>1, TruncateStep, StripLineStep, StripEndsStep, WhitespaceStep, DescribeStep, AgainStep
     DEF NormalizeNext

\* The invariant holds in every state of Normalize.
THEOREM NormalizeInvariant == NormalizeSpec => []NormalizeInv
  BY NormalizeInvInit, NormalizeInvNext, PTL DEF NormalizeSpec

-----------------------------------------------------------------------------
(* The properties.                                                         *)

\* A line that is prose is in no table and is shown.
LEMMA ProseIsShown ==
    ASSUME NEW lines \in SUBSET Nat, NEW headers \in SUBSET lines, AreHeaders(lines, headers),
           NEW i \in lines, markdown[i] \in Titles \cup {"text"}
    PROVE  i \in Shown(Kept(lines, headers))
<1>1. ASSUME NEW h \in headers
      PROVE  i \notin TableFrom(lines, h)
  <2>1. h \in lines /\ TableStarts(lines, h)
    BY DEF AreHeaders
  <2>2. markdown[i] \notin PipeLed \cup Separators
    BY TitlesAreHeadings DEF PipeLed, Separators, OtherKinds
  <2>3. QED
    BY <2>1, <2>2, TablesHaveNoProse
<1>2. markdown[i] \notin {"blank", "image", "caption"}
  BY TitlesAreHeadings DEF OtherKinds
<1>3. i \in Kept(lines, headers)
  BY <1>1, <1>2 DEF Kept
<1>4. QED
  BY <1>2, <1>3 DEF Shown, Blank

\* When a pass is done its body is what the reference shows, and the prose is all there.
LEMMA DoneFollowsRules == NormalizeInv => ArtifactFollowsRules
<1> SUFFICES ASSUME NormalizeInv, rule = "done"
             PROVE  BodyFollowsRules /\ ProseSurvives
  BY DEF ArtifactFollowsRules
<1>1. TextTypes /\ RuleInv
  BY DEF NormalizeInv
<1>2. PICK headers \in SUBSET Document :
         AreHeaders(Document, headers) /\ body = Shown(Kept(Document, headers))
  BY <1>1 DEF RuleInv, Made
<1>3. BodyFollowsRules
  BY <1>2 DEF BodyFollowsRules, Document
<1>4. body \subseteq Document
  BY <1>2 DEF Shown, Kept
<1> DEFINE Prose(lines) == {i \in lines : markdown[i] \in Titles \cup {"text"}}
<1>5. Prose(body) = Prose(Document)
  <2>1. \A i \in Prose(Document) : i \in body
    BY <1>1, <1>2, DocumentLines, ProseIsShown
  <2>2. QED
    BY <2>1, <1>4
<1>6. artifact.title = SelectTitle(body) /\ artifact.words = WordCount(body)
  BY <1>1 DEF RuleInv
<1>7. {i \in body : markdown[i] \in Titles} = {i \in Document : markdown[i] \in Titles}
  BY <1>4, <1>5
<1>8. SelectTitle(body) = SelectTitle(Document)
  <2> DEFINE headings(lines) == {i \in lines : markdown[i] \in Titles}
             First(H) == IF H = {} THEN "fallback"
                         ELSE markdown[CHOOSE i \in H : \A j \in H : i <= j]
  <2>1. SelectTitle(body) = First(headings(body))
    BY DEF SelectTitle
  <2>2. SelectTitle(Document) = First(headings(Document))
    BY DEF SelectTitle
  <2> HIDE DEF First
  <2>3. QED
    BY <1>7, <2>1, <2>2
<1>9. WordCount(body) >= WordCount(Prose(Document))
  <2>1. Prose(Document) \in SUBSET body
    BY <1>5
  <2> HIDE DEF Prose
  <2>2. QED
    BY <2>1, <1>1, LinesOfMarkdown, FewerLinesFewerWords DEF TextTypes
<1>10. ProseSurvives
  BY <1>5, <1>6, <1>8, <1>9 DEF ProseSurvives, Document
<1>11. QED
  BY <1>3, <1>10

\* The stored body is what the rules, read off the whole text, keep of the document,
\* with all its prose, the title and the words of it (Normalize).
THEOREM ArtifactFollowsRulesHolds == NormalizeSpec => []ArtifactFollowsRules
  BY NormalizeInvariant, DoneFollowsRules, PTL

\* A second pass drops nothing unless a table has come together.
LEMMA SecondPassDropsNothing == NormalizeInv => SecondPassIsNeutral
<1> SUFFICES ASSUME NormalizeInv, rule = "done", pass = 2,
                    ~\E i, j \in given : /\ Follows(given, i, j)
                                         /\ markdown[i] \in PipeLed
                                         /\ markdown[j] \in Separators
             PROVE  body = given
  BY DEF SecondPassIsNeutral
<1>1. TextTypes /\ RuleInv /\ Clean(given)
  BY DEF NormalizeInv, SecondInputIsClean
<1>2. PICK headers \in SUBSET Document :
         AreHeaders(Document, headers) /\ body = Shown(Kept(Document, headers))
  BY <1>1 DEF RuleInv, Made
<1>3. \A i \in given : ~TableStarts(given, i)
  BY DEF TableStarts
<1>4. QED
  BY <1>1, <1>2, <1>3, CleanTextIsKept DEF Document, TextTypes

\* Normalizing a stored body again changes nothing, unless what the first pass removed had
\* kept a line with a leading pipe and a separator apart (Normalize).
THEOREM SecondPassIsNeutralHolds == NormalizeSpec => []SecondPassIsNeutral
  BY NormalizeInvariant, SecondPassDropsNothing, PTL
=============================================================================
