---------------------------- MODULE JobLifecycle ----------------------------
(***************************************************************************)
(* What the extraction repository's port promises about a job, without a   *)
(* queue, a worker, a clock or a database: one job per source key, each at *)
(* one place of                                                            *)
(*                                                                         *)
(*    absent -> pending -> running -> done | failed                        *)
(*                                                                         *)
(* A new request for a key takes the job back to pending whatever its      *)
(* state, at most one job runs at a time, and a process restart fails what *)
(* was running.  ExtractionPipeline is shown to implement this.            *)
(***************************************************************************)
CONSTANT Keys

VARIABLE state            \* state[k]: the place of job k

Terminal == {"done", "failed"}
States == {"absent", "pending", "running"} \cup Terminal

Init == state = [k \in Keys |-> "absent"]

Running == {k \in Keys : state[k] = "running"}

Request(k) == state' = [state EXCEPT ![k] = "pending"]

Begin(k) ==
    /\ state[k] = "pending"
    /\ Running = {}
    /\ state' = [state EXCEPT ![k] = "running"]

\* Expiry is decided before the job runs, so it leaves "pending" directly.
Expire(k) ==
    /\ state[k] = "pending"
    /\ state' = [state EXCEPT ![k] = "failed"]

Finish(k) ==
    /\ state[k] = "running"
    /\ \E t \in Terminal : state' = [state EXCEPT ![k] = t]

Restart ==
    state' = [k \in Keys |-> IF state[k] = "running" THEN "failed" ELSE state[k]]

Next == \/ \E k \in Keys : Request(k) \/ Begin(k) \/ Expire(k) \/ Finish(k)
        \/ Restart

Spec == Init /\ [][Next]_state

=============================================================================
