------------------------------ MODULE EventFeed ------------------------------
(***************************************************************************)
(* What the reader side of the download registry promises a client,        *)
(* without channels, buffers, locks or a backlog: each job has one log of  *)
(* events that only grows until its summary is published, and a stream     *)
(* reads one job's log from its beginning, one event at a time, in order.  *)
(* A stream ends with the summary or is cut short; it never skips or       *)
(* repeats an event.  PdfDownload is shown to implement this.              *)
(***************************************************************************)
EXTENDS Sequences, Naturals

CONSTANTS Jobs, Streams, NoJob, Events

VARIABLES log,       \* log[j]: the events published for job j
          feed       \* feed[s]: what stream s has read, and of which job

Unread == [status |-> "none", job |-> NoJob, seen |-> <<>>]

Init ==
    /\ log = [j \in Jobs |-> <<>>]
    /\ feed = [s \in Streams |-> Unread]

Closed(j) == log[j] # <<>> /\ log[j][Len(log[j])].kind = "summary"

Publish(j) ==
    /\ ~Closed(j)
    /\ \E ev \in Events : log' = [log EXCEPT ![j] = Append(log[j], ev)]
    /\ UNCHANGED feed

Open(s, j) ==
    /\ feed[s].status = "none"
    /\ feed' = [feed EXCEPT ![s] = [status |-> "open", job |-> j, seen |-> <<>>]]
    /\ UNCHANGED log

\* The next event of the log; the summary is the last one.
Read(s) ==
    LET j == feed[s].job
        n == Len(feed[s].seen) + 1
    IN  /\ feed[s].status = "open" /\ n <= Len(log[j])
        /\ feed' = [feed EXCEPT ![s] =
                     [status |-> IF log[j][n].kind = "summary" THEN "complete" ELSE "open",
                      job |-> j, seen |-> Append(feed[s].seen, log[j][n])]]
        /\ UNCHANGED log

Cut(s) ==
    /\ feed[s].status = "open"
    /\ feed' = [feed EXCEPT ![s].status = "cut"]
    /\ UNCHANGED log

Next ==
    \/ \E j \in Jobs : Publish(j)
    \/ \E s \in Streams : Read(s) \/ Cut(s) \/ \E j \in Jobs : Open(s, j)

Spec == Init /\ [][Next]_<<log, feed>>

=============================================================================
