----------------------------- MODULE ArxivFetch -----------------------------
(***************************************************************************)
(* Fetching from arXiv: a request asks upstream for the feed, saves its    *)
(* entries into the papers table one by one, in feed order, and schedules  *)
(* one download job for those the table did not know.  The table's unique  *)
(* index makes the first save of a paper win; the first save that fails    *)
(* ends the request.  Requests overlap, and the process may exit between   *)
(* any two steps.                                                          *)
(*                                                                         *)
(* Of an entry only the paper and its version matter: the version is part  *)
(* of the file name its PDF is stored under.  A feed may name a paper      *)
(* twice and in other versions than before.                                *)
(***************************************************************************)
EXTENDS Naturals, Sequences, FiniteSets

CONSTANTS
    Papers,         \* (source, source_id) pairs
    Versions,
    NoVersion,      \* the version of a paper that is not in the table
    Callers,        \* request goroutines that may be fetching at once
    MaxFeed,        \* bound: entries of a feed
    MaxFetches,     \* bound: fetches in a behaviour
    MaxExits,       \* bound: process exits
    MaxFaults       \* bound: failed saves

ASSUME NoVersionIsNoVersion == NoVersion \notin Versions
ASSUME MaxFeedNat == MaxFeed \in Nat

VARIABLES
    catalogue,  \* the papers table: the version each paper was first saved with
    fetch,      \* the Fetch each request goroutine is executing
    jobs,       \* the request lists given to the download registry, ever
    orphans,    \* papers saved by a fetch that did not get to schedule them
    issued,     \* fetches so far
    exits,      \* process exits so far
    faults      \* failed saves so far

vars == <<catalogue, fetch, jobs, orphans, issued, exits, faults>>

-----------------------------------------------------------------------------

Entry == [paper : Papers, version : Versions]

\* What the parser makes of a response: any short list of entries.
Feeds == UNION {[1..n -> Entry] : n \in 0..MaxFeed}

\* saved is how far the loop over the feed is, newEntries what it found to be new.
FetchState == [pc : {"idle", "upstream", "save", "schedule", "answered", "failed"},
               feed : Seq(Entry), saved : Nat, newEntries : Seq(Entry)]
NoFetch == [pc |-> "idle", feed |-> <<>>, saved |-> 0, newEntries |-> <<>>]

TypeOK ==
    /\ catalogue \in [Papers -> Versions \cup {NoVersion}]
    /\ fetch \in [Callers -> FetchState]
    /\ \A c \in Callers : fetch[c].saved <= Len(fetch[c].feed)
    /\ jobs \in Seq(Seq(Entry) \ {<<>>})
    /\ orphans \in SUBSET Papers
    /\ issued \in Nat /\ exits \in Nat /\ faults \in Nat

Init ==
    /\ catalogue = [p \in Papers |-> NoVersion]
    /\ fetch = [c \in Callers |-> NoFetch]
    /\ jobs = <<>>
    /\ orphans = {}
    /\ issued = 0
    /\ exits = 0
    /\ faults = 0

-----------------------------------------------------------------------------
(* One fetch.                                                              *)

FetchArrives(c) ==
    /\ fetch[c].pc \in {"idle", "answered", "failed"} /\ issued < MaxFetches
    /\ issued' = issued + 1
    /\ fetch' = [fetch EXCEPT ![c] = [NoFetch EXCEPT !.pc = "upstream"]]
    /\ UNCHANGED <<catalogue, jobs, orphans, exits, faults>>

\* A transport error, a bad status or a feed that does not parse fails the fetch.
FetchUpstream(c) ==
    /\ fetch[c].pc = "upstream"
    /\ \/ fetch' = [fetch EXCEPT ![c].pc = "failed"]
       \/ \E feed \in Feeds : fetch' = [fetch EXCEPT ![c].pc = "save", ![c].feed = feed]
    /\ UNCHANGED <<catalogue, jobs, orphans, issued, exits, faults>>

\* The next entry of the feed to save.
AllSaved(c) == fetch[c].saved = Len(fetch[c].feed)
NextEntry(c) == fetch[c].feed[fetch[c].saved + 1]

\* The loop goes on to the next entry and remembers one that was new.
Advance(c, isNew) ==
    fetch' = [fetch EXCEPT ![c].saved = fetch[c].saved + 1,
                           ![c].newEntries = IF isNew THEN Append(fetch[c].newEntries, NextEntry(c))
                                             ELSE fetch[c].newEntries]

\* Mutant: a known paper is brought up to the feed's version.
SaveLatestWins(c) ==
    LET e == NextEntry(c)
    IN  /\ fetch[c].pc = "save" /\ ~AllSaved(c)
        /\ catalogue' = [catalogue EXCEPT ![e.paper] = e.version]
        /\ Advance(c, catalogue[e.paper] = NoVersion)
        /\ UNCHANGED <<jobs, orphans, issued, exits, faults>>

\* The INSERT adds the row, or hits the unique index and leaves the row alone.
Save(c) ==
    LET e == NextEntry(c)
        isNew == catalogue[e.paper] = NoVersion
    IN  /\ fetch[c].pc = "save" /\ ~AllSaved(c)
        /\ catalogue' = IF isNew THEN [catalogue EXCEPT ![e.paper] = e.version] ELSE catalogue
        /\ Advance(c, isNew)
        /\ UNCHANGED <<jobs, orphans, issued, exits, faults>>

\* The papers a fetch has added to the table so far.
NewPapers(c) == {fetch[c].newEntries[i].paper : i \in DOMAIN fetch[c].newEntries}

\* The database fails, or the client has gone and its context is cancelled.
SaveFails(c) ==
    /\ fetch[c].pc = "save" /\ ~AllSaved(c) /\ faults < MaxFaults
    /\ faults' = faults + 1
    /\ fetch' = [fetch EXCEPT ![c].pc = "failed"]
    /\ orphans' = orphans \cup NewPapers(c)
    /\ UNCHANGED <<catalogue, jobs, issued, exits>>

SavesDone(c) ==
    /\ fetch[c].pc = "save" /\ AllSaved(c)
    /\ fetch' = [fetch EXCEPT ![c].pc = "schedule"]
    /\ UNCHANGED <<catalogue, jobs, orphans, issued, exits, faults>>

\* Mutant: every entry of the feed is requested, known or not.
RequestsFromWholeFeed(c) == fetch[c].feed

\* Mutant: nothing is requested unless the whole feed is new.
RequestsOnlyIfAllNew(c) ==
    IF Len(fetch[c].newEntries) = Len(fetch[c].feed) THEN fetch[c].feed ELSE <<>>

\* One request for each new entry, in feed order; paper and version are what it names.
RequestsFromEntries(c) == fetch[c].newEntries

\* Mutant: an empty request list makes a job.
ScheduleEmpty(c) ==
    /\ fetch[c].pc = "schedule"
    /\ jobs' = Append(jobs, RequestsFromEntries(c))
    /\ fetch' = [fetch EXCEPT ![c].pc = "answered"]
    /\ UNCHANGED <<catalogue, orphans, issued, exits, faults>>

\* An empty request list makes no job; Schedule itself cannot fail.
Schedule(c) ==
    /\ fetch[c].pc = "schedule"
    /\ jobs' = IF RequestsFromEntries(c) = <<>> THEN jobs ELSE Append(jobs, RequestsFromEntries(c))
    /\ fetch' = [fetch EXCEPT ![c].pc = "answered"]
    /\ UNCHANGED <<catalogue, orphans, issued, exits, faults>>

Step(c) == FetchUpstream(c) \/ Save(c) \/ SaveFails(c) \/ SavesDone(c) \/ Schedule(c)

\* The process exits: the table stays, the requests in flight are gone.
InFlight == {c \in Callers : fetch[c].pc \in {"upstream", "save", "schedule"}}

Exit ==
    /\ exits < MaxExits
    /\ exits' = exits + 1
    /\ fetch' = [c \in Callers |-> NoFetch]
    /\ orphans' = orphans \cup UNION {NewPapers(c) : c \in InFlight}
    /\ UNCHANGED <<catalogue, jobs, issued, faults>>

Next == (\E c \in Callers : FetchArrives(c) \/ Step(c)) \/ Exit

Spec == Init /\ [][Next]_vars

\* A request's goroutine runs, and the HTTP client has a timeout.
FairSpec == Spec /\ \A c \in Callers : WF_vars(Step(c))

-----------------------------------------------------------------------------
(* Properties.                                                             *)

\* Where a paper is requested, and where it is about to be.
Requests(p) == {r \in (DOMAIN jobs) \X (1..MaxFeed) :
                  r[2] <= Len(jobs[r[1]]) /\ jobs[r[1]][r[2]].paper = p}
Waiting(p) == {r \in InFlight \X (1..MaxFeed) :
                 /\ r[2] <= Len(fetch[r[1]].newEntries)
                 /\ fetch[r[1]].newEntries[r[2]].paper = p}

\* A paper in the table was requested exactly once, by one job, or is about to
\* be by exactly one fetch, or is an orphan; one that is not, none of these:
\* overlapping fetches of overlapping feeds never download a paper twice.
OneDownloadPerPaper ==
    \A p \in Papers :
      Cardinality(Requests(p)) + Cardinality(Waiting(p)) + Cardinality({p} \cap orphans)
        = IF catalogue[p] = NoVersion THEN 0 ELSE 1

\* The PDF that is downloaded is that of the version the table keeps, whatever
\* versions later feeds and concurrent fetches carry.
RequestedVersionIsKept ==
    \A n \in DOMAIN jobs : \A i \in DOMAIN jobs[n] :
      jobs[n][i].version = catalogue[jobs[n][i].paper]

\* Every paper that enters the table is requested, unless its fetch is cut
\* short.
NewPapersRequested ==
    \A p \in Papers : catalogue[p] # NoVersion ~> Requests(p) # {} \/ p \in orphans

=============================================================================
