------------------------------ MODULE Sources ------------------------------
(***************************************************************************)
(* The sources table and everything that writes it: the use case behind    *)
(* the /api/sources handlers, and the seed command, which runs in another  *)
(* process and goes through the same Create.                               *)
(*                                                                         *)
(* Nothing holds the table between two statements.  Create looks the URL   *)
(* up and then saves; Update reads a row, changes its copy and saves every *)
(* column of it; and the repository's Save is itself two statements, an    *)
(* UPDATE and, when that found no row, an INSERT.                          *)
(*                                                                         *)
(* A row's kind and timestamps are left out; Get and List change nothing.  *)
(***************************************************************************)
EXTENDS Naturals, Sequences

CONSTANTS
    Clients,    \* request goroutines of the API process
    Seeder,     \* the seed command
    Names,      \* names a request may carry
    Urls,       \* URLs with an accepted scheme
    Seeds,      \* seedSources: the requests of the seed command, in order
    NoRow,      \* the content of an id that is not in the table
    MaxIds,     \* bound: ids given out
    MaxCalls,   \* bound: requests of the clients
    MaxSeeds,   \* bound: runs of the seed command
    MaxFaults   \* bound: failing statements and killed seed runs

ASSUME SeederIsNoClient == Seeder \notin Clients
ASSUME SeedsAreRequests == Seeds \in Seq([url : Urls, name : Names])
ASSUME NamesAreNames == Names # {} /\ {"blank", "keep"} \cap Names = {}
ASSUME BoundsAreNaturals == {MaxIds, MaxCalls, MaxSeeds, MaxFaults} \subseteq Nat

VARIABLES
    rows,       \* the table, by primary key
    call,       \* the use-case call each caller is in, and how its last one ended
    seed,       \* the loop of SeedSources
    issued,     \* ids given out
    calls,      \* requests and seed runs that arrived, and faults (bounds)
    contested,  \* history: URLs a client inserted during the current seed run
    removed     \* history: URLs deleted since the current seed run started

vars == <<rows, call, seed, issued, calls, contested, removed>>

-----------------------------------------------------------------------------
(* Rows and calls.                                                         *)

Callers == Clients \cup {Seeder}
Ids == 1..MaxIds
Row == [url : Urls, name : Names, active : {"on", "off"}]

ASSUME NoRowIsNoRow == NoRow \notin Row

\* What a request asks of a field; "keep" where an update does not mention it.
NameWanted == Names \cup {"keep"}
ActiveWanted == {"on", "off", "keep"}

\* "find" is before FindByURL, "load" before FindByID, "update" and "insert" before
\* the two statements of Save; row is the copy the call will write.  overtaken is
\* history: somebody else wrote or deleted the row this call holds a copy of.
CallState == [pc : {"idle", "find", "load", "update", "insert"}, op : {"create", "update"},
              id : Nat, row : Row \cup {NoRow}, name : NameWanted, active : ActiveWanted,
              outcome : {"none", "ok", "invalid", "conflict", "notfound", "error"},
              overtaken : BOOLEAN]
NoCall == [pc |-> "idle", op |-> "create", id |-> 0, row |-> NoRow, name |-> "keep",
           active |-> "keep", outcome |-> "none", overtaken |-> FALSE]

SeedState == [pc : {"off", "next", "create", "done", "failed"}, at : Nat, faulted : BOOLEAN]

SeedRuns == seed.pc \in {"next", "create"}

Present(id) == rows[id] # NoRow
UrlTaken(url) == \E id \in Ids : Present(id) /\ rows[id].url = url

TypeOK ==
    /\ rows \in [Ids -> Row \cup {NoRow}]
    /\ call \in [Callers -> CallState]
    /\ seed \in SeedState
    /\ issued \in 0..MaxIds
    /\ calls \in [client : Nat, seed : Nat, fault : Nat]
    /\ contested \in SUBSET Urls
    /\ removed \in SUBSET Urls

Init ==
    /\ rows = [id \in Ids |-> NoRow]
    /\ call = [c \in Callers |-> NoCall]
    /\ seed = [pc |-> "off", at |-> 1, faulted |-> FALSE]
    /\ issued = 0
    /\ calls = [client |-> 0, seed |-> 0, fault |-> 0]
    /\ contested = {} /\ removed = {}

InProgress(c) == call[c].pc # "idle"

\* The call ends: what it worked with is forgotten, its outcome is kept.
Ended(outcome) == [NoCall EXCEPT !.outcome = outcome]

\* A request arrives at an idle handler.
Arrives(c) ==
    /\ ~InProgress(c) /\ calls.client < MaxCalls
    /\ calls' = [calls EXCEPT !.client = calls.client + 1]

CallOnly == UNCHANGED <<rows, seed, issued, contested, removed>>

-----------------------------------------------------------------------------
(* Create.                                                                 *)

Creating(url, name) ==
    [NoCall EXCEPT !.pc = "find", !.row = [url |-> url, name |-> name, active |-> "on"]]

\* Validate refuses a blank name and a URL without http:// or https://; a request
\* with an accepted URL and a blank name stands for both.
CreateArrives(c, url, name) ==
    /\ Arrives(c)
    /\ call' = [call EXCEPT ![c] = IF name = "blank" THEN Ended("invalid") ELSE Creating(url, name)]
    /\ CallOnly

\* A taken URL is a conflict; a free one is given a fresh id.
FindByURL(c) ==
    /\ call[c].pc = "find"
    /\ IF UrlTaken(call[c].row.url)
       THEN /\ call' = [call EXCEPT ![c] = Ended("conflict")]
            /\ UNCHANGED issued
       ELSE /\ issued < MaxIds
            /\ issued' = issued + 1
            /\ call' = [call EXCEPT ![c].pc = "update", ![c].id = issued + 1]
    /\ UNCHANGED <<rows, seed, calls, contested, removed>>

-----------------------------------------------------------------------------
(* Update and Delete.                                                      *)

UpdateArrives(c, id, name, active) ==
    /\ Arrives(c)
    /\ call' = [call EXCEPT ![c] =
                  IF name = "blank" THEN Ended("invalid")
                  ELSE [NoCall EXCEPT !.pc = "load", !.op = "update", !.id = id,
                                      !.name = name, !.active = active]]
    /\ CallOnly

\* Mutant: a request without is_active switches the source off.
ChangedZeroActive(row, name, active) ==
    [row EXCEPT !.name = IF name = "keep" THEN row.name ELSE name,
                !.active = IF active = "keep" THEN "off" ELSE active]

\* Mutant: a field the request does not have is written all the same.
ChangedUnchecked(row, name, active) == [row EXCEPT !.name = name, !.active = active]

\* The fields of the request over those of the row.
Changed(row, name, active) ==
    [row EXCEPT !.name = IF name = "keep" THEN row.name ELSE name,
                !.active = IF active = "keep" THEN row.active ELSE active]

Load(c) ==
    LET id == call[c].id
    IN  /\ call[c].pc = "load"
        /\ call' = [call EXCEPT ![c] =
                      IF Present(id)
                      THEN [call[c] EXCEPT !.pc = "update",
                              !.row = Changed(rows[id], call[c].name, call[c].active)]
                      ELSE Ended("notfound")]
        /\ UNCHANGED calls /\ CallOnly

\* Another call of c's row has written it: the copies of the others are old.
Overtaken(c, id) ==
    {d \in Callers \ {c} : call[d].pc \in {"update", "insert"} /\ call[d].id = id}

Mark(c, id, state) ==
    [d \in Callers |-> IF d = c THEN state
                       ELSE IF d \in Overtaken(c, id) THEN [call[d] EXCEPT !.overtaken = TRUE]
                       ELSE call[d]]

Delete(c, id) ==
    /\ Arrives(c)
    /\ IF Present(id)
       THEN /\ rows' = [rows EXCEPT ![id] = NoRow]
            /\ call' = Mark(c, id, Ended("ok"))
            /\ removed' = IF seed.pc = "off" THEN removed ELSE removed \cup {rows[id].url}
       ELSE /\ call' = [call EXCEPT ![c] = Ended("notfound")]
            /\ UNCHANGED <<rows, removed>>
    /\ UNCHANGED <<seed, issued, contested>>

-----------------------------------------------------------------------------
(* Save.                                                                   *)

\* UPDATE ... WHERE id, of every column.
SaveUpdate(c) ==
    LET id == call[c].id
    IN  /\ call[c].pc = "update"
        /\ IF Present(id)
           THEN /\ rows' = [rows EXCEPT ![id] = call[c].row]
                /\ call' = Mark(c, id, Ended("ok"))
           ELSE /\ call' = [call EXCEPT ![c].pc = "insert"]
                /\ UNCHANGED rows
        /\ UNCHANGED <<seed, issued, calls, contested, removed>>

\* The column default replaces a zero value in an INSERT, and FALSE is one.
Inserted(row) == [row EXCEPT !.active = "on"]

\* Mutant: the url column has no unique index.
IndexRefusesNothing(id, url) == FALSE

\* The unique index on url holds the row back.
IndexRefuses(id, url) == \E other \in Ids \ {id} : Present(other) /\ rows[other].url = url

\* INSERT ... ON CONFLICT (id) DO UPDATE of every column.
SaveInsert(c) ==
    LET id == call[c].id
        row == Inserted(call[c].row)
    IN  /\ call[c].pc = "insert"
        /\ IF IndexRefuses(id, row.url)
           THEN /\ call' = [call EXCEPT ![c] = Ended("error")]
                /\ UNCHANGED <<rows, contested>>
           ELSE /\ rows' = [rows EXCEPT ![id] = row]
                /\ call' = Mark(c, id, Ended("ok"))
                /\ contested' = IF c \in Clients /\ SeedRuns THEN contested \cup {row.url} ELSE contested
        /\ UNCHANGED <<seed, issued, calls, removed>>

\* A statement fails: the handler answers with the error.
StatementFails(c) ==
    /\ InProgress(c) /\ calls.fault < MaxFaults
    /\ calls' = [calls EXCEPT !.fault = calls.fault + 1]
    /\ call' = [call EXCEPT ![c] = Ended("error")]
    /\ seed' = IF c = Seeder THEN [seed EXCEPT !.faulted = TRUE] ELSE seed
    /\ UNCHANGED <<rows, issued, contested, removed>>

-----------------------------------------------------------------------------
(* The seed command.                                                       *)

SeedStarts ==
    /\ seed.pc \in {"off", "done", "failed"} /\ calls.seed < MaxSeeds
    /\ calls' = [calls EXCEPT !.seed = calls.seed + 1]
    /\ seed' = [pc |-> "next", at |-> 1, faulted |-> FALSE]
    /\ contested' = {} /\ removed' = {}
    /\ UNCHANGED <<rows, call, issued>>

SeedCreates ==
    /\ seed.pc = "next" /\ seed.at <= Len(Seeds)
    /\ call' = [call EXCEPT ![Seeder] = Creating(Seeds[seed.at].url, Seeds[seed.at].name)]
    /\ seed' = [seed EXCEPT !.pc = "create"]
    /\ UNCHANGED <<rows, issued, calls, contested, removed>>

\* Mutant: every error is a skip.
SkipsAll(outcome) == TRUE

\* A conflict is a skip, any other error ends the run.
Skips(outcome) == outcome \in {"ok", "conflict"}

SeedHandles ==
    /\ seed.pc = "create" /\ ~InProgress(Seeder)
    /\ seed' = IF Skips(call[Seeder].outcome)
               THEN [seed EXCEPT !.pc = "next", !.at = seed.at + 1]
               ELSE [seed EXCEPT !.pc = "failed"]
    /\ UNCHANGED <<rows, call, issued, calls, contested, removed>>

SeedCompletes ==
    /\ seed.pc = "next" /\ seed.at > Len(Seeds)
    /\ seed' = [seed EXCEPT !.pc = "done"]
    /\ UNCHANGED <<rows, call, issued, calls, contested, removed>>

\* The process of the seed command ends between two statements.
SeedKilled ==
    /\ SeedRuns /\ calls.fault < MaxFaults
    /\ calls' = [calls EXCEPT !.fault = calls.fault + 1]
    /\ seed' = [seed EXCEPT !.pc = "failed", !.faulted = TRUE]
    /\ call' = [call EXCEPT ![Seeder] = NoCall]
    /\ UNCHANGED <<rows, issued, contested, removed>>

-----------------------------------------------------------------------------
Requests(c) ==
    \/ \E url \in Urls, name \in Names \cup {"blank"} : CreateArrives(c, url, name)
    \/ \E id \in Ids, name \in NameWanted \cup {"blank"}, active \in ActiveWanted :
         UpdateArrives(c, id, name, active)
    \/ \E id \in Ids : Delete(c, id)

Step(c) == FindByURL(c) \/ Load(c) \/ SaveUpdate(c) \/ SaveInsert(c)

Next ==
    \/ \E c \in Clients : Requests(c)
    \/ \E c \in Callers : Step(c) \/ StatementFails(c)
    \/ SeedStarts \/ SeedCreates \/ SeedHandles \/ SeedCompletes \/ SeedKilled

Spec == Init /\ [][Next]_vars

-----------------------------------------------------------------------------
(* Properties.                                                             *)

\* However creates, seed runs, deletes and re-inserting updates interleave, no
\* URL is monitored by two sources.
OneSourcePerUrl ==
    \A i, j \in Ids : Present(i) /\ Present(j) /\ rows[i].url = rows[j].url => i = j

Saves(c) == call[c].pc \in {"update", "insert"} /\ call'[c].pc = "idle" /\ call'[c].outcome = "ok"

\* Saving a whole row undoes another caller's change, or its delete, only if that
\* caller got between the read and the save; otherwise a create adds the row
\* it was asked for and an update changes the fields it was asked to, of a row that is there.
OnlyOverlapsUndo ==
    [][\A c \in Callers : Saves(c) /\ ~call[c].overtaken =>
         LET id == call[c].id
         IN  IF call[c].op = "create"
             THEN rows[id] = NoRow /\ rows'[id] = call[c].row
             ELSE /\ rows[id] # NoRow
                  /\ rows'[id].url = rows[id].url
                  /\ rows'[id].name = IF call[c].name = "keep" THEN rows[id].name ELSE call[c].name
                  /\ rows'[id].active = IF call[c].active = "keep" THEN rows[id].active
                                        ELSE call[c].active]_vars

\* The seed can be run again at any time and may be cut short: a run that ends well has
\* left no canonical source out, whatever it found and whatever clients did meanwhile (each
\* is there or was deleted since), and a run fails only on a fault, or when a client
\* creates the same source between the seed's lookup and its save.
SeedIsIdempotent ==
    /\ seed.pc = "done" =>
         \A i \in 1..Len(Seeds) : UrlTaken(Seeds[i].url) \/ Seeds[i].url \in removed
    /\ seed.pc = "failed" => seed.faulted \/ Seeds[seed.at].url \in contested

=============================================================================
