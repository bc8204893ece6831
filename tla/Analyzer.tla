------------------------------ MODULE Analyzer ------------------------------
(***************************************************************************)
(* Analyses over extractions.  A call of Analyze reads a done extraction,  *)
(* asks the language model for a short and a long summary of its body, and *)
(* upserts the analysis, one row per extraction.  It holds no lock: calls  *)
(* overlap, and the extraction may be requested again meanwhile.           *)
(*                                                                         *)
(* The extractions are those of JobLifecycle, which ExtractionPipeline     *)
(* implements; a body is the number of the extraction run that made it.    *)
(***************************************************************************)
EXTENDS Naturals

CONSTANTS Extractions, Calls,
          MaxBodies, MaxRuns, MaxTime    \* bounds: extraction runs, analyses, clock

ASSUME SomeExtraction == Extractions # {}
ASSUME BoundsNat == MaxBodies \in Nat /\ MaxRuns \in Nat /\ MaxTime \in Nat

VARIABLES job,        \* job[e]: where the extraction is in its lifecycle
          body,       \* body[e]: its body, or NoBody
          analyses,   \* the analyses table: analyses[e] is a row or NoRow
          call,       \* call[c]: one request inside Analyze
          now,        \* the clock
          made,       \* history: made[e] is every body e has had
          bodies, runs   \* bodies made and calls admitted so far

extraction == <<job, body, made, bodies>>
vars == <<job, body, analyses, call, now, made, bodies, runs>>

Job == INSTANCE JobLifecycle WITH Keys <- Extractions, state <- job

NoBody == 0
Bodies == 0..MaxBodies
Times == 0..MaxTime

\* A completion carries the call that asked for it and the body it was given.
Text == [run : 0..MaxRuns, body : Bodies]
NoText == [run |-> 0, body |-> NoBody]

Row == [short : Text, long : Text, created : Times, updated : Times]
NoRow == [short |-> NoText, long |-> NoText, created |-> 0, updated |-> 0]

InProgress == {"short", "long", "insert", "overwrite"}

\* overtaken: another call stored its analysis of the same extraction meanwhile.
CallState == [pc : InProgress \cup {"idle", "ok", "failed"}, extraction : Extractions,
              run : 0..MaxRuns, body : Bodies, short : Text, long : Text, stamp : Times,
              answer : Row, overtaken : BOOLEAN]

IdleCall == [pc |-> "idle", extraction |-> CHOOSE e \in Extractions : TRUE, run |-> 0,
             body |-> NoBody, short |-> NoText, long |-> NoText, stamp |-> 0,
             answer |-> NoRow, overtaken |-> FALSE]

Init ==
    /\ Job!Init
    /\ body = [e \in Extractions |-> NoBody]
    /\ made = [e \in Extractions |-> {}]
    /\ analyses = [e \in Extractions |-> NoRow]
    /\ call = [c \in Calls |-> IdleCall]
    /\ now = 0 /\ bodies = 0 /\ runs = 0

-----------------------------------------------------------------------------
(* The extraction pipeline, as Analyze sees it.                            *)

\* A done row has the body its run produced, any other row has none.
Extracts ==
    \/ /\ \E e \in Extractions : Job!Request(e) \/ Job!Begin(e) \/ Job!Expire(e)
       /\ body' = [e \in Extractions |-> IF job'[e] = "done" THEN body[e] ELSE NoBody]
       /\ UNCHANGED <<made, bodies>>
    \/ \E e \in Extractions :
         /\ Job!Finish(e)
         /\ bodies < MaxBodies
         /\ bodies' = bodies + 1
         /\ body' = [body EXCEPT ![e] = IF job'[e] = "done" THEN bodies' ELSE NoBody]
         /\ made' = [made EXCEPT ![e] = @ \cup ({body'[e]} \ {NoBody})]

ExtractionMoves == Extracts /\ UNCHANGED <<analyses, call, now, runs>>

\* The process ends and starts again: its calls are gone, the tables stay.
Restart ==
    /\ Job!Restart
    /\ call' = [c \in Calls |-> IdleCall]
    /\ UNCHANGED <<body, made, bodies, analyses, now, runs>>

Tick ==
    /\ now < MaxTime
    /\ now' = now + 1
    /\ UNCHANGED <<extraction, analyses, call, runs>>

-----------------------------------------------------------------------------
(* Analyze.                                                                *)

Goto(c, pc) == call' = [call EXCEPT ![c].pc = pc]

Private == UNCHANGED <<extraction, analyses, now, runs>>

\* FindByID and the gate on its status; the body is copied.
Ready(e) == job[e] = "done" /\ body[e] # NoBody

\* Mutant: the row is served from a cache that a resubmission does not invalidate.
LoadCached(c, e) ==
    /\ call[c].pc \notin InProgress
    /\ runs < MaxRuns
    /\ runs' = runs + 1
    /\ Ready(e)
    /\ \E b \in made[e] :
         call' = [call EXCEPT ![c] =
                   [IdleCall EXCEPT !.pc = "short", !.extraction = e, !.run = runs', !.body = b]]
    /\ UNCHANGED <<extraction, analyses, now>>

Load(c, e) ==
    /\ call[c].pc \notin InProgress
    /\ runs < MaxRuns
    /\ runs' = runs + 1
    /\ Ready(e)
    /\ call' = [call EXCEPT ![c] =
                 [IdleCall EXCEPT !.pc = "short", !.extraction = e, !.run = runs', !.body = body[e]]]
    /\ UNCHANGED <<extraction, analyses, now>>

\* The extraction is unknown or not done, or the read fails: nothing is asked or stored.
LoadFails(c, e) ==
    /\ call[c].pc \notin InProgress
    /\ runs < MaxRuns
    /\ runs' = runs + 1
    /\ call' = [call EXCEPT ![c] = [IdleCall EXCEPT !.pc = "failed", !.extraction = e, !.run = runs']]
    /\ UNCHANGED <<extraction, analyses, now>>

Completion(c) == [run |-> call[c].run, body |-> call[c].body]

ShortReturns(c) ==
    /\ call[c].pc = "short"
    /\ call' = [call EXCEPT ![c].pc = "long", ![c].short = Completion(c)]
    /\ Private

\* The clock is read once both summaries are there.
LongReturns(c) ==
    /\ call[c].pc = "long"
    /\ call' = [call EXCEPT ![c].pc = "insert", ![c].long = Completion(c), ![c].stamp = now]
    /\ Private

\* The model answers with an error, or with nothing.
CompletionFails(c) ==
    /\ call[c].pc \in {"short", "long"}
    /\ Goto(c, "failed")
    /\ Private

-----------------------------------------------------------------------------
(* The upsert: an INSERT, and behind its primary key conflict one          *)
(* transaction that reads created_at and updates the row.                  *)

\* The call answers with row, and the calls still in progress on it are overtaken.
Stores(c, row, answer) ==
    LET e == call[c].extraction
    IN  /\ analyses' = [analyses EXCEPT ![e] = row]
        /\ call' = [d \in Calls |->
                     IF d = c THEN [call[c] EXCEPT !.pc = "ok", !.answer = answer]
                     ELSE IF call[d].pc \in InProgress /\ call[d].extraction = e
                          THEN [call[d] EXCEPT !.overtaken = TRUE]
                          ELSE call[d]]
        /\ UNCHANGED <<extraction, now, runs>>

Analysis(c) == [short |-> call[c].short, long |-> call[c].long,
                created |-> call[c].stamp, updated |-> call[c].stamp]

Insert(c) ==
    /\ call[c].pc = "insert"
    /\ analyses[call[c].extraction] = NoRow
    /\ Stores(c, Analysis(c), Analysis(c))

InsertConflicts(c) ==
    /\ call[c].pc = "insert"
    /\ analyses[call[c].extraction] # NoRow
    /\ Goto(c, "overwrite")
    /\ Private

\* Mutant: the long summary is not among the columns of the UPDATE.
OverwrittenShortOnly(old, new) == [old EXCEPT !.short = new.short, !.updated = new.updated]

\* Mutant: the overwritten row loses its created_at.
OverwrittenWithoutCreated(old, new) == [short |-> new.short, long |-> new.long, updated |-> new.updated]

\* The columns of the UPDATE; created_at is not one of them.
Overwritten(old, new) ==
    [old EXCEPT !.short = new.short, !.long = new.long, !.updated = new.updated]

\* Mutant: the answer keeps the call's own created_at after an overwrite.
OverwriteAnswersOwn(c) ==
    LET old == analyses[call[c].extraction]
    IN  /\ call[c].pc = "overwrite"
        /\ Stores(c, Overwritten(old, Analysis(c)), Analysis(c))

Overwrite(c) ==
    LET old == analyses[call[c].extraction]
    IN  /\ call[c].pc = "overwrite"
        /\ Stores(c, Overwritten(old, Analysis(c)), [Analysis(c) EXCEPT !.created = old.created])

UpsertFails(c) ==
    /\ call[c].pc \in {"insert", "overwrite"}
    /\ Goto(c, "failed")
    /\ Private

Returns(c) ==
    \/ ShortReturns(c) \/ LongReturns(c) \/ CompletionFails(c)
    \/ Insert(c) \/ InsertConflicts(c) \/ Overwrite(c) \/ UpsertFails(c)

Next ==
    \/ ExtractionMoves \/ Restart \/ Tick
    \/ \E c \in Calls : Returns(c) \/ \E e \in Extractions : Load(c, e) \/ LoadFails(c, e)

Spec == Init /\ [][Next]_vars

-----------------------------------------------------------------------------
(* Properties.                                                             *)

TypeOK ==
    /\ job \in [Extractions -> Job!States]
    /\ body \in [Extractions -> Bodies]
    /\ made \in [Extractions -> SUBSET (1..MaxBodies)]
    /\ analyses \in [Extractions -> Row]
    /\ call \in [Calls -> CallState]
    /\ now \in Times /\ bodies \in Bodies /\ runs \in 0..MaxRuns

\* Whatever calls overlap, the two summaries of a stored analysis were made by one
\* call from one body (Upsert, usecase.go; "contents correspond to one of the two runs").
OneRunPerAnalysis ==
    \A e \in Extractions : analyses[e].short = analyses[e].long

\* Only bodies this extraction really had are analysed: the status gate and the copy
\* of the body come from one read (Analyze).
AnalysesAreOfResults ==
    \A e \in Extractions : analyses[e] # NoRow => analyses[e].short.body \in made[e]

\* A stored analysis is one call's, of a body its extraction had.
AnalysesAreWhole == OneRunPerAnalysis /\ AnalysesAreOfResults

\* A call that succeeds answers with exactly the row it leaves in the table, the
\* creation time of an earlier row included (Upsert returns what Get would).
AnswerWasStored ==
    [][\A c \in Calls : call[c].pc # "ok" /\ call'[c].pc = "ok"
          => analyses'[call[c].extraction] = call'[c].answer]_vars

\* Only a call that another one overtook may put an analysis of an older body, or an
\* older updated_at, over a newer one: it holds its body across both completions and
\* its clock reading across the upsert (Analyze), and no call re-checks.
OnlyOverlapsGoBack ==
    [][\A c \in Calls :
          LET e == call[c].extraction
          IN  call[c].pc # "ok" /\ call'[c].pc = "ok" /\ ~call[c].overtaken
                => /\ analyses'[e].updated >= analyses[e].updated
                   /\ analyses'[e].short.body >= analyses[e].short.body]_vars

=============================================================================
