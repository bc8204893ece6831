------------------------- MODULE ExtractAndAnalyze -------------------------
(***************************************************************************)
(* Analyze over the real extraction pipeline, in one process: its calls    *)
(* read the rows that Submit and the worker write, end with the process,   *)
(* and start once it serves requests.                                      *)
(*                                                                         *)
(* Analyzer is about extractions that follow JobLifecycle.  This module    *)
(* puts the pipeline in their place; ExtractionPipelineProofs shows that   *)
(* the whole then behaves as Analyzer says.                                *)
(***************************************************************************)
EXTENDS ExtractionPipeline

CONSTANTS Calls,                \* goroutines that may be inside Analyze
          MaxBodies, MaxRuns    \* bounds: extraction runs that end, analyses

VARIABLES analyses,     \* the analyses table
          calls,        \* calls[c]: one request inside Analyze
          bodyOf,       \* history: bodyOf[k] is the run that made k's body, or 0
          made,         \* history: made[k] is every body k has had
          bodies, runs  \* bodies made and calls admitted so far

composed == <<vars, analyses, calls, bodyOf, made, bodies, runs>>

\* The statuses that a reader may see.  Nobody reads while there is no process, and boot
\* fails what still runs before anybody does.
Seen == [k \in Keys |-> IF proc = "down" /\ rows[k].status = "running" THEN "failed"
                        ELSE rows[k].status]

Analysis == INSTANCE Analyzer WITH Extractions <- Keys, job <- Seen, body <- bodyOf, call <- calls

NobodyCalls == [c \in Calls |-> Analysis!IdleCall]

ComposedInit ==
    /\ Init
    /\ analyses = [k \in Keys |-> Analysis!NoRow]
    /\ calls = NobodyCalls
    /\ bodyOf = [k \in Keys |-> 0] /\ made = [k \in Keys |-> {}]
    /\ bodies = 0 /\ runs = 0

\* An extraction run ends and says how.
RunEnds == proc # "down" /\ \E k \in Keys : rows[k].status = "running" /\ rows'[k].status \in Terminal

\* The pipeline moves; a body appears with a row's step to done and goes with its step away.
Extracts ==
    /\ Next
    /\ RunEnds => bodies < MaxBodies
    /\ bodies' = IF RunEnds THEN bodies + 1 ELSE bodies
    /\ bodyOf' = [k \in Keys |-> IF rows'[k].status # "done" THEN 0
                                 ELSE IF rows[k].status = "done" THEN bodyOf[k] ELSE bodies']
    /\ made' = [k \in Keys |-> made[k] \cup ({bodyOf'[k]} \ {0})]
    /\ calls' = IF proc' = "down" THEN NobodyCalls ELSE calls
    /\ UNCHANGED <<analyses, runs>>

\* A call goes on; it shares nothing with the pipeline but the rows it reads.
Analyzes(c) ==
    /\ proc = "up"
    /\ UNCHANGED vars
    /\ Analysis!Returns(c) \/ \E k \in Keys : Analysis!Load(c, k) \/ Analysis!LoadFails(c, k)

ComposedNext == Extracts \/ \E c \in Calls : Analyzes(c)

ComposedSpec == ComposedInit /\ [][ComposedNext]_composed

ImplementsAnalyzer == Analysis!Spec

=============================================================================
