---------------------------- MODULE MCExtraction ----------------------------
(* Model-checking instances of ExtractionPipeline. *)
EXTENDS ExtractionPipeline, TLC

\* Request goroutines are interchangeable.  Keys are not: a row's place in the
\* worker's initial memory is chosen from them.
ClientSymmetry == Permutations(Clients)

\* Faults the worker recovers from by itself, and every fault.
RetriedFaults == {"upsert", "claim", "expire", "recover", "list"}
AllFaults == DbCalls
NoFaults == {}

=============================================================================
