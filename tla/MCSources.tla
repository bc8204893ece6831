----------------------------- MODULE MCSources -----------------------------
(* Model-checking instance of Sources. *)
EXTENDS Sources, TLC

CONSTANTS u1, u2, n1

\* Request goroutines are interchangeable; URLs and names are not, for the seed uses them.
ClientSymmetry == Permutations(Clients)

TwoSeeds == <<[url |-> u1, name |-> n1], [url |-> u2, name |-> n1]>>

=============================================================================
