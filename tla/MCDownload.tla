----------------------------- MODULE MCDownload -----------------------------
(* Model-checking instances of PdfDownload. *)
EXTENDS PdfDownload, TLC

\* Job ids and stream requests are interchangeable.
Symmetry == Permutations(Jobs) \cup Permutations(Streams)

=============================================================================
