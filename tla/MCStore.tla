------------------------------ MODULE MCStore ------------------------------
(* Model-checking instances of PdfStore. *)
EXTENDS PdfStore, TLC

\* Every file operation may fail, or none.
AllFaults == FsOps
NoFaults == {}

=============================================================================
