------------------------------ MODULE MCFetch ------------------------------
(* Model-checking instances of ArxivFetch. *)
EXTENDS ArxivFetch, TLC

=============================================================================
