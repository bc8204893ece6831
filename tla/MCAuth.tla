------------------------------ MODULE MCAuth -------------------------------
(* Model-checking instance of UserAuth. *)
EXTENDS UserAuth, TLC

\* Request goroutines are interchangeable, and so are passwords that comply.
Symmetry == Permutations(Clients) \cup Permutations(Passwords)

=============================================================================
