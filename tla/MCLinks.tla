------------------------------- MODULE MCLinks -------------------------------
(* Model values and symmetry for Links. *)
EXTENDS Links, TLC

HandlersAreAlike == Permutations(Handlers)
=============================================================================
