------------------------------ MODULE MCServer ------------------------------
(* The server on a small instance; clients are interchangeable, which only the
   runs without temporal properties use. *)
EXTENDS Server, TLC

Symmetry == Permutations(Clients)
=============================================================================
