-------------------------- MODULE MCTairBaseClient --------------------------
(* TLC instances of TairBaseClient. *)
EXTENDS TairBaseClient, TLC

\* The program's commands are interchangeable: sound for the safety runs only.
ReqSymmetry == Permutations(Reqs)
=============================================================================
