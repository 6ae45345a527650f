------------------------------ MODULE MCServices ------------------------------
(* A small instance of Services for TLC *)
EXTENDS Services, TLC

(* Threads and connections are treated alike; no property is temporal. *)
Symmetry == Permutations(Thread) \cup Permutations(Connection)

=============================================================================
