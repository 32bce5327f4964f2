------------------------------ MODULE MCAudio ------------------------------
(* Instances of AudioService for TLC. *)
EXTENDS AudioService, TLC

\* Clients are interchangeable.
Symmetry == Permutations(Clients)
============================================================================
