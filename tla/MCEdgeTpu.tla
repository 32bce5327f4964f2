----------------------------- MODULE MCEdgeTpu -----------------------------
(* Instances of EdgeTpu for TLC. *)
EXTENDS EdgeTpu, TLC

\* Clients are interchangeable, and so are the names of attachments.
Symmetry == Permutations(Clients) \cup Permutations(Devices)
============================================================================
