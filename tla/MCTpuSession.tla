----------------------------- MODULE MCTpuSession -----------------------------
\* Instances of TpuSession for TLC.
EXTENDS TpuSession

\* Two co-compiled models, one of another compilation, one without caching.
MCPackages == {"left", "right", "other", "alone"}
MCTokenOf  == [p \in MCPackages |-> CASE p = "alone" -> 0 [] p = "other" -> 2 [] OTHER -> 1]
====
