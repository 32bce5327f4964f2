------------------------------- MODULE MCIpc -------------------------------
(* Instances of Ipc for TLC: an application task or two on each core. *)
EXTENDS Ipc

CONSTANTS a7, b7, a4   \* application tasks, named for their cores

OneOnM7   == {a7}
TwoOnM7   == {a7, b7}
OneOnEach == {a7, a4}

CoreOfApp == [a \in Apps |-> IF a = a4 THEN "M4" ELSE "M7"]
============================================================================
