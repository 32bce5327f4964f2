---------------------------- MODULE PowerLease ----------------------------
(***************************************************************************)
(* What EdgeTpuContext promises, without tasks, queues or counters.  The   *)
(* class comment (libs/tpu/edgetpu_manager.h:40-42) ties the life of the   *)
(* context to the power of the Edge TPU: whoever uses it finds the device  *)
(* powered, and the device is powered down after the last user has left.   *)
(***************************************************************************)
CONSTANT Clients   \* those who may use the device

VARIABLES users,   \* clients that have a constructed context at their disposal
          on       \* the device is powered and out of reset

vars == <<users, on>>

TypeOK == users \subseteq Clients /\ on \in BOOLEAN

Init == users = {} /\ on = FALSE

Join(c) == /\ on /\ c \notin users
           /\ users' = users \cup {c}
           /\ UNCHANGED on

Leave(c) == /\ c \in users
            /\ users' = users \ {c}
            /\ UNCHANGED on

\* The first user finds the device powered at the moment it joins.
SwitchOn(c) == /\ ~on
               /\ on' = TRUE
               /\ users' = users \cup {c}

SwitchOff == /\ on /\ users = {}
             /\ on' = FALSE
             /\ UNCHANGED users

Next == SwitchOff \/ \E c \in Clients : Join(c) \/ Leave(c) \/ SwitchOn(c)

Spec     == Init /\ [][Next]_vars
FairSpec == Spec /\ WF_vars(SwitchOff)

\* The promise itself: the device is on as long as somebody uses it.
PowerWhileInUse == users # {} => on
============================================================================
