---------------------------- MODULE IpcChannel ----------------------------
(***************************************************************************)
(* What Ipc::SendMessage promises the tasks of the two cores: the message  *)
(* has been taken over, once, by the time the call returns, and the other  *)
(* core handles what each core sent in the order it was taken over.        *)
(***************************************************************************)
EXTENDS Naturals, Sequences

CONSTANTS Tasks, Cores, Core(_)  \* Core(t): the core that task t runs on

VARIABLES call,   \* call[t]: where task t is in SendMessage
          count,  \* count[t]: messages task t has asked to send so far
          link    \* link[c]: messages core c has sent, not yet handled

vars == <<call, count, link>>

Init == /\ call  = [t \in Tasks |-> "idle"]
        /\ count = [t \in Tasks |-> 0]
        /\ link  = [c \in Cores |-> <<>>]

Call(t) == /\ call[t] = "idle"
           /\ call'  = [call EXCEPT ![t] = "called"]
           /\ count' = [count EXCEPT ![t] = @ + 1]
           /\ UNCHANGED link

TakeOver(t) == /\ call[t] = "called"
               /\ call' = [call EXCEPT ![t] = "taken"]
               /\ link' = [link EXCEPT ![Core(t)] = Append(@, <<t, count[t]>>)]
               /\ UNCHANGED count

Return(t) == /\ call[t] = "taken"
             /\ call' = [call EXCEPT ![t] = "idle"]
             /\ UNCHANGED <<count, link>>

Handle(c) == /\ link[c] # <<>>
             /\ link' = [link EXCEPT ![c] = Tail(@)]
             /\ UNCHANGED <<call, count>>

\* The task that handles a message may answer it from within its handler.
HandleAndCall(c, t) == /\ link[c] # <<>> /\ Core(t) # c
                       /\ link'  = [link EXCEPT ![c] = Tail(@)]
                       /\ call[t] = "idle"
                       /\ call'  = [call EXCEPT ![t] = "called"]
                       /\ count' = [count EXCEPT ![t] = @ + 1]

Next == \/ \E t \in Tasks : Call(t) \/ TakeOver(t) \/ Return(t)
        \/ \E c \in Cores : Handle(c) \/ \E t \in Tasks : HandleAndCall(c, t)

Spec == Init /\ [][Next]_vars
============================================================================
