---------------------------- MODULE AudioServiceProofs ------------------------
(***************************************************************************)
(* Proofs about AudioService, for any number of clients, any length of the *)
(* queue and any number of calls: no callback is called after it has been  *)
(* removed or has ended, a client that is told its callback was not there  *)
(* has ended it itself, and a destroyed service is silent.                 *)
(*                                                                         *)
(* The argument: an id belongs to one client, from the reply of the        *)
(* service on; the callbacks registered are callbacks of ids somebody      *)
(* holds, and an id somebody holds is registered unless its callback has   *)
(* ended or its removal has been answered.                                 *)
(***************************************************************************)
EXTENDS AudioService, SequenceTheorems, TLAPS

\* The bound on the calls of AddCallback plays no part: ids are any numbers.
States == {"idle", "addSend", "addWait", "removeSend", "removeWait"}
Registration == [id: Nat, client: Clients]

ServiceTypes ==
  /\ pc \in [Clients -> States]
  /\ owned \in [Clients -> SUBSET Nat]
  /\ argument \in [Clients -> Nat \cup {NULL}]
  /\ reply \in [Clients -> {<<>>} \cup {<<n>> : n \in Nat}]
  /\ ended \in SUBSET Nat
  /\ queue \in Seq(Messages)
  /\ callbacks \in SUBSET Registration
  /\ idCounter \in Nat

\* Client c knows id, or will as soon as it looks into its reply queue.
Holds(c, id) == id \in owned[c] \/ (pc[c] = "addWait" /\ reply[c] = <<id>>)

\* A client that has a request in the queue waits for its answer, and has no other.
Waits(m) == IF m.type = "Add" THEN "addWait" ELSE "removeWait"
Requests ==
  /\ \A i \in DOMAIN queue : queue[i].type # "Stop" =>
       pc[queue[i].from] = Waits(queue[i]) /\ reply[queue[i].from] = <<>>
  /\ \A i, j \in DOMAIN queue :
       queue[i].type # "Stop" /\ queue[j].type # "Stop" /\ queue[i].from = queue[j].from => i = j

\* Only a client that waits has an answer; what it removes is its own.
Answers ==
  \A c \in Clients :
    /\ reply[c] # <<>> => pc[c] \in {"addWait", "removeWait"}
    /\ pc[c] \in {"removeSend", "removeWait"} => argument[c] \in owned[c]

\* Ids are handed out once, in order.
Numbered ==
  /\ \A c \in Clients, id \in Nat : Holds(c, id) => id < idCounter
  /\ \A c, d \in Clients, id \in Nat : Holds(c, id) /\ Holds(d, id) => c = d
  /\ \A id \in ended : id < idCounter

\* Registered callbacks are somebody's.
Known == \A cb \in callbacks : Holds(cb.client, cb.id)

\* What a client holds is registered, unless it ended or its removal is answered.
Registered ==
  \A c \in Clients, id \in Nat : Holds(c, id) =>
    \/ task = "suspended" \/ id \in ended
    \/ [id |-> id, client |-> c] \in callbacks
    \/ pc[c] = "removeWait" /\ argument[c] = id /\ reply[c] # <<>>

\* An answered removal has been carried out.
Erased ==
  \A c \in Clients : pc[c] = "removeWait" /\ reply[c] # <<>> =>
    \A cb \in callbacks : cb.id # argument[c]

\* During a round of calls, what has ended is about to be erased.
Round ==
  /\ toCall \subseteq callbacks /\ (task # "call" => toCall = {})
  /\ toRemove \subseteq ended
  /\ \A cb \in callbacks : cb.id \in ended => task = "call" /\ cb.id \in toRemove
  /\ \A cb \in toCall : cb.id \notin ended

ServiceInv ==
  /\ ServiceTypes /\ Requests /\ Answers /\ Numbered /\ Known /\ Registered
  /\ Erased /\ Round /\ RemovesOwnCallback
----------------------------------------------------------------------------
(* Lemmas about the queue and the types                                    *)

\* The request at the head of the queue is a client's, and the others move up.
LEMMA TailOfQueue ==
  ASSUME queue \in Seq(Messages), queue # <<>>
  PROVE  /\ Tail(queue) \in Seq(Messages)
         /\ 1 \in DOMAIN queue /\ Head(queue) = queue[1] /\ Head(queue) \in Messages
         /\ \A i \in DOMAIN Tail(queue) :
              i + 1 \in DOMAIN queue /\ i + 1 # 1 /\ i \in Nat /\ Tail(queue)[i] = queue[i + 1]
PROOF
<1>1. /\ Head(queue) \in Messages /\ Tail(queue) \in Seq(Messages)
      /\ Len(Tail(queue)) = Len(queue) - 1
      /\ \A i \in 1..Len(Tail(queue)) : Tail(queue)[i] = queue[i + 1]
  BY HeadTailProperties
<1>2. /\ Len(queue) \in Nat /\ Len(queue) # 0
      /\ DOMAIN queue = 1..Len(queue) /\ DOMAIN Tail(queue) = 1..Len(Tail(queue))
  BY <1>1, LenProperties, EmptySeq
<1>3. Head(queue) = queue[1]
  OBVIOUS
<1> QED
  BY <1>1, <1>2, <1>3

\* A message appended is the last one, and the others stay.
LEMMA AppendedMessage ==
  ASSUME queue \in Seq(Messages), NEW m \in Messages
  PROVE  /\ Append(queue, m) \in Seq(Messages)
         /\ \A i \in DOMAIN Append(queue, m) :
              \/ i \in DOMAIN queue /\ Append(queue, m)[i] = queue[i]
              \/ i = Len(queue) + 1 /\ Append(queue, m)[i] = m
PROOF
<1>1. /\ Append(queue, m) \in Seq(Messages) /\ Len(Append(queue, m)) = Len(queue) + 1
      /\ \A i \in 1..Len(queue) : Append(queue, m)[i] = queue[i]
      /\ Append(queue, m)[Len(queue) + 1] = m
  BY AppendProperties
<1>2. /\ Len(queue) \in Nat /\ DOMAIN queue = 1..Len(queue)
      /\ DOMAIN Append(queue, m) = 1..(Len(queue) + 1)
  BY <1>1, LenProperties
<1> QED
  BY <1>1, <1>2

\* Messages of the clients, and the destructor's.
LEMMA MessageTypes ==
  ASSUME NEW m \in Messages
  PROVE  /\ m.type \in {"Add", "Remove", "Stop"}
         /\ m.type # "Stop" => m.from \in Clients
PROOF
  BY DEF Messages

----------------------------------------------------------------------------
(* One lemma per action                                                    *)

LEMMA InitInv ==
  ASSUME Init
  PROVE  ServiceInv
PROOF
<1>1. queue = <<>> /\ DOMAIN queue = {} /\ queue \in Seq(Messages)
  BY DEF Init
<1>2. ServiceTypes
  BY <1>1 DEF Init, ServiceTypes, States
<1> QED
  BY <1>1, <1>2 DEF Init, ServiceInv, Requests, Answers, Numbered, Known, Registered, Erased,
     Round, RemovesOwnCallback, Holds

LEMMA AddCallbackInv ==
  ASSUME ServiceInv, NEW c \in Clients, AddCallback(c)
  PROVE  ServiceInv'
PROOF
<1>1. /\ pc[c] = "idle" /\ pc' = [pc EXCEPT ![c] = "addSend"]
      /\ UNCHANGED <<owned, argument, reply, ended, queue, callbacks, idCounter, task,
                     toCall, toRemove>>
  BY DEF AddCallback, runVars
<1>2. ServiceTypes'
  BY <1>1 DEF ServiceInv, ServiceTypes, States
<1>3. /\ \A d \in Clients : d # c => pc'[d] = pc[d]
      /\ pc'[c] = "addSend" /\ reply[c] = <<>>
  BY <1>1 DEF ServiceInv, ServiceTypes, Answers
<1>4. \A d \in Clients, id \in Nat : Holds(d, id)' <=> Holds(d, id)
  BY <1>1, <1>3 DEF Holds
<1>5. Requests'
  BY <1>1, <1>3, MessageTypes DEF ServiceInv, ServiceTypes, Requests, Waits
<1>6. Answers' /\ Numbered' /\ Known' /\ Registered' /\ Erased' /\ Round' /\ RemovesOwnCallback'
  <2>1. Answers'
    BY <1>1, <1>3 DEF ServiceInv, Answers
  <2>2. Numbered'
    BY <1>1, <1>4 DEF ServiceInv, Numbered
  <2>3. Known'
    BY <1>1, <1>4 DEF ServiceInv, ServiceTypes, Registration, Known
  <2>4. Registered' /\ Erased' /\ RemovesOwnCallback'
    BY <1>1, <1>3, <1>4 DEF ServiceInv, Registered, Erased, RemovesOwnCallback
  <2>5. Round'
    BY <1>1 DEF ServiceInv, Round
  <2> QED
    BY <2>1, <2>2, <2>3, <2>4, <2>5
<1> QED
  BY <1>2, <1>5, <1>6 DEF ServiceInv

LEMMA RemoveCallbackInv ==
  ASSUME ServiceInv, NEW c \in Clients, RemoveCallback(c)
  PROVE  ServiceInv'
PROOF
<1>0. PICK a \in owned[c] : argument' = [argument EXCEPT ![c] = a]
  BY DEF RemoveCallback
<1>1. /\ pc[c] = "idle" /\ pc' = [pc EXCEPT ![c] = "removeSend"]
      /\ UNCHANGED <<owned, reply, ended, queue, callbacks, idCounter, task,
                     toCall, toRemove>>
  BY DEF RemoveCallback, runVars
<1>2. ServiceTypes'
  <2>1. a \in Nat
    BY DEF ServiceInv, ServiceTypes
  <2> QED
    BY <1>0, <1>1, <2>1 DEF ServiceInv, ServiceTypes, States
<1>3. /\ \A d \in Clients : d # c => pc'[d] = pc[d] /\ argument'[d] = argument[d]
      /\ pc'[c] = "removeSend" /\ reply[c] = <<>> /\ argument'[c] = a
  BY <1>0, <1>1 DEF ServiceInv, ServiceTypes, Answers
<1>4. \A d \in Clients, id \in Nat : Holds(d, id)' <=> Holds(d, id)
  BY <1>1, <1>3 DEF Holds
<1>5. Requests'
  BY <1>1, <1>3, MessageTypes DEF ServiceInv, ServiceTypes, Requests, Waits
<1>6. Answers' /\ Numbered' /\ Known' /\ Registered' /\ Erased' /\ Round' /\ RemovesOwnCallback'
  <2>1. Answers'
    BY <1>1, <1>3 DEF ServiceInv, Answers
  <2>2. Numbered'
    BY <1>1, <1>4 DEF ServiceInv, Numbered
  <2>3. Known'
    BY <1>1, <1>4 DEF ServiceInv, ServiceTypes, Registration, Known
  <2>4. Registered' /\ Erased' /\ RemovesOwnCallback'
    BY <1>1, <1>3, <1>4 DEF ServiceInv, Registered, Erased, RemovesOwnCallback
  <2>5. Round'
    BY <1>1 DEF ServiceInv, Round
  <2> QED
    BY <2>1, <2>2, <2>3, <2>4, <2>5
<1> QED
  BY <1>2, <1>5, <1>6 DEF ServiceInv

LEMMA SendInv ==
  ASSUME ServiceInv, NEW c \in Clients, Send(c)
  PROVE  ServiceInv'
PROOF
<1>1. PICK m \in Messages :
        /\ m.from = c /\ m.type # "Stop" /\ queue' = Append(queue, m)
        /\ pc' = [pc EXCEPT ![c] = Waits(m)]
        /\ \/ m.type = "Add" /\ pc[c] = "addSend"
           \/ m.type = "Remove" /\ pc[c] = "removeSend"
  <2>1. CASE pc[c] = "addSend"
    <3>1. PICK m \in Messages : m = [type |-> "Add", from |-> c]
      BY DEF Messages
    <3>2. queue' = Append(queue, m) /\ pc' = [pc EXCEPT ![c] = "addWait"]
      BY <2>1, <3>1, Zenon DEF Send, Enqueue
    <3> QED
      BY <2>1, <3>1, <3>2 DEF Waits
  <2>2. CASE pc[c] = "removeSend"
    <3>1. PICK m \in Messages : m = [type |-> "Remove", from |-> c]
      BY DEF Messages
    <3>2. queue' = Append(queue, m) /\ pc' = [pc EXCEPT ![c] = "removeWait"]
      BY <2>2, <3>1, Zenon DEF Send, Enqueue
    <3> QED
      BY <2>2, <3>1, <3>2 DEF Waits
  <2> QED
    BY <2>1, <2>2 DEF Send
<1>2. UNCHANGED <<owned, argument, reply, ended, callbacks, idCounter, task, toCall, toRemove>>
  BY DEF Send
<1>3. /\ queue' \in Seq(Messages)
      /\ \A i \in DOMAIN queue' : \/ i \in DOMAIN queue /\ queue'[i] = queue[i]
                                  \/ i = Len(queue) + 1 /\ queue'[i] = m
  BY <1>1, AppendedMessage DEF ServiceInv, ServiceTypes
<1>4. ServiceTypes'
  BY <1>1, <1>2, <1>3 DEF ServiceInv, ServiceTypes, States, Waits
<1>5. /\ \A d \in Clients : d # c => pc'[d] = pc[d]
      /\ pc'[c] = Waits(m) /\ reply[c] = <<>>
  BY <1>1 DEF ServiceInv, ServiceTypes, Answers
<1>6. \A d \in Clients, id \in Nat : Holds(d, id)' <=> Holds(d, id)
  <2>1. \A id \in Nat : reply[c] # <<id>>
    BY <1>5
  <2> QED
    BY <1>1, <1>2, <1>5, <2>1 DEF Holds, Waits
<1>7. \A i \in DOMAIN queue : queue[i].type # "Stop" => queue[i].from \in Clients \ {c}
  <2>1. \A i \in DOMAIN queue : queue[i] \in Messages
    BY DEF ServiceInv, ServiceTypes
  <2> QED
    BY <1>1, <2>1, MessageTypes DEF ServiceInv, Requests, Waits
<1>8. Requests'
  <2>1. \A i \in DOMAIN queue' : queue'[i].type # "Stop" =>
          pc'[queue'[i].from] = Waits(queue'[i]) /\ reply'[queue'[i].from] = <<>>
    BY <1>1, <1>2, <1>3, <1>5, <1>7 DEF ServiceInv, Requests, Waits
  <2>2. \A i, j \in DOMAIN queue' :
          /\ queue'[i].type # "Stop" /\ queue'[j].type # "Stop"
          /\ queue'[i].from = queue'[j].from
          => i = j
    BY <1>1, <1>3, <1>7 DEF ServiceInv, Requests
  <2> QED
    BY <2>1, <2>2 DEF Requests, Waits
<1>9. Answers' /\ Numbered' /\ Known' /\ Registered' /\ Erased' /\ Round' /\ RemovesOwnCallback'
  <2>1. Answers'
    BY <1>1, <1>2, <1>5 DEF ServiceInv, Answers, Waits
  <2>2. Numbered'
    BY <1>2, <1>6 DEF ServiceInv, Numbered
  <2>3. Known'
    BY <1>2, <1>6 DEF ServiceInv, ServiceTypes, Registration, Known
  <2>4. Registered' /\ Erased' /\ RemovesOwnCallback'
    BY <1>1, <1>2, <1>5, <1>6 DEF ServiceInv, Registered, Erased, RemovesOwnCallback, Waits
  <2>5. Round'
    BY <1>2 DEF ServiceInv, Round
  <2> QED
    BY <2>1, <2>2, <2>3, <2>4, <2>5
<1> QED
  BY <1>4, <1>8, <1>9 DEF ServiceInv

LEMMA ReturnInv ==
  ASSUME ServiceInv, NEW c \in Clients, Return(c)
  PROVE  ServiceInv'
PROOF
<1>1. /\ reply[c] # <<>> /\ pc[c] \in {"addWait", "removeWait"}
      /\ pc' = [pc EXCEPT ![c] = "idle"] /\ reply' = [reply EXCEPT ![c] = <<>>]
      /\ argument' = [argument EXCEPT ![c] = NULL]
      /\ owned' = [owned EXCEPT ![c] = IF pc[c] = "addWait" THEN owned[c] \cup {Head(reply[c])}
                                                            ELSE owned[c] \ {argument[c]}]
      /\ UNCHANGED <<ended, queue, callbacks, idCounter, task, toCall, toRemove>>
  BY DEF Return, runVars
<1>2. PICK n \in Nat : reply[c] = <<n>>
  BY <1>1 DEF ServiceInv, ServiceTypes
<1>3. Head(reply[c]) = n
  BY <1>2
<1>4. /\ \A d \in Clients : d # c => /\ pc'[d] = pc[d] /\ argument'[d] = argument[d]
                                     /\ owned'[d] = owned[d] /\ reply'[d] = reply[d]
      /\ pc'[c] = "idle" /\ reply'[c] = <<>>
      /\ owned'[c] = IF pc[c] = "addWait" THEN owned[c] \cup {n} ELSE owned[c] \ {argument[c]}
  BY <1>1, <1>3 DEF ServiceInv, ServiceTypes
<1>5. ServiceTypes'
  <2>1. owned' \in [Clients -> SUBSET Nat]
    <3>1. (IF pc[c] = "addWait" THEN owned[c] \cup {n} ELSE owned[c] \ {argument[c]})
             \in SUBSET Nat
      BY DEF ServiceInv, ServiceTypes
    <3> QED
      BY <1>1, <1>3, <3>1 DEF ServiceInv, ServiceTypes
  <2> QED
    BY <1>1, <2>1 DEF ServiceInv, ServiceTypes, States
<1>6. \A d \in Clients, id \in Nat :
        Holds(d, id)' <=> Holds(d, id) /\ ~(d = c /\ pc[c] = "removeWait" /\ id = argument[c])
  <2>1. \A id \in Nat : <<n>> = <<id>> <=> id = n
    OBVIOUS
  <2>2. ASSUME NEW id \in Nat
        PROVE  Holds(c, id)' <=> Holds(c, id) /\ ~(pc[c] = "removeWait" /\ id = argument[c])
    <3>1. CASE pc[c] = "addWait"
      BY <1>2, <1>4, <2>1, <3>1 DEF Holds
    <3>2. CASE pc[c] = "removeWait"
      BY <1>4, <3>2 DEF Holds
    <3> QED
      BY <1>1, <3>1, <3>2
  <2>3. ASSUME NEW d \in Clients, d # c, NEW id \in Nat
        PROVE  Holds(d, id)' <=> Holds(d, id)
    BY <1>4, <2>3 DEF Holds
  <2> QED
    BY <2>2, <2>3
<1>7. Requests'
  <2>1. \A i \in DOMAIN queue : queue[i].type # "Stop" => queue[i].from \in Clients \ {c}
    <3>1. \A i \in DOMAIN queue : queue[i] \in Messages
      BY DEF ServiceInv, ServiceTypes
    <3> QED
      BY <1>1, <3>1, MessageTypes DEF ServiceInv, Requests
  <2> QED
    BY <1>1, <1>4, <2>1 DEF ServiceInv, Requests, Waits
<1>8. Answers'
  BY <1>4 DEF ServiceInv, Answers
<1>9. Numbered'
  BY <1>1, <1>6 DEF ServiceInv, Numbered
<1>10. Known'
  <2>1. ASSUME NEW cb \in callbacks
        PROVE  Holds(cb.client, cb.id)'
    <3>1. cb.client \in Clients /\ cb.id \in Nat /\ Holds(cb.client, cb.id)
      BY DEF ServiceInv, ServiceTypes, Registration, Known
    <3>2. pc[c] = "removeWait" => cb.id # argument[c]
      BY <1>1 DEF ServiceInv, Erased
    <3> QED
      BY <1>6, <3>1, <3>2
  <2> QED
    BY <1>1, <2>1 DEF Known
<1>11. Registered'
  BY <1>1, <1>4, <1>6 DEF ServiceInv, Registered
<1>12. Erased' /\ RemovesOwnCallback' /\ Round'
  BY <1>1, <1>4 DEF ServiceInv, Erased, RemovesOwnCallback, Round
<1> QED
  BY <1>5, <1>7, <1>8, <1>9, <1>10, <1>11, <1>12 DEF ServiceInv

\* Whatever is taken from the queue, the other requests are as they were.
LEMMA TakeRequest ==
  ASSUME ServiceInv, NEW t \in {"Add", "Remove", "Stop"}, Receive(t)
  PROVE  /\ queue' \in Seq(Messages)
         /\ task = "receive" /\ toCall = {}
         /\ t # "Stop" => /\ Requester \in Clients /\ reply[Requester] = <<>>
                          /\ pc[Requester] = IF t = "Add" THEN "addWait" ELSE "removeWait"
                          /\ \A i \in DOMAIN queue' :
                               queue'[i].type # "Stop" => queue'[i].from # Requester
         /\ \A i \in DOMAIN queue' :
              queue'[i].type # "Stop" =>
                /\ queue'[i].from \in Clients
                /\ pc[queue'[i].from] = Waits(queue'[i]) /\ reply[queue'[i].from] = <<>>
         /\ \A i, j \in DOMAIN queue' :
              /\ queue'[i].type # "Stop" /\ queue'[j].type # "Stop"
              /\ queue'[i].from = queue'[j].from
              => i = j
PROOF
<1>1. /\ queue' = Tail(queue) /\ queue # <<>> /\ Head(queue).type = t
      /\ task = "receive" /\ queue \in Seq(Messages)
  BY DEF Receive, ServiceInv, ServiceTypes
<1>2. /\ queue' \in Seq(Messages)
      /\ 1 \in DOMAIN queue /\ Head(queue) = queue[1] /\ queue[1] \in Messages
      /\ \A i \in DOMAIN queue' :
           i + 1 \in DOMAIN queue /\ i + 1 # 1 /\ i \in Nat /\ queue'[i] = queue[i + 1]
  BY <1>1, TailOfQueue
<1>3. toCall = {}
  BY <1>1 DEF ServiceInv, Round
<1>4. \A i \in DOMAIN queue : queue[i].type # "Stop" => queue[i].from \in Clients
  <2>1. \A i \in DOMAIN queue : queue[i] \in Messages
    BY <1>1
  <2> QED
    BY <2>1, MessageTypes
<1>5. \A i \in DOMAIN queue' :
        queue'[i].type # "Stop" =>
          /\ queue'[i].from \in Clients
          /\ pc[queue'[i].from] = Waits(queue'[i]) /\ reply[queue'[i].from] = <<>>
  BY <1>2, <1>4 DEF ServiceInv, Requests
<1>6. \A i, j \in DOMAIN queue' :
        /\ queue'[i].type # "Stop" /\ queue'[j].type # "Stop"
        /\ queue'[i].from = queue'[j].from
        => i = j
  <2>1. \A i, j \in DOMAIN queue' :
          /\ queue'[i].type # "Stop" /\ queue'[j].type # "Stop"
          /\ queue'[i].from = queue'[j].from
          => i + 1 = j + 1
    BY <1>2 DEF ServiceInv, Requests
  <2> QED
    BY <1>2, <2>1
<1>7. ASSUME t # "Stop"
      PROVE  /\ Requester \in Clients /\ reply[Requester] = <<>>
             /\ pc[Requester] = IF t = "Add" THEN "addWait" ELSE "removeWait"
             /\ \A i \in DOMAIN queue' : queue'[i].type # "Stop" => queue'[i].from # Requester
  <2>1. Requester = queue[1].from /\ queue[1].type = t
    BY <1>1, <1>2 DEF Requester
  <2>2. /\ Requester \in Clients /\ reply[Requester] = <<>>
        /\ pc[Requester] = IF t = "Add" THEN "addWait" ELSE "removeWait"
    BY <1>2, <1>4, <1>7, <2>1 DEF ServiceInv, Requests, Waits
  <2>3. \A i \in DOMAIN queue' : queue'[i].type # "Stop" => queue'[i].from # Requester
    BY <1>2, <1>7, <2>1 DEF ServiceInv, Requests
  <2> QED
    BY <2>2, <2>3
<1> QED
  BY <1>1, <1>2, <1>3, <1>5, <1>6, <1>7

LEMMA HandleAddInv ==
  ASSUME ServiceInv, HandleAdd
  PROVE  ServiceInv'
PROOF
<1>1. /\ Receive("Add")
      /\ callbacks' = callbacks \cup {[id |-> idCounter, client |-> Requester]}
      /\ reply' = [reply EXCEPT ![Requester] = <<idCounter>>]
      /\ idCounter' = idCounter + 1
      /\ UNCHANGED <<pc, owned, argument, ended, task, toCall, toRemove>>
  BY DEF HandleAdd
<1>2. PICK c \in Clients :
        /\ c = Requester /\ reply[c] = <<>> /\ pc[c] = "addWait"
        /\ \A i \in DOMAIN queue' : queue'[i].type # "Stop" => queue'[i].from # c
  BY <1>1, TakeRequest
<1>3. /\ reply' = [reply EXCEPT ![c] = <<idCounter>>]
      /\ callbacks' = callbacks \cup {[id |-> idCounter, client |-> c]}
  BY <1>1, <1>2
<1>4. /\ \A d \in Clients : d # c => reply'[d] = reply[d]
      /\ reply'[c] = <<idCounter>> /\ idCounter \in Nat /\ reply'[c] # <<>>
  BY <1>3 DEF ServiceInv, ServiceTypes
<1>5. ServiceTypes'
  <2>1. queue' \in Seq(Messages)
    BY <1>1, TakeRequest
  <2>2. callbacks' \in SUBSET Registration
    BY <1>3, <1>4 DEF ServiceInv, ServiceTypes, Registration
  <2>3. <<idCounter>> \in {<<n>> : n \in Nat} /\ idCounter' \in Nat
    BY <1>1, <1>4
  <2>4. reply' \in [Clients -> {<<>>} \cup {<<n>> : n \in Nat}]
    BY <1>3, <2>3 DEF ServiceInv, ServiceTypes
  <2> QED
    BY <1>1, <2>1, <2>2, <2>3, <2>4 DEF ServiceInv, ServiceTypes
<1>6. \A d \in Clients, id \in Nat :
        Holds(d, id)' <=> Holds(d, id) \/ (d = c /\ id = idCounter)
  <2>1. \A id \in Nat : (<<idCounter>> = <<id>> <=> id = idCounter) /\ <<>> # <<id>>
    OBVIOUS
  <2> QED
    BY <1>1, <1>2, <1>4, <2>1 DEF Holds
<1>7. Requests'
  <2>1. \A i \in DOMAIN queue' : queue'[i].type # "Stop" =>
          /\ queue'[i].from \in Clients
          /\ pc[queue'[i].from] = Waits(queue'[i]) /\ reply[queue'[i].from] = <<>>
    BY <1>1, TakeRequest
  <2>2. \A i, j \in DOMAIN queue' :
          /\ queue'[i].type # "Stop" /\ queue'[j].type # "Stop"
          /\ queue'[i].from = queue'[j].from
          => i = j
    BY <1>1, TakeRequest
  <2> QED
    BY <1>1, <1>2, <1>4, <2>1, <2>2 DEF Requests, Waits
<1>8. Answers'
  BY <1>1, <1>2, <1>4 DEF ServiceInv, Answers
<1>9. Numbered'
  <2>1. \A d \in Clients, id \in Nat : Holds(d, id) => id < idCounter
    BY DEF ServiceInv, Numbered
  <2>2. \A id \in ended : id \in Nat /\ id < idCounter
    BY DEF ServiceInv, Numbered, ServiceTypes
  <2>3. \A d \in Clients, id \in Nat : Holds(d, id)' => id < idCounter'
    BY <1>1, <1>4, <1>6, <2>1
  <2>4. \A d, e \in Clients, id \in Nat : Holds(d, id)' /\ Holds(e, id)' => d = e
    BY <1>4, <1>6, <2>1 DEF ServiceInv, Numbered
  <2>5. \A id \in ended' : id < idCounter'
    BY <1>1, <1>4, <2>2
  <2> QED
    BY <2>3, <2>4, <2>5 DEF Numbered
<1>10. Known'
  <2>1. ASSUME NEW cb \in callbacks'
        PROVE  Holds(cb.client, cb.id)'
    <3>1. CASE cb = [id |-> idCounter, client |-> c]
      BY <1>4, <1>6, <3>1
    <3>2. CASE cb \in callbacks
      BY <1>6, <3>2 DEF ServiceInv, ServiceTypes, Registration, Known
    <3> QED
      BY <1>3, <2>1, <3>1, <3>2
  <2> QED
    BY <2>1 DEF Known
<1>11. Registered'
  BY <1>1, <1>2, <1>3, <1>4, <1>6 DEF ServiceInv, Registered
<1>12. Erased'
  <2>1. ASSUME NEW d \in Clients, pc[d] = "removeWait", reply[d] # <<>>, NEW cb \in callbacks'
        PROVE  cb.id # argument[d]
    <3>1. CASE cb = [id |-> idCounter, client |-> c]
      <4>1. argument[d] \in owned[d] /\ owned[d] \subseteq Nat
        BY <2>1 DEF ServiceInv, ServiceTypes, Answers
      <4>2. argument[d] < idCounter
        BY <4>1 DEF ServiceInv, Numbered, Holds
      <4> QED
        BY <1>4, <3>1, <4>2
    <3>2. CASE cb \in callbacks
      BY <2>1, <3>2 DEF ServiceInv, Erased
    <3> QED
      BY <1>3, <2>1, <3>1, <3>2
  <2> QED
    BY <1>1, <1>2, <1>4, <2>1 DEF Erased
<1>13. Round'
  <2>1. task' = "receive" /\ toCall' = {}
    BY <1>1, TakeRequest
  <2>2. idCounter \notin ended
    BY <1>4 DEF ServiceInv, Numbered
  <2>3. \A cb \in callbacks : cb.id \notin ended
    BY <1>1, <2>1 DEF ServiceInv, Round
  <2> QED
    BY <1>1, <1>3, <2>1, <2>2, <2>3 DEF ServiceInv, Round
<1>14. RemovesOwnCallback'
  BY <1>1, <1>2, <1>4 DEF ServiceInv, RemovesOwnCallback
<1> QED
  BY <1>5, <1>7, <1>8, <1>9, <1>10, <1>11, <1>12, <1>13, <1>14 DEF ServiceInv

LEMMA HandleRemoveInv ==
  ASSUME ServiceInv, HandleRemove
  PROVE  ServiceInv'
PROOF
<1>1. /\ Receive("Remove")
      /\ callbacks' = {cb \in callbacks : cb.id # argument[Requester]}
      /\ reply' = [reply EXCEPT ![Requester] = <<Found>>]
      /\ UNCHANGED <<pc, owned, argument, ended, idCounter, task, toCall, toRemove>>
  BY DEF HandleRemove
<1>2. PICK c \in Clients :
        /\ c = Requester /\ reply[c] = <<>> /\ pc[c] = "removeWait"
        /\ \A i \in DOMAIN queue' : queue'[i].type # "Stop" => queue'[i].from # c
  BY <1>1, TakeRequest
<1>3. /\ callbacks' = {cb \in callbacks : cb.id # argument[c]}
      /\ reply' = [reply EXCEPT ![c] = <<Found>>] /\ Found \in {0, 1}
  BY <1>1, <1>2 DEF Found
<1>4. /\ \A d \in Clients : d # c => reply'[d] = reply[d]
      /\ reply'[c] = <<Found>> /\ reply'[c] # <<>>
  BY <1>3 DEF ServiceInv, ServiceTypes
<1>5. ServiceTypes'
  <2>1. queue' \in Seq(Messages)
    BY <1>1, TakeRequest
  <2>2. <<Found>> \in {<<n>> : n \in Nat}
    BY <1>3
  <2>3. reply' \in [Clients -> {<<>>} \cup {<<n>> : n \in Nat}]
    BY <1>3, <2>2 DEF ServiceInv, ServiceTypes
  <2> QED
    BY <1>1, <1>3, <2>1, <2>3 DEF ServiceInv, ServiceTypes
<1>6. \A d \in Clients, id \in Nat : Holds(d, id)' <=> Holds(d, id)
  BY <1>1, <1>2, <1>4 DEF Holds
<1>7. Requests'
  <2>1. \A i \in DOMAIN queue' : queue'[i].type # "Stop" =>
          /\ queue'[i].from \in Clients
          /\ pc[queue'[i].from] = Waits(queue'[i]) /\ reply[queue'[i].from] = <<>>
    BY <1>1, TakeRequest
  <2>2. \A i, j \in DOMAIN queue' :
          /\ queue'[i].type # "Stop" /\ queue'[j].type # "Stop"
          /\ queue'[i].from = queue'[j].from
          => i = j
    BY <1>1, TakeRequest
  <2> QED
    BY <1>1, <1>2, <1>4, <2>1, <2>2 DEF Requests, Waits
<1>8. argument[c] \in owned[c] /\ argument[c] \in Nat /\ Holds(c, argument[c])
  BY <1>2 DEF ServiceInv, ServiceTypes, Answers, Holds
<1>9. Answers'
  BY <1>1, <1>2, <1>4 DEF ServiceInv, Answers
<1>10. Numbered'
  BY <1>1, <1>6 DEF ServiceInv, Numbered
<1>11. Known'
  BY <1>3, <1>6 DEF ServiceInv, ServiceTypes, Registration, Known
<1>12. Registered'
  <2>1. ASSUME NEW d \in Clients, NEW id \in Nat, Holds(d, id)
        PROVE  \/ task = "suspended" \/ id \in ended
               \/ [id |-> id, client |-> d] \in callbacks'
               \/ pc[d] = "removeWait" /\ argument[d] = id /\ reply'[d] # <<>>
    <3>1. CASE id = argument[c]
      <4>1. d = c
        BY <1>8, <2>1, <3>1 DEF ServiceInv, Numbered
      <4> QED
        BY <1>2, <1>4, <3>1, <4>1
    <3>2. CASE id # argument[c]
      <4>1. \/ task = "suspended" \/ id \in ended
            \/ [id |-> id, client |-> d] \in callbacks
            \/ pc[d] = "removeWait" /\ argument[d] = id /\ reply[d] # <<>>
        BY <2>1 DEF ServiceInv, Registered
      <4>2. [id |-> id, client |-> d] \in callbacks => [id |-> id, client |-> d] \in callbacks'
        BY <1>3, <3>2
      <4>3. reply[d] # <<>> => reply'[d] # <<>>
        BY <1>2, <1>4
      <4> QED
        BY <4>1, <4>2, <4>3
    <3> QED
      BY <3>1, <3>2
  <2> QED
    BY <1>1, <1>6, <2>1 DEF Registered
<1>13. Erased'
  BY <1>1, <1>3, <1>4 DEF ServiceInv, Erased
<1>14. Round'
  <2>1. task' = "receive" /\ toCall' = {}
    BY <1>1, TakeRequest
  <2> QED
    BY <1>1, <1>3, <2>1 DEF ServiceInv, Round
<1>15. RemovesOwnCallback'
  <2>1. Found = 0 => argument[c] \in ended
    <3>1. Found = 0 => [id |-> argument[c], client |-> c] \notin callbacks
      <4>1. [id |-> argument[c], client |-> c] \in callbacks
              => argument[c] \in {cb.id : cb \in callbacks}
        OBVIOUS
      <4> QED
        BY <1>2, <4>1 DEF Found
    <3>2. task = "receive"
      BY <1>1, TakeRequest
    <3> QED
      BY <1>2, <1>8, <3>1, <3>2 DEF ServiceInv, Registered
  <2>2. <<Found>> = <<0>> => Found = 0
    BY <1>3
  <2> QED
    BY <1>1, <1>4, <2>1, <2>2 DEF ServiceInv, RemovesOwnCallback
<1> QED
  BY <1>5, <1>7, <1>9, <1>10, <1>11, <1>12, <1>13, <1>14, <1>15 DEF ServiceInv

LEMMA HandleStopInv ==
  ASSUME ServiceInv, HandleStop
  PROVE  ServiceInv'
PROOF
<1>1. /\ Receive("Stop") /\ callbacks' = {} /\ task' = "suspended"
      /\ UNCHANGED <<pc, owned, argument, reply, ended, idCounter, toCall, toRemove>>
  BY DEF HandleStop, clientVars
<1>2. queue' \in Seq(Messages) /\ toCall' = {}
  BY <1>1, TakeRequest
<1>3. ServiceTypes'
  BY <1>1, <1>2 DEF ServiceInv, ServiceTypes
<1>4. \A d \in Clients, id \in Nat : Holds(d, id)' <=> Holds(d, id)
  BY <1>1 DEF Holds
<1>5. Requests'
  <2>1. \A i \in DOMAIN queue' : queue'[i].type # "Stop" =>
          pc[queue'[i].from] = Waits(queue'[i]) /\ reply[queue'[i].from] = <<>>
    BY <1>1, TakeRequest
  <2>2. \A i, j \in DOMAIN queue' :
          /\ queue'[i].type # "Stop" /\ queue'[j].type # "Stop"
          /\ queue'[i].from = queue'[j].from
          => i = j
    BY <1>1, TakeRequest
  <2> QED
    BY <1>1, <2>1, <2>2 DEF Requests, Waits
<1>6. Numbered'
  BY <1>1, <1>4 DEF ServiceInv, Numbered
<1>7. Answers' /\ Known' /\ Registered' /\ Erased' /\ Round' /\ RemovesOwnCallback'
  BY <1>1, <1>2 DEF ServiceInv, Answers, Known, Registered, Erased, Round, RemovesOwnCallback
<1> QED
  BY <1>3, <1>5, <1>6, <1>7 DEF ServiceInv

\* Steps that change neither the clients nor the queue nor the callbacks.
LEMMA ElsewhereInv ==
  ASSUME ServiceInv,
         UNCHANGED <<pc, owned, argument, reply, ended, queue, callbacks, idCounter,
                     toCall, toRemove>>,
         task' = task \/ (task # "call" /\ {task, task'} \cap {"suspended"} = {})
  PROVE  ServiceInv'
PROOF
<1>1. \A d \in Clients, id \in Nat : Holds(d, id)' <=> Holds(d, id)
  BY DEF Holds
<1>2. ServiceTypes' /\ Requests' /\ Answers' /\ RemovesOwnCallback' /\ Erased'
  BY DEF ServiceInv, ServiceTypes, Requests, Answers, RemovesOwnCallback, Erased, Waits
<1>3. Numbered' /\ Registered'
  BY <1>1 DEF ServiceInv, Numbered, Registered
<1>4. Known'
  BY <1>1 DEF ServiceInv, ServiceTypes, Registration, Known
<1>5. Round'
  BY DEF ServiceInv, Round
<1> QED
  BY <1>2, <1>3, <1>4, <1>5 DEF ServiceInv

LEMMA FillBufferInv ==
  ASSUME ServiceInv, FillBuffer
  PROVE  ServiceInv'
PROOF
<1>1. /\ task = "fill" /\ task' = "call" /\ toCall' = callbacks /\ toRemove' = {}
      /\ UNCHANGED <<pc, owned, argument, reply, ended, queue, callbacks, idCounter>>
  BY DEF FillBuffer, clientVars
<1>2. \A d \in Clients, id \in Nat : Holds(d, id)' <=> Holds(d, id)
  BY <1>1 DEF Holds
<1>3. ServiceTypes' /\ Requests' /\ Answers' /\ RemovesOwnCallback' /\ Erased'
  BY <1>1 DEF ServiceInv, ServiceTypes, Requests, Answers, RemovesOwnCallback, Erased, Waits
<1>4. Numbered' /\ Registered'
  BY <1>1, <1>2 DEF ServiceInv, Numbered, Registered
<1>5. Known'
  BY <1>1, <1>2 DEF ServiceInv, ServiceTypes, Registration, Known
<1>6. Round'
  BY <1>1 DEF ServiceInv, Round
<1> QED
  BY <1>3, <1>4, <1>5, <1>6 DEF ServiceInv

LEMMA CallInv ==
  ASSUME ServiceInv, NEW cb \in toCall, Call(cb)
  PROVE  ServiceInv'
PROOF
<1>1. /\ task = "call" /\ task' = "call" /\ toCall' = toCall \ {cb}
      /\ UNCHANGED <<pc, owned, argument, reply, queue, callbacks, idCounter>>
      /\ \/ UNCHANGED <<toRemove, ended>>
         \/ toRemove' = toRemove \cup {cb.id} /\ ended' = ended \cup {cb.id}
  BY DEF Call, micVars
<1>2. /\ cb \in callbacks /\ cb.id \in Nat /\ cb.client \in Clients
      /\ Holds(cb.client, cb.id) /\ cb.id < idCounter
  <2>1. cb \in callbacks /\ cb.id \in Nat /\ cb.client \in Clients
    BY DEF ServiceInv, ServiceTypes, Registration, Round
  <2> QED
    BY <2>1 DEF ServiceInv, Known, Numbered
<1>3. \A d \in Clients, id \in Nat : Holds(d, id)' <=> Holds(d, id)
  BY <1>1 DEF Holds
<1>4. ServiceTypes' /\ Requests' /\ Answers' /\ RemovesOwnCallback' /\ Erased'
  <2>1. ServiceTypes'
    BY <1>1, <1>2 DEF ServiceInv, ServiceTypes
  <2>2. Requests' /\ Answers' /\ Erased'
    BY <1>1 DEF ServiceInv, Requests, Answers, Erased, Waits
  <2>3. RemovesOwnCallback'
    BY <1>1 DEF ServiceInv, RemovesOwnCallback
  <2> QED
    BY <2>1, <2>2, <2>3
<1>5. Numbered' /\ Registered'
  BY <1>1, <1>2, <1>3 DEF ServiceInv, Numbered, Registered
<1>6. Known'
  BY <1>1, <1>3 DEF ServiceInv, ServiceTypes, Registration, Known
<1>7. Round'
  <2>1. \A other \in callbacks : other.id = cb.id => other = cb
    <3>1. ASSUME NEW other \in callbacks, other.id = cb.id
          PROVE  other = cb
      <4>1. other \in Registration /\ cb \in Registration /\ Holds(other.client, other.id)
        BY <1>2 DEF ServiceInv, ServiceTypes, Known
      <4>2. other.client = cb.client
        BY <1>2, <3>1, <4>1 DEF ServiceInv, Numbered, Registration
      <4> QED
        BY <3>1, <4>1, <4>2 DEF Registration
    <3> QED
      BY <3>1
  <2>2. toCall' \subseteq callbacks' /\ (task' # "call" => toCall' = {}) /\ toRemove' \subseteq ended'
    BY <1>1 DEF ServiceInv, Round
  <2>3. \A c \in callbacks' : c.id \in ended' => task' = "call" /\ c.id \in toRemove'
    BY <1>1 DEF ServiceInv, Round
  <2>4. \A c \in toCall' : c.id \notin ended'
    BY <1>1, <2>1 DEF ServiceInv, Round
  <2> QED
    BY <2>2, <2>3, <2>4 DEF Round
<1> QED
  BY <1>4, <1>5, <1>6, <1>7 DEF ServiceInv

LEMMA EndRoundInv ==
  ASSUME ServiceInv, EndRound
  PROVE  ServiceInv'
PROOF
<1>1. /\ task = "call" /\ task' = "receive" /\ toCall = {} /\ toCall' = {}
      /\ callbacks' = {cb \in callbacks : cb.id \notin toRemove}
      /\ UNCHANGED <<pc, owned, argument, reply, ended, queue, idCounter, toRemove>>
  BY DEF EndRound, clientVars
<1>2. \A d \in Clients, id \in Nat : Holds(d, id)' <=> Holds(d, id)
  BY <1>1 DEF Holds
<1>3. ServiceTypes' /\ Requests' /\ Answers' /\ RemovesOwnCallback' /\ Erased'
  BY <1>1 DEF ServiceInv, ServiceTypes, Requests, Answers, RemovesOwnCallback, Erased, Waits
<1>4. Numbered'
  BY <1>1, <1>2 DEF ServiceInv, Numbered
<1>5. Registered'
  <2>1. \A d \in Clients, id \in Nat :
          id \notin ended /\ [id |-> id, client |-> d] \in callbacks
            => [id |-> id, client |-> d] \in callbacks'
    BY <1>1 DEF ServiceInv, Round
  <2> QED
    BY <1>1, <1>2, <2>1 DEF ServiceInv, Registered
<1>6. Known'
  BY <1>1, <1>2 DEF ServiceInv, ServiceTypes, Registration, Known
<1>7. Round'
  BY <1>1 DEF ServiceInv, Round
<1> QED
  BY <1>3, <1>4, <1>5, <1>6, <1>7 DEF ServiceInv

LEMMA NextInv ==
  ASSUME ServiceInv, [Next]_vars
  PROVE  ServiceInv'
PROOF
<1>1. ASSUME NEW c \in Clients, Client(c)
      PROVE  ServiceInv'
  BY <1>1, AddCallbackInv, RemoveCallbackInv, SendInv, ReturnInv DEF Client
<1>2. CASE Destroy \/ Destroyed \/ Callback \/ UNCHANGED vars
  <2>1. UNCHANGED <<pc, owned, argument, reply, ended, queue, callbacks, idCounter,
                    task, toCall, toRemove>>
    BY <1>2 DEF Destroy, Destroyed, Callback, vars, clientVars, runVars
  <2> QED
    BY <2>1, ElsewhereInv
<1>3. CASE SendStop
  <2>1. PICK m \in Messages : m.type = "Stop" /\ queue' = Append(queue, m)
    <3>1. PICK m \in Messages : m = [type |-> "Stop", from |-> NULL]
      BY DEF Messages
    <3>2. queue' = Append(queue, m)
      BY <1>3, <3>1, Zenon DEF SendStop, Enqueue
    <3> QED
      BY <3>1, <3>2
  <2>2. UNCHANGED <<pc, owned, argument, reply, ended, callbacks, idCounter, task,
                    toCall, toRemove>>
    BY <1>3 DEF SendStop
  <2>3. /\ queue' \in Seq(Messages)
        /\ \A i \in DOMAIN queue' : \/ i \in DOMAIN queue /\ queue'[i] = queue[i]
                                    \/ queue'[i] = m
    BY <2>1, AppendedMessage DEF ServiceInv, ServiceTypes
  <2>4. Requests'
    BY <2>1, <2>2, <2>3 DEF ServiceInv, Requests, Waits
  <2>5. ServiceTypes'
    BY <2>2, <2>3 DEF ServiceInv, ServiceTypes
  <2>6. \A d \in Clients, id \in Nat : Holds(d, id)' <=> Holds(d, id)
    BY <2>2 DEF Holds
  <2>7. Numbered' /\ Registered'
    BY <2>2, <2>6 DEF ServiceInv, Numbered, Registered
  <2>8. Known'
    BY <2>2, <2>6 DEF ServiceInv, ServiceTypes, Registration, Known
  <2>9. Answers' /\ Erased' /\ Round' /\ RemovesOwnCallback'
    BY <2>2 DEF ServiceInv, Answers, Erased, Round, RemovesOwnCallback
  <2> QED
    BY <2>4, <2>5, <2>7, <2>8, <2>9 DEF ServiceInv
<1>4. CASE NoRequest \/ OpenReader \/ Drop
  <2>1. UNCHANGED <<pc, owned, argument, reply, ended, queue, callbacks, idCounter,
                    toCall, toRemove>>
    BY <1>4 DEF NoRequest, OpenReader, Drop, clientVars
  <2>2. task' = task \/ (task # "call" /\ {task, task'} \cap {"suspended"} = {})
    BY <1>4 DEF NoRequest, OpenReader, Drop
  <2> QED
    BY <2>1, <2>2, ElsewhereInv
<1> QED
  BY <1>1, <1>2, <1>3, <1>4, HandleAddInv, HandleRemoveInv, HandleStopInv, FillBufferInv,
     EndRoundInv, CallInv DEF Next, Run

----------------------------------------------------------------------------
(* The theorems                                                            *)

\* A callback is called only between its AddCallback and its RemoveCallback, and
\* never again once it has returned false (NoCallAfterRemove).
THEOREM CallbacksOwned == Spec => []NoCallAfterRemove
PROOF
<1>1. Init => ServiceInv
  BY InitInv
<1>2. ServiceInv /\ [Next]_vars => ServiceInv'
  BY NextInv
<1>3. ServiceInv => NoCallAfterRemove
  <2>1. ASSUME ServiceInv
        PROVE  /\ \A cb \in callbacks \cup toCall : Holds(cb.client, cb.id)
               /\ \A cb \in toCall : cb.id \notin ended
    BY <2>1 DEF ServiceInv, Known, Round
  <2> QED
    BY <2>1 DEF NoCallAfterRemove, Holds
<1> QED
  BY <1>1, <1>2, <1>3, PTL DEF Spec

\* A client is told that its callback was not registered only when the callback had
\* ended itself (RemovesOwnCallback).
THEOREM RemovalsAreTrue == Spec => []RemovesOwnCallback
PROOF
<1>1. Init => ServiceInv
  BY InitInv
<1>2. ServiceInv /\ [Next]_vars => ServiceInv'
  BY NextInv
<1>3. ServiceInv => RemovesOwnCallback
  BY DEF ServiceInv
<1> QED
  BY <1>1, <1>2, <1>3, PTL DEF Spec

\* A task that has suspended itself has destroyed the reader first.
SilentInv ==
  /\ task = "suspended" => ~reader
  /\ DestroyedIsSilent

\* When the destructor has returned, the task is out of Run and the microphone is
\* off (DestroyedIsSilent).
THEOREM Silence == Spec => []DestroyedIsSilent
PROOF
<1>1. Init => SilentInv
  BY DEF Init, SilentInv, DestroyedIsSilent
<1>2. ASSUME SilentInv, [Next]_vars
      PROVE  SilentInv'
  <2>1. ASSUME NEW c \in Clients, Client(c)
        PROVE  UNCHANGED <<life, task, reader>>
    BY <2>1 DEF Client, AddCallback, RemoveCallback, Send, Return, runVars, micVars
  <2>2. CASE UNCHANGED <<life, task, reader>>
    BY <1>2, <2>2 DEF SilentInv, DestroyedIsSilent
  <2>3. CASE Destroy \/ SendStop \/ Destroyed
    BY <1>2, <2>3 DEF Destroy, SendStop, Destroyed, runVars, micVars, SilentInv,
       DestroyedIsSilent
  <2>4. CASE Run
    <3>1. CASE HandleStop
      BY <1>2, <3>1 DEF HandleStop, clientVars, SilentInv, DestroyedIsSilent
    <3>2. CASE HandleAdd \/ HandleRemove \/ \E cb \in toCall : Call(cb)
      BY <2>2, <3>2 DEF HandleAdd, HandleRemove, Call, micVars
    <3>3. CASE NoRequest \/ OpenReader \/ Drop \/ FillBuffer \/ EndRound
      <4>1. task # "suspended" /\ task' # "suspended" /\ UNCHANGED life
        BY <3>3 DEF NoRequest, OpenReader, Drop, FillBuffer, EndRound, clientVars
      <4> QED
        BY <1>2, <4>1 DEF SilentInv, DestroyedIsSilent
    <3> QED
      BY <2>4, <3>1, <3>2, <3>3 DEF Run
  <2>5. CASE Callback \/ UNCHANGED vars
    BY <2>2, <2>5 DEF Callback, vars, clientVars, runVars, micVars
  <2> QED
    BY <1>2, <2>1, <2>2, <2>3, <2>4, <2>5 DEF Next
<1>3. SilentInv => DestroyedIsSilent
  BY DEF SilentInv
<1> QED
  BY <1>1, <1>2, <1>3, PTL DEF Spec
=============================================================================
