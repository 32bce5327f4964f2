------------------------------ MODULE IpcProofs ------------------------------
(***************************************************************************)
(* Theorems about Ipc, for every set of application tasks, every capacity  *)
(* of the message buffers and every bound on the messages: the model is    *)
(* type correct, no wake-up is lost, and as long as the tasks of a core    *)
(* send one at a time, no message pointer dangles, the semaphore is never  *)
(* given twice, and the whole implements IpcChannel.                       *)
(***************************************************************************)
EXTENDS Ipc, SequenceTheorems, TLAPS

\* Each core is the other of the other, and every task runs on one of them.
LEMMA CoreFacts ==
  /\ \A c \in Cores : Other(c) \in Cores /\ Other(c) # c /\ Other(Other(c)) = c
  /\ \A t \in Tasks : Core(t) \in Cores
  /\ Cores \subseteq Tasks /\ Apps \cup {"console"} \subseteq Tasks
  /\ \A c \in Cores : Core(c) = c
  /\ "M7" \in Cores /\ "M4" \in Cores
  /\ NULL \notin Tasks
BY IpcAssumption DEF Cores, Other, Tasks, Core

\* What the tx task reads through the pointer of a task is a message.
LEMMA DerefType ==
  ASSUME TypeOK, NEW t \in Tasks
  PROVE  Deref(t) \in Message
BY DEF TypeOK, Deref, Message

----------------------------------------------------------------------------
(* Types                                                                    *)

LEMMA TypeInit == Init => TypeOK
<1> SUFFICES ASSUME Init PROVE TypeOK
  OBVIOUS
<1>1. console \in BOOLEAN /\ <<>> \in Seq(Message)
  BY EmptySeq DEF Init
<1>2. QED
  BY <1>1 DEF Init, TypeOK, Cores

LEMMA TypeBoot ==
  ASSUME TypeOK, StartM4 \/ InitM4 \/ AppMainM4 \/ PrintM4
  PROVE  TypeOK'
<1> USE CoreFacts DEF TypeOK
<1>1. CASE StartM4
  BY <1>1 DEF StartM4
<1>2. CASE InitM4
  BY <1>2 DEF InitM4, Events
<1>3. CASE AppMainM4
  BY <1>3 DEF AppMainM4
<1>4. CASE PrintM4
  BY <1>4 DEF PrintM4, Raise, Events, boot
<1>5. QED
  BY <1>1, <1>2, <1>3, <1>4

LEMMA TypeSend ==
  ASSUME TypeOK, NEW t \in Tasks, SendMessage(t) \/ Notify(t) \/ Take(t)
  PROVE  TypeOK'
<1> USE CoreFacts DEF TypeOK, boot
<1>1. CASE SendMessage(t)
  BY <1>1 DEF SendMessage
<1>2. CASE Notify(t)
  BY <1>2 DEF Notify
<1>3. CASE Take(t)
  BY <1>3 DEF Take
<1>4. QED
  BY <1>1, <1>2, <1>3

LEMMA TypeTx ==
  ASSUME TypeOK, NEW c \in Cores, TxSend(c) \/ TxAddress
  PROVE  TypeOK'
<1> USE CoreFacts DEF TypeOK, boot
<1>1. CASE TxAddress
  <2>1. ADDRESS \in Message
    BY DEF Message
  <2>2. buffer' \in [Cores -> Seq(Message)]
    BY <1>1, <2>1, AppendProperties DEF TxAddress
  <2>3. event' \in [Cores -> SUBSET Events]
    BY <1>1 DEF TxAddress, Raise, Events
  <2>4. QED
    BY <1>1, <2>2, <2>3 DEF TxAddress
<1>2. CASE TxSend(c)
  <2>1. note[c] \in Tasks /\ Deref(note[c]) \in Message
    BY <1>2, DerefType DEF TxSend
  <2>2. CASE Transmit(c, note[c]) /\ UNCHANGED <<tx, sending>>
    <3>1. buffer' \in [Cores -> Seq(Message)]
      BY <2>1, <2>2, AppendProperties DEF Transmit
    <3>2. event' \in [Cores -> SUBSET Events]
      BY <2>2 DEF Transmit, Raise, Events
    <3>3. QED
      BY <1>2, <2>2, <3>1, <3>2 DEF TxSend, Transmit
  <2>3. CASE /\ tx' = [tx EXCEPT ![c] = "blocked"]
             /\ sending' = [sending EXCEPT ![c] = note[c]]
             /\ UNCHANGED <<buffer, event, sem, halted>>
    BY <1>2, <2>3 DEF TxSend
  <2>4. QED
    BY <1>2, <2>2, <2>3 DEF TxSend
<1>3. QED
  BY <1>1, <1>2

LEMMA TypeRx ==
  ASSUME TypeOK, NEW c \in Cores, Rx(c)
  PROVE  TypeOK'
<1> USE DEF TypeOK, boot
<1>0. /\ "M7" \in Cores /\ "M4" \in Cores /\ Other(c) \in Cores
      /\ Cores \subseteq Tasks
  BY CoreFacts
<1> USE <1>0
<1>1. CASE RxBlock(c)
  BY <1>1 DEF RxBlock
<1>2. CASE RxAddress
  <2>1. buffer' \in [Cores -> Seq(Message)]
    <3>1. buffer["M7"] # <<>> /\ buffer["M7"] \in Seq(Message)
      BY <1>2 DEF RxAddress
    <3>2. Tail(buffer["M7"]) \in Seq(Message)
      BY <3>1, HeadTailProperties
    <3>3. \/ buffer' = buffer
          \/ \E s \in Seq(Message) : buffer' = [buffer EXCEPT !["M7"] = s]
      BY <1>2, <3>2, Zenon DEF RxAddress
    <3>4. QED
      BY <3>3
  <2>2. QED
    BY <1>2, <2>1 DEF RxAddress
<1>3. CASE RxReceive(c)
  <2>1. /\ Head(buffer[Other(c)]) \in Message
        /\ Tail(buffer[Other(c)]) \in Seq(Message)
    BY <1>3, HeadTailProperties DEF RxReceive
  <2>2. buffer' \in [Cores -> Seq(Message)]
    BY <1>3, <2>1 DEF RxReceive
  <2>3. handling' \in [Cores -> Seq(Message)]
    BY <1>3, <2>1 DEF RxReceive
  <2>4. QED
    BY <1>3, <2>2, <2>3 DEF RxReceive
<1>4. CASE RxHandle(c)
  <2>1. handling[c][1] \in Message
    BY <1>4, EmptySeq, ElementOfSeq DEF RxHandle
  <2>2. handling' \in [Cores -> Seq(Message)]
    BY <1>4 DEF RxHandle
  <2>3. /\ call' \in [Tasks -> {"idle", "notify", "take"}]
        /\ count' \in [Tasks -> Nat]
        /\ rx' \in [Cores -> {"suspended", "ready", "blocked", "reply"}]
    <3>1. /\ call' = call \/ call' = [call EXCEPT ![c] = "notify"]
          /\ count' = count \/ count' = [count EXCEPT ![c] = @ + 1]
          /\ rx' = rx \/ rx' = [rx EXCEPT ![c] = "reply"]
      BY <1>4, Zenon DEF RxHandle
    <3>2. call' \in [Tasks -> {"idle", "notify", "take"}]
      BY <3>1
    <3>3. count' \in [Tasks -> Nat]
      <4>1. c \in Tasks /\ count[c] + 1 \in Nat /\ count \in [Tasks -> Nat]
        OBVIOUS
      <4>2. [count EXCEPT ![c] = count[c] + 1] \in [Tasks -> Nat]
        BY <4>1
      <4>3. QED
        BY <3>1, <4>1, <4>2, Zenon
    <3>4. rx' \in [Cores -> {"suspended", "ready", "blocked", "reply"}]
      BY <3>1
    <3>5. QED
      BY <3>2, <3>3, <3>4
  <2>4. console' \in BOOLEAN
    <3>1. console' = console \/ console' = TRUE
      BY <1>4, Zenon DEF RxHandle
    <3>2. QED
      BY <3>1
  <2>5. dropped' \subseteq Message
    BY <1>4, <2>1 DEF RxHandle
  <2>6. QED
    BY <1>4, <2>2, <2>3, <2>4, <2>5 DEF RxHandle
<1>5. QED
  BY <1>1, <1>2, <1>3, <1>4 DEF Rx

LEMMA TypeIsr ==
  ASSUME TypeOK, NEW c \in Cores, NEW e \in Events, Isr(c, e)
  PROVE  TypeOK'
<1>1. event' \in [Cores -> SUBSET Events]
  BY DEF TypeOK, Isr
<1>2. QED
  BY <1>1 DEF TypeOK, Isr, boot

LEMMA TypeNext == TypeOK /\ [Next]_vars => TypeOK'
<1> SUFFICES ASSUME TypeOK, [Next]_vars PROVE TypeOK'
  OBVIOUS
<1>1. CASE UNCHANGED vars
  BY <1>1 DEF TypeOK, vars, boot
<1>2. CASE Next
  BY <1>2, CoreFacts, TypeBoot, TypeSend, TypeTx, TypeRx, TypeIsr
     DEF Next, Send, Tx
<1>3. QED
  BY <1>1, <1>2

\* Every variable of the model keeps its type.
THEOREM TypeCorrect == Spec => []TypeOK
BY TypeInit, TypeNext, PTL DEF Spec

----------------------------------------------------------------------------
(* One sender at a time                                                     *)

\* At most one task of a core is inside SendMessage.
OneCaller ==
  \A t, u \in Tasks :
    Core(t) = Core(u) /\ call[t] # "idle" /\ call[u] # "idle" => t = u

\* The pointers the tx task of a core has are to messages of tasks of that core which
\* wait for the semaphore, and there is one pointer at most.
Pointers ==
  \A c \in Cores :
    /\ note[c] # NULL => call[note[c]] = "take" /\ Core(note[c]) = c
    /\ sending[c] # NULL => call[sending[c]] = "take" /\ Core(sending[c]) = c
    /\ note[c] = NULL \/ sending[c] = NULL

\* A semaphore that is given waits for a task whose message has been sent.
Given ==
  \A c \in Cores : sem[c] = 1 =>
    /\ note[c] = NULL /\ sending[c] = NULL
    /\ \E t \in Tasks : Core(t) = c /\ call[t] = "take"

SerialInv == OneCaller /\ Pointers /\ Given /\ GiveSucceeds

LEMMA SerialInit == Init => SerialInv
BY DEF Init, SerialInv, OneCaller, Pointers, Given, GiveSucceeds

\* A task that begins a call is the only one of its core in a call.
LEMMA SerialCall ==
  ASSUME TypeOK, SerialInv, NEW t \in Tasks, ~Busy(Core(t)),
         call' = [call EXCEPT ![t] = "notify"],
         UNCHANGED <<note, sem, sending, halted>>
  PROVE  SerialInv'
<1> USE DEF SerialInv
<1>1. call \in [Tasks -> {"idle", "notify", "take"}]
      /\ \A u \in Tasks : Core(u) = Core(t) => call[u] = "idle"
  BY DEF TypeOK, Busy
<1>2. call[t] = "idle" /\ call'[t] = "notify"
      /\ \A u \in Tasks \ {t} : call'[u] = call[u]
  BY <1>1
<1>3. OneCaller'
  BY <1>1, <1>2 DEF OneCaller
<1>4. Pointers'
  BY <1>2, CoreFacts DEF Pointers, TypeOK
<1>5. Given'
  BY <1>2 DEF Given
<1>6. QED
  BY <1>3, <1>4, <1>5 DEF GiveSucceeds

LEMMA SerialNotify ==
  ASSUME TypeOK, SerialInv, NEW t \in Tasks, Notify(t)
  PROVE  SerialInv'
<1> DEFINE c == Core(t)
<1>1. c \in Cores /\ NULL \notin Tasks
  BY CoreFacts
<1>2. /\ call[t] = "notify" /\ note[c] = NULL
      /\ call' = [call EXCEPT ![t] = "take"] /\ note' = [note EXCEPT ![c] = t]
      /\ UNCHANGED <<sem, sending, halted>>
  BY DEF Notify
<1>3. sending[c] = NULL /\ sem[c] # 1
  <2>1. \A u \in Tasks : Core(u) = c => call[u] # "take"
    BY <1>2 DEF SerialInv, OneCaller, TypeOK
  <2>2. QED
    BY <1>1, <2>1 DEF SerialInv, Pointers, Given, TypeOK
<1>4. OneCaller'
  BY <1>2 DEF SerialInv, OneCaller, TypeOK
<1>5. Pointers'
  <2>1. ASSUME NEW d \in Cores \ {c} PROVE note'[d] = note[d] /\ note[d] # t /\ sending[d] # t
    BY <1>1, <1>2, <2>1 DEF SerialInv, Pointers, TypeOK
  <2>2. /\ note'[c] = t /\ sending'[c] = NULL
        /\ call'[t] = "take" /\ \A u \in Tasks \ {t} : call'[u] = call[u]
    BY <1>1, <1>2, <1>3 DEF TypeOK
  <2>3. QED
    BY <1>1, <1>2, <2>1, <2>2 DEF SerialInv, Pointers, TypeOK
<1>6. Given'
  BY <1>1, <1>2, <1>3 DEF SerialInv, Given, TypeOK
<1>7. QED
  BY <1>2, <1>4, <1>5, <1>6 DEF SerialInv, GiveSucceeds

LEMMA SerialTake ==
  ASSUME TypeOK, SerialInv, NEW t \in Tasks, Take(t)
  PROVE  SerialInv'
<1> DEFINE c == Core(t)
<1>1. c \in Cores /\ NULL \notin Tasks
  BY CoreFacts
<1>2. /\ call[t] = "take" /\ sem[c] = 1
      /\ call' = [call EXCEPT ![t] = "idle"] /\ sem' = [sem EXCEPT ![c] = 0]
      /\ UNCHANGED <<note, sending, halted>>
  BY DEF Take
<1>3. note[c] = NULL /\ sending[c] = NULL
  BY <1>1, <1>2 DEF SerialInv, Given
<1>4. OneCaller'
  BY <1>2 DEF SerialInv, OneCaller, TypeOK
<1>5. Pointers'
  BY <1>1, <1>2, <1>3 DEF SerialInv, Pointers, TypeOK
<1>6. Given'
  BY <1>1, <1>2 DEF SerialInv, Given, TypeOK
<1>7. QED
  BY <1>2, <1>4, <1>5, <1>6 DEF SerialInv, GiveSucceeds

LEMMA SerialTx ==
  ASSUME TypeOK, SerialInv, NEW c \in Cores, TxSend(c)
  PROVE  SerialInv'
<1>1. /\ note[c] # NULL /\ note[c] \in Tasks /\ note' = [note EXCEPT ![c] = NULL]
      /\ UNCHANGED call
  BY DEF TxSend, TypeOK
<1>2. sending[c] = NULL /\ sem[c] # 1
      /\ call[note[c]] = "take" /\ Core(note[c]) = c
  BY <1>1 DEF SerialInv, Pointers, Given
<1>3. OneCaller'
  BY <1>1 DEF SerialInv, OneCaller
<1>4. CASE Transmit(c, note[c]) /\ UNCHANGED <<tx, sending>>
  <2>1. sem' = [sem EXCEPT ![c] = 1] /\ halted' = halted
    BY <1>2, <1>4 DEF Transmit
  <2>2. Pointers'
    BY <1>1, <1>4 DEF SerialInv, Pointers, TypeOK
  <2>3. Given'
    BY <1>1, <1>2, <1>4, <2>1 DEF SerialInv, Given, TypeOK
  <2>4. QED
    BY <1>3, <2>1, <2>2, <2>3 DEF SerialInv, GiveSucceeds
<1>5. CASE /\ sending' = [sending EXCEPT ![c] = note[c]]
           /\ UNCHANGED <<sem, halted>>
  <2>1. Pointers'
    BY <1>1, <1>2, <1>5 DEF SerialInv, Pointers, TypeOK
  <2>2. Given'
    BY <1>1, <1>2, <1>5 DEF SerialInv, Given, TypeOK
  <2>3. QED
    BY <1>3, <1>5, <2>1, <2>2 DEF SerialInv, GiveSucceeds
<1>6. QED
  BY <1>4, <1>5 DEF TxSend

\* No other step touches the calls, the pointers or the semaphores.
LEMMA SerialFrame ==
  ASSUME SerialInv, UNCHANGED <<call, note, sem, sending, halted>>
  PROVE  SerialInv'
BY DEF SerialInv, OneCaller, Pointers, Given, GiveSucceeds

LEMMA SerialNext ==
  ASSUME Serialized
  PROVE  TypeOK /\ SerialInv /\ [Next]_vars => SerialInv'
<1> SUFFICES ASSUME TypeOK, SerialInv, [Next]_vars PROVE SerialInv'
  OBVIOUS
<1>1. CASE UNCHANGED vars
  BY <1>1, SerialFrame DEF vars
<1>2. CASE StartM4 \/ InitM4 \/ AppMainM4 \/ PrintM4
  BY <1>2, SerialFrame DEF StartM4, InitM4, AppMainM4, PrintM4
<1>3. ASSUME NEW t \in Apps \cup {"console"}, SendMessage(t) PROVE SerialInv'
  BY <1>3, SerialCall, CoreFacts DEF SendMessage
<1>4. ASSUME NEW t \in Tasks, Send(t) PROVE SerialInv'
  BY <1>4, SerialNotify, SerialTake DEF Send
<1>5. ASSUME NEW c \in Cores, Tx(c) PROVE SerialInv'
  <2>1. CASE TxAddress
    BY <2>1, SerialFrame DEF TxAddress
  <2>2. QED
    BY <1>5, <2>1, SerialTx DEF Tx
<1>6. ASSUME NEW c \in Cores, Rx(c) PROVE SerialInv'
  <2>1. CASE RxBlock(c) \/ RxReceive(c) \/ RxAddress
    BY <2>1, SerialFrame DEF RxBlock, RxReceive, RxAddress
  <2>2. CASE RxHandle(c)
    <3>1. UNCHANGED <<note, sem, sending, halted>>
      BY <2>2 DEF RxHandle
    <3>2. \/ UNCHANGED call
          \/ ~Busy(c) /\ call' = [call EXCEPT ![c] = "notify"]
      BY <2>2, Zenon DEF RxHandle
    <3>3. QED
      BY <3>1, <3>2, SerialFrame, SerialCall, CoreFacts
  <2>3. QED
    BY <1>6, <2>1, <2>2 DEF Rx
<1>7. ASSUME NEW c \in Cores, NEW e \in Events, Isr(c, e) PROVE SerialInv'
  BY <1>7, SerialFrame DEF Isr
<1>8. QED
  BY <1>1, <1>2, <1>3, <1>4, <1>5, <1>6, <1>7 DEF Next

LEMMA SerialInductive ==
  ASSUME Serialized
  PROVE  Spec => [](TypeOK /\ SerialInv)
<1>1. TypeOK /\ SerialInv /\ [Next]_vars => SerialInv'
  BY SerialNext
<1>2. QED
  BY <1>1, SerialInit, TypeInit, TypeNext, PTL DEF Spec

\* When the tasks of a core send one at a time, the CHECK that the semaphore can be
\* given (ipc.cc:56) never fails, for any number of tasks and messages.
THEOREM GiveCorrect ==
  ASSUME Serialized
  PROVE  Spec => []GiveSucceeds
<1>1. SerialInv => GiveSucceeds
  BY DEF SerialInv
<1>2. QED
  BY <1>1, SerialInductive, PTL

\* When the tasks of a core send one at a time, the tx task never reads a message
\* through a pointer to the stack of a task that has left SendMessage.
THEOREM PointersCorrect ==
  ASSUME Serialized
  PROVE  Spec => []NoDanglingMessage
<1>1. SerialInv => NoDanglingMessage
  BY DEF SerialInv, Pointers, NoDanglingMessage
<1>2. QED
  BY <1>1, SerialInductive, PTL

----------------------------------------------------------------------------
(* Wake-ups                                                                 *)

\* A step that makes nobody oversleep.
LEMMA Rouse ==
  ASSUME \A c \in Cores : /\ rx'[c] = "blocked" => rx[c] = "blocked"
                          /\ buffer'[Other(c)] # <<>> /\ rx'[c] = "blocked"
                               => buffer[Other(c)] # <<>> \/ "ipc" \in event'[c]
                          /\ "ipc" \in event[c] /\ rx'[c] = "blocked" => "ipc" \in event'[c]
  PROVE  \A c \in Cores : Overslept(c)' => Overslept(c)
BY DEF Overslept

LEMMA WakeupStep ==
  ASSUME TypeOK, Next
  PROVE  \A c \in Cores : Overslept(c)' => Overslept(c) \/ (c = "M7" /\ PrintM4)
<1> USE DEF TypeOK
<1>1. CASE StartM4 \/ AppMainM4 \/ InitM4
  <2>1. UNCHANGED buffer /\ \A c \in Cores : rx'[c] = "blocked" => rx[c] = "blocked"
    BY <1>1 DEF StartM4, AppMainM4, InitM4
  <2>2. \A c \in Cores : event[c] \subseteq event'[c]
    BY <1>1 DEF StartM4, AppMainM4, InitM4
  <2>3. QED
    BY <2>1, <2>2, Rouse
<1>2. CASE PrintM4
  <2>1. UNCHANGED <<rx, buffer>> /\ \A c \in Cores : c = "M7" \/ event'[c] = event[c]
    BY <1>2 DEF PrintM4, Raise
  <2>2. QED
    BY <1>2, <2>1 DEF Overslept
<1>3. ASSUME NEW t \in Tasks, SendMessage(t) \/ Send(t)
      PROVE  \A c \in Cores : Overslept(c)' => Overslept(c)
  BY <1>3 DEF SendMessage, Send, Notify, Take, Overslept
<1>4. ASSUME NEW c \in Cores, Tx(c)
      PROVE  \A d \in Cores : Overslept(d)' => Overslept(d)
  <2>1. UNCHANGED rx
    BY <1>4 DEF Tx, TxSend, TxAddress
  <2>2. \/ UNCHANGED <<buffer, event>>
        \/ /\ \A d \in Cores \ {c} : buffer'[d] = buffer[d]
           /\ event' = [event EXCEPT ![Other(c)] = {"ipc"}]
    BY <1>4 DEF Tx, TxSend, TxAddress, Transmit, Raise, Cores, Other
  <2>3. \A d \in Cores : d # Other(c) => Other(d) # c
    BY DEF Cores, Other
  <2>4. CASE UNCHANGED <<buffer, event>>
    BY <2>1, <2>4 DEF Overslept
  <2>5. CASE /\ \A d \in Cores \ {c} : buffer'[d] = buffer[d]
             /\ event' = [event EXCEPT ![Other(c)] = {"ipc"}]
    <3>1. SUFFICES ASSUME NEW d \in Cores, Overslept(d)' PROVE Overslept(d)
      OBVIOUS
    <3>2. d # Other(c) /\ event'[d] = event[d]
      BY <2>5, <3>1, CoreFacts DEF Overslept
    <3>3. Other(d) \in Cores \ {c} /\ buffer'[Other(d)] = buffer[Other(d)]
      BY <2>3, <2>5, <3>2, CoreFacts
    <3>4. QED
      BY <2>1, <3>1, <3>2, <3>3 DEF Overslept
  <2>6. QED
    BY <2>2, <2>4, <2>5
<1>5. ASSUME NEW c \in Cores, Rx(c)
      PROVE  \A d \in Cores : Overslept(d)' => Overslept(d)
  <2>1. CASE RxBlock(c)
    BY <2>1 DEF RxBlock, Overslept
  <2>2. CASE RxReceive(c)
    BY <2>2 DEF RxReceive, Overslept, Cores, Other
  <2>3. CASE RxHandle(c)
    BY <2>3 DEF RxHandle, Overslept
  <2>4. CASE RxAddress
    BY <2>4 DEF RxAddress, Overslept, Cores, Other
  <2>5. QED
    BY <1>5, <2>1, <2>2, <2>3, <2>4 DEF Rx
<1>6. ASSUME NEW c \in Cores, NEW e \in Events, Isr(c, e)
      PROVE  \A d \in Cores : Overslept(d)' => Overslept(d)
  BY <1>6 DEF Isr, Overslept
<1>7. CASE \E c \in Cores : Tx(c) \/ Rx(c)
  BY <1>4, <1>5, <1>7
<1>8. CASE \E c \in Cores, e \in Events : Isr(c, e)
  BY <1>6, <1>8
<1>9. CASE \/ \E t \in Apps \cup {"console"} : SendMessage(t)
           \/ \E t \in Tasks : Send(t)
  BY <1>3, <1>9 DEF Tasks
<1>10. QED
  BY <1>1, <1>2, <1>7, <1>8, <1>9 DEF Next

\* For any tasks, messages and buffers, serialized or not: no rx task oversleeps a message
\* but by output of the M4 that takes the place of the event on the M7.
THEOREM WakeupCorrect == Spec => WakeupsKept
<1>1. TypeOK /\ [Next]_vars =>
        [\A c \in Cores : Overslept(c)' => Overslept(c) \/ (c = "M7" /\ PrintM4)]_vars
  BY WakeupStep
<1>2. QED
  BY <1>1, TypeCorrect, PTL DEF Spec, WakeupsKept

----------------------------------------------------------------------------
(* The address comes first                                                  *)

\* Until the M4 has reported back nothing is sent.  Then the address is the first
\* thing in the M7's buffer for as long as the M4's tx task is suspended, and it is
\* nowhere else.
AddressFirst ==
  /\ \A c \in Cores : "alive" \in event[c] => c = "M7" /\ tx["M7"] = "suspended"
  /\ m4 \in {"off", "boot"} => tx["M7"] = "suspended" /\ "alive" \notin event["M7"]
  /\ tx["M7"] \in {"suspended", "start"} => buffer["M7"] = <<>> /\ tx["M4"] = "suspended"
  /\ tx["M7"] \notin {"suspended", "start"} /\ tx["M4"] = "suspended"
       => buffer["M7"] # <<>> /\ buffer["M7"][1] = ADDRESS
  /\ \A c \in Cores : \A i \in 1..Len(buffer[c]) :
       buffer[c][i] = ADDRESS => c = "M7" /\ i = 1 /\ tx["M4"] = "suspended"

\* An rx task has at most one message in hand.
OneInHand ==
  \A c \in Cores : handling[c] = <<>> \/ \E m \in Message : handling[c] = <<m>>

LinkInv == AddressFirst /\ OneInHand

LEMMA LinkInit == Init => LinkInv
BY DEF Init, LinkInv, AddressFirst, OneInHand, Cores

\* The message of a task in a call is not the address.
LEMMA DerefMessage ==
  ASSUME NEW t \in Tasks, call[t] = "take"
  PROVE  Deref(t) = <<t, count[t]>> /\ Deref(t) # ADDRESS
<1>1. t # "address"
  BY IpcAssumption DEF Tasks, Cores
<1>2. QED
  BY <1>1 DEF Deref, ADDRESS

\* Appending to the buffer of a core.
LEMMA AddressAppend ==
  ASSUME TypeOK, AddressFirst, NEW c \in Cores, NEW m \in Message, m # ADDRESS,
         tx[c] = "wait", buffer' = [buffer EXCEPT ![c] = Append(@, m)],
         UNCHANGED <<tx, m4>>,
         \A d \in Cores : "alive" \in event'[d] => "alive" \in event[d]
  PROVE  AddressFirst'
<1> DEFINE b == buffer[c]
<1>1. "M7" \in Cores /\ "M4" \in Cores /\ b \in Seq(Message)
  BY CoreFacts DEF TypeOK
<1>2. /\ Append(b, m) # <<>> /\ Len(Append(b, m)) = Len(b) + 1
      /\ \A i \in 1..Len(b) : Append(b, m)[i] = b[i]
      /\ Append(b, m)[Len(b) + 1] = m
  BY <1>1, AppendProperties
<1>3. Len(b) \in Nat /\ (b # <<>> => Len(b) # 0)
  BY <1>1, LenProperties, EmptySeq
<1>4. buffer'[c] = Append(b, m) /\ \A d \in Cores \ {c} : buffer'[d] = buffer[d]
  BY DEF TypeOK
<1>5. \A d \in Cores : \A i \in 1..Len(buffer'[d]) :
        buffer'[d][i] = ADDRESS => i \in 1..Len(buffer[d]) /\ buffer[d][i] = ADDRESS
  BY <1>2, <1>3, <1>4
<1>6. /\ tx["M7"] \in {"suspended", "start"} => buffer'["M7"] = <<>> /\ tx["M4"] = "suspended"
      /\ tx["M7"] \notin {"suspended", "start"} /\ tx["M4"] = "suspended"
           => buffer'["M7"] # <<>> /\ buffer'["M7"][1] = ADDRESS
  <2>1. tx["M7"] \notin {"suspended", "start"}
    BY <1>1 DEF AddressFirst, Cores
  <2>2. CASE c = "M7"
    BY <1>2, <1>3, <1>4, <2>1, <2>2 DEF AddressFirst
  <2>3. CASE c # "M7"
    BY <1>1, <1>4, <2>1, <2>3 DEF AddressFirst
  <2>4. QED
    BY <2>2, <2>3
<1>7. QED
  BY <1>1, <1>5, <1>6 DEF AddressFirst

LEMMA LinkTx ==
  ASSUME TypeOK, SerialInv, LinkInv, NEW c \in Cores, TxSend(c) \/ TxAddress
  PROVE  LinkInv'
<1>1. OneInHand'
  BY DEF TxSend, TxAddress, LinkInv, OneInHand
<1>2. ASSUME NEW d \in Cores, NEW e \in {"ipc"}, Raise(d, e), NEW f \in Cores,
             "alive" \in event'[f]
      PROVE  "alive" \in event[f]
  BY <1>2 DEF Raise, TypeOK
<1>3. CASE TxAddress
  <2>1. /\ buffer["M7"] = <<>> /\ tx["M4"] = "suspended" /\ tx["M7"] = "start"
        /\ m4 \notin {"off", "boot"}
    BY <1>3 DEF TxAddress, LinkInv, AddressFirst
  <2>2. /\ tx' = [tx EXCEPT !["M7"] = "wait"]
        /\ buffer' = [buffer EXCEPT !["M7"] = <<ADDRESS>>] /\ UNCHANGED m4
    BY <1>3, <2>1 DEF TxAddress, boot
  <2>3. \A d \in Cores : "alive" \notin event'[d]
    BY <1>2, <1>3, <2>1, CoreFacts DEF TxAddress, LinkInv, AddressFirst
  <2>4. /\ buffer'["M7"] = <<ADDRESS>> /\ buffer'["M4"] = buffer["M4"]
        /\ tx'["M7"] = "wait" /\ tx'["M4"] = tx["M4"]
    BY <2>2, CoreFacts DEF TypeOK
  <2>5. Len(<<ADDRESS>>) = 1 /\ <<ADDRESS>>[1] = ADDRESS /\ <<ADDRESS>> # <<>>
    OBVIOUS
  <2>6. \A d \in Cores : \A i \in 1..Len(buffer'[d]) :
          buffer'[d][i] = ADDRESS => d = "M7" /\ i = 1 /\ tx'["M4"] = "suspended"
    BY <2>1, <2>4, <2>5 DEF Cores, LinkInv, AddressFirst
  <2>7. AddressFirst'
    BY <2>1, <2>2, <2>3, <2>4, <2>5, <2>6 DEF AddressFirst
  <2>8. QED
    BY <1>1, <2>7 DEF LinkInv
<1>4. CASE TxSend(c)
  <2>1. note[c] \in Tasks /\ call[note[c]] = "take" /\ tx[c] = "wait"
    BY <1>4 DEF TxSend, SerialInv, Pointers, TypeOK
  <2>2. Deref(note[c]) \in Message /\ Deref(note[c]) # ADDRESS
    BY <2>1, DerefType, DerefMessage
  <2>3. CASE Transmit(c, note[c]) /\ UNCHANGED <<tx, sending>>
    <3>1. \A d \in Cores : "alive" \in event'[d] => "alive" \in event[d]
      BY <1>2, <2>3, CoreFacts DEF Transmit
    <3>2. AddressFirst'
      BY <1>4, <2>1, <2>2, <2>3, <3>1, AddressAppend DEF Transmit, TxSend, LinkInv, boot
    <3>3. QED
      BY <1>1, <3>2 DEF LinkInv
  <2>4. CASE /\ tx' = [tx EXCEPT ![c] = "blocked"]
             /\ UNCHANGED <<buffer, event>>
    <3>1. UNCHANGED m4
      BY <1>4 DEF TxSend, boot
    <3>2. \A d \in Cores :
            \/ tx'[d] = tx[d]
            \/ tx[d] = "wait" /\ tx'[d] = "blocked"
      BY <2>1, <2>4 DEF TypeOK
    <3>3. AddressFirst'
      BY <2>4, <3>1, <3>2, CoreFacts DEF LinkInv, AddressFirst
    <3>4. QED
      BY <1>1, <3>3 DEF LinkInv
  <2>5. QED
    BY <1>4, <2>3, <2>4 DEF TxSend
<1>5. QED
  BY <1>3, <1>4

\* What an rx task finds at the front of the buffer: the address exactly if its core
\* is the M4 and still waits for it.
LEMMA FrontOfBuffer ==
  ASSUME TypeOK, LinkInv, NEW c \in Cores, buffer[Other(c)] # <<>>
  PROVE  Head(buffer[Other(c)]) = ADDRESS <=> c = "M4" /\ tx["M4"] = "suspended"
<1>1. /\ Other(c) \in Cores /\ (Other(c) = "M7" <=> c = "M4")
      /\ buffer[Other(c)] \in Seq(Message)
  BY CoreFacts DEF Cores, Other, TypeOK
<1>2. 1 \in 1..Len(buffer[Other(c)]) /\ Head(buffer[Other(c)]) = buffer[Other(c)][1]
  BY <1>1, EmptySeq
<1>3. QED
  BY <1>1, <1>2 DEF LinkInv, AddressFirst

\* Taking what is at the front away, by the one who waits for it.
LEMMA AddressTail ==
  ASSUME TypeOK, AddressFirst, NEW c \in Cores, buffer[c] # <<>>,
         buffer' = [buffer EXCEPT ![c] = Tail(@)],
         \/ c = "M7" /\ tx["M4"] = "suspended" /\ tx' = [tx EXCEPT !["M4"] = "wait"]
         \/ (c = "M7" => tx["M4"] # "suspended") /\ UNCHANGED tx,
         UNCHANGED <<event, m4>>
  PROVE  AddressFirst'
<1> DEFINE b == buffer[c]
<1>1. "M7" \in Cores /\ "M4" \in Cores /\ b \in Seq(Message)
  BY CoreFacts DEF TypeOK
<1>2. /\ Len(b) \in Nat /\ Len(Tail(b)) = Len(b) - 1
      /\ \A i \in 1..Len(Tail(b)) : Tail(b)[i] = b[i + 1]
  BY <1>1, HeadTailProperties, LenProperties
<1>3. buffer'[c] = Tail(b) /\ \A d \in Cores \ {c} : buffer'[d] = buffer[d]
  BY DEF TypeOK
<1>4. ASSUME NEW i \in 1..Len(Tail(b)) PROVE Tail(b)[i] # ADDRESS
  BY <1>2, <1>4 DEF AddressFirst
<1>5. tx'["M7"] = tx["M7"]
      /\ tx'["M4"] = IF c = "M7" /\ tx["M4"] = "suspended" THEN "wait" ELSE tx["M4"]
  BY <1>1 DEF TypeOK
<1>6. ASSUME NEW d \in Cores, NEW i \in 1..Len(buffer'[d]), buffer'[d][i] = ADDRESS
      PROVE  d = "M7" /\ i = 1 /\ tx'["M4"] = "suspended"
  <2>1. d # c
    BY <1>3, <1>4, <1>6
  <2>2. buffer'[d] = buffer[d]
    BY <1>3, <2>1
  <2>3. d = "M7" /\ i = 1 /\ tx["M4"] = "suspended"
    BY <1>6, <2>2 DEF AddressFirst
  <2>4. QED
    BY <1>5, <2>1, <2>3
<1>7. tx["M7"] \in {"suspended", "start"} => c # "M7" /\ buffer["M7"] = <<>>
  BY DEF AddressFirst
<1>8. QED
  BY <1>1, <1>3, <1>5, <1>6, <1>7 DEF AddressFirst, Cores

LEMMA LinkRx ==
  ASSUME TypeOK, LinkInv, NEW c \in Cores, Rx(c)
  PROVE  LinkInv'
<1>1. CASE RxBlock(c)
  BY <1>1 DEF RxBlock, LinkInv, AddressFirst, OneInHand, boot
<1>2. CASE RxReceive(c)
  <2>1. Head(buffer[Other(c)]) \in Message
    BY <1>2, CoreFacts, HeadTailProperties DEF RxReceive, TypeOK
  <2>2. OneInHand'
    BY <1>2, <2>1 DEF RxReceive, LinkInv, OneInHand, TypeOK
  <2>3. Other(c) = "M7" => c = "M4"
    BY DEF Cores, Other
  <2>4. AddressFirst'
    BY <1>2, <2>3, AddressTail, CoreFacts DEF RxReceive, LinkInv, boot
  <2>5. QED
    BY <2>2, <2>4 DEF LinkInv
<1>3. CASE RxHandle(c)
  <2>1. UNCHANGED <<tx, buffer, event, m4>>
        /\ handling' = [handling EXCEPT ![c] = <<>>]
    BY <1>3 DEF RxHandle
  <2>2. QED
    BY <2>1 DEF LinkInv, AddressFirst, OneInHand, TypeOK
<1>4. CASE RxAddress
  <2>1. UNCHANGED handling
    BY <1>4 DEF RxAddress
  <2>2. Head(buffer["M7"]) = ADDRESS
    BY <1>4, FrontOfBuffer, CoreFacts DEF RxAddress, Other
  <2>3. AddressFirst'
    BY <1>4, <2>2, AddressTail, CoreFacts DEF RxAddress, LinkInv, boot
  <2>4. QED
    BY <2>1, <2>3 DEF LinkInv, OneInHand
<1>5. QED
  BY <1>1, <1>2, <1>3, <1>4 DEF Rx

LEMMA LinkNext ==
  TypeOK /\ SerialInv /\ LinkInv /\ [Next]_vars => LinkInv'
<1> SUFFICES ASSUME TypeOK, SerialInv, LinkInv, [Next]_vars PROVE LinkInv'
  OBVIOUS
<1> USE DEF boot
<1>1. CASE UNCHANGED vars
  BY <1>1 DEF vars, LinkInv, AddressFirst, OneInHand
<1>2. CASE StartM4 \/ AppMainM4
  BY <1>2 DEF StartM4, AppMainM4, LinkInv, AddressFirst, OneInHand
<1>3. CASE InitM4
  BY <1>3, CoreFacts DEF InitM4, LinkInv, AddressFirst, OneInHand, TypeOK
<1>4. CASE PrintM4
  <2>1. \A c \in Cores : "alive" \in event'[c] => "alive" \in event[c]
    BY <1>4, CoreFacts DEF PrintM4, Raise, TypeOK
  <2>2. UNCHANGED <<tx, buffer, handling, m4>>
    BY <1>4 DEF PrintM4
  <2>3. QED
    BY <2>1, <2>2, CoreFacts DEF LinkInv, AddressFirst, OneInHand
<1>5. ASSUME NEW t \in Tasks, SendMessage(t) \/ Send(t) PROVE LinkInv'
  BY <1>5 DEF SendMessage, Send, Notify, Take, LinkInv, AddressFirst, OneInHand
<1>6. ASSUME NEW c \in Cores, Tx(c) PROVE LinkInv'
  BY <1>6, LinkTx DEF Tx
<1>7. ASSUME NEW c \in Cores, Rx(c) PROVE LinkInv'
  BY <1>7, LinkRx
<1>8. ASSUME NEW c \in Cores, NEW e \in Events, Isr(c, e) PROVE LinkInv'
  <2>1. UNCHANGED <<buffer, handling, m4>>
    BY <1>8 DEF Isr
  <2>2. \A d \in Cores : "alive" \in event'[d] => "alive" \in event[d] /\ (e = "alive" => d # c)
    BY <1>8 DEF Isr, TypeOK
  <2>3. CASE e = "alive"
    <3>1. c = "M7" /\ tx["M7"] = "suspended" /\ "alive" \in event["M7"]
      BY <1>8, <2>3 DEF Isr, LinkInv, AddressFirst
    <3>2. tx' = [tx EXCEPT !["M7"] = "start"]
      BY <1>8, <2>3, <3>1 DEF Isr
    <3>3. tx'["M7"] = "start" /\ tx'["M4"] = tx["M4"]
      BY <3>2, CoreFacts DEF TypeOK
    <3>4. QED
      BY <2>1, <2>2, <2>3, <3>1, <3>3, CoreFacts DEF LinkInv, AddressFirst, OneInHand
  <2>4. CASE e # "alive"
    <3>1. UNCHANGED tx
      BY <1>8, <2>4 DEF Isr
    <3>2. QED
      BY <2>1, <2>2, <3>1, CoreFacts DEF LinkInv, AddressFirst, OneInHand
  <2>5. QED
    BY <2>3, <2>4
<1>9. QED
  BY <1>1, <1>2, <1>3, <1>4, <1>5, <1>6, <1>7, <1>8, CoreFacts DEF Next

LEMMA LinkInductive ==
  ASSUME Serialized
  PROVE  Spec => [](TypeOK /\ SerialInv /\ LinkInv)
<1>1. Spec => [](TypeOK /\ SerialInv)
  BY SerialInductive
<1>2. QED
  BY <1>1, LinkInit, LinkNext, PTL DEF Spec

----------------------------------------------------------------------------
(* Ipc implements IpcChannel                                                *)

Stages == [t \in Tasks |-> Stage(t)]
Links  == [c \in Cores |-> Unhandled(c)]

\* What is appended to a buffer is appended to what is not handled.
LEMMA LinkAppend ==
  ASSUME NEW s \in Seq(Message), NEW h \in Seq(Message), NEW m \in Message, m # ADDRESS
  PROVE  h \o WithoutAddress(Append(s, m)) = Append(h \o WithoutAddress(s), m)
<1>1. /\ WithoutAddress(s) \in Seq(Message)
      /\ WithoutAddress(Append(s, m)) = Append(WithoutAddress(s), m)
  <2>1. CASE s = <<>>
    BY <2>1 DEF WithoutAddress
  <2>2. CASE s # <<>>
    <3>1. /\ Append(s, m) # <<>> /\ Head(Append(s, m)) = Head(s)
          /\ Tail(Append(s, m)) = Append(Tail(s), m) /\ Tail(s) \in Seq(Message)
      BY <2>2, AppendProperties, HeadTailAppend, HeadTailProperties
    <3>2. QED
      BY <2>2, <3>1 DEF WithoutAddress
  <2>3. QED
    BY <2>1, <2>2
<1>2. ASSUME NEW w \in Seq(Message) PROVE h \o Append(w, m) = Append(h \o w, m)
  <2>1. <<m>> \in Seq(Message) /\ h \o w \in Seq(Message)
    BY ConcatProperties
  <2>2. Append(w, m) = w \o <<m>> /\ Append(h \o w, m) = (h \o w) \o <<m>>
    BY <2>1, AppendIsConcat
  <2>3. QED
    BY <2>1, <2>2, ConcatAssociative
<1>3. QED
  BY <1>1, <1>2

\* Receiving moves the first of what is not handled from the buffer into the hand.
LEMMA LinkReceive ==
  ASSUME NEW s \in Seq(Message), s # <<>>, Head(s) # ADDRESS,
         Tail(s) # <<>> => Head(Tail(s)) # ADDRESS
  PROVE  <<Head(s)>> \o WithoutAddress(Tail(s)) = <<>> \o WithoutAddress(s)
<1>1. WithoutAddress(Tail(s)) = Tail(s) /\ WithoutAddress(s) = s
  BY DEF WithoutAddress
<1>2. <<Head(s)>> \in Seq(Message) /\ Tail(s) \in Seq(Message)
  BY HeadTailProperties
<1>3. <<Head(s)>> \o Tail(s) = s
  <2>1. /\ <<Head(s)>> \o Tail(s) \in Seq(Message)
        /\ Len(<<Head(s)>> \o Tail(s)) = 1 + Len(Tail(s))
        /\ \A i \in 1..(1 + Len(Tail(s))) : (<<Head(s)>> \o Tail(s))[i] =
               IF i <= 1 THEN Head(s) ELSE Tail(s)[i - 1]
    BY <1>2, ConcatProperties
  <2>2. /\ Len(Tail(s)) = Len(s) - 1 /\ Len(s) \in Nat
        /\ \A i \in 1..Len(Tail(s)) : Tail(s)[i] = s[i + 1]
        /\ Head(s) = s[1]
    BY HeadTailProperties, LenProperties
  <2>3. \A i \in 1..Len(s) : (<<Head(s)>> \o Tail(s))[i] = s[i]
    BY <2>1, <2>2
  <2>4. QED
    BY <2>1, <2>2, <2>3, SeqEqual
<1>4. QED
  BY <1>1, <1>3, ConcatEmptySeq

\* Handling takes away the first of what is not handled.
LEMMA LinkHandle ==
  ASSUME NEW m \in Message, NEW s \in Seq(Message)
  PROVE  /\ <<m>> \o s # <<>>
         /\ Tail(<<m>> \o s) = <<>> \o s
<1>1. <<m>> \in Seq(Message) /\ Len(<<m>>) = 1
  OBVIOUS
<1>2. /\ <<m>> \o s \in Seq(Message)
      /\ Len(<<m>> \o s) = 1 + Len(s) /\ Len(s) \in Nat
      /\ \A i \in 1..(1 + Len(s)) : (<<m>> \o s)[i] = IF i <= 1 THEN m ELSE s[i - 1]
  BY <1>1, ConcatProperties, LenProperties
<1>3. <<m>> \o s # <<>>
  BY <1>2
<1>4. /\ Tail(<<m>> \o s) \in Seq(Message)
      /\ Len(Tail(<<m>> \o s)) = Len(s)
      /\ \A i \in 1..Len(s) : Tail(<<m>> \o s)[i] = (<<m>> \o s)[i + 1]
  BY <1>2, <1>3, HeadTailProperties
<1>5. \A i \in 1..Len(s) : Tail(<<m>> \o s)[i] = s[i]
  BY <1>2, <1>4
<1>6. Tail(<<m>> \o s) = s
  BY <1>2, <1>4, <1>5, SeqEqual
<1>7. QED
  BY <1>3, <1>6, ConcatEmptySeq

\* A step in which at most task t changes its stage.
LEMMA OneStage ==
  ASSUME NEW t \in Tasks, NEW stage, Stage(t)' = stage,
         \A u \in Tasks \ {t} : Stage(u)' = Stage(u)
  PROVE  Stages' = [Stages EXCEPT ![t] = stage]
BY DEF Stages

LEMMA SameStages ==
  ASSUME UNCHANGED <<call, note, sending>>
  PROVE  Stages' = Stages
BY DEF Stages, Stage

LEMMA SameLinks ==
  ASSUME UNCHANGED <<buffer, handling>>
  PROVE  Links' = Links
BY DEF Links, Unhandled

LEMMA ChannelStutter ==
  ASSUME Stages' = Stages, Links' = Links, count' = count
  PROVE  [Channel!Next]_(Channel!vars)
BY DEF Channel!vars, Stages, Links

\* A task that begins a call, from outside or from within its message handler.
LEMMA StagesCall ==
  ASSUME TypeOK, NEW t \in Tasks, call[t] = "idle",
         call' = [call EXCEPT ![t] = "notify"], UNCHANGED <<note, sending>>
  PROVE  Stage(t) = "idle" /\ Stages' = [Stages EXCEPT ![t] = "called"]
<1>1. call'[t] = "notify" /\ \A u \in Tasks \ {t} : call'[u] = call[u]
  BY DEF TypeOK
<1>2. Stage(t)' = "called" /\ \A u \in Tasks \ {t} : Stage(u)' = Stage(u)
  BY <1>1 DEF Stage
<1>3. Stage(t) = "idle"
  BY DEF Stage
<1>4. QED
  BY <1>2, <1>3, OneStage

LEMMA ChannelSend ==
  ASSUME TypeOK, SerialInv, NEW t \in Tasks, SendMessage(t) \/ Notify(t) \/ Take(t)
  PROVE  [Channel!Next]_(Channel!vars)
<1> DEFINE c == Core(t)
<1>1. c \in Cores /\ NULL \notin Tasks
  BY CoreFacts
<1>2. Links' = Links
  BY SameLinks DEF SendMessage, Notify, Take
<1>3. CASE SendMessage(t)
  <2>1. Stage(t) = "idle" /\ Stages' = [Stages EXCEPT ![t] = "called"]
    BY <1>3, StagesCall DEF SendMessage
  <2>2. count' = [count EXCEPT ![t] = @ + 1]
    BY <1>3 DEF SendMessage
  <2>3. Channel!Call(t)
    BY <1>2, <2>1, <2>2 DEF Channel!Call, Stages, Links
  <2>4. QED
    BY <2>3 DEF Channel!Next
<1>4. CASE Notify(t)
  <2>1. /\ call[t] = "notify" /\ note[c] = NULL
        /\ call'[t] = "take" /\ \A u \in Tasks \ {t} : call'[u] = call[u]
        /\ note'[c] = t /\ \A d \in Cores \ {c} : note'[d] = note[d]
        /\ UNCHANGED <<sending, count>>
    BY <1>1, <1>4 DEF Notify, TypeOK
  <2>2. Stage(t) = "called" /\ Stage(t)' = "called"
    BY <2>1 DEF Stage
  <2>3. ASSUME NEW u \in Tasks \ {t} PROVE Stage(u)' = Stage(u)
    <3>1. CASE call[u] = "take"
      <4>1. Core(u) \in Cores \ {c}
        BY <2>1, <3>1, CoreFacts DEF SerialInv, OneCaller
      <4>2. QED
        BY <2>1, <4>1 DEF Stage
    <3>2. CASE call[u] # "take"
      BY <2>1, <3>2 DEF Stage, TypeOK
    <3>3. QED
      BY <3>1, <3>2
  <2>4. Stages' = Stages
    BY <2>2, <2>3 DEF Stages
  <2>5. QED
    BY <1>2, <2>1, <2>4, ChannelStutter
<1>5. CASE Take(t)
  <2>1. /\ call[t] = "take" /\ sem[c] = 1 /\ call' = [call EXCEPT ![t] = "idle"]
        /\ UNCHANGED <<note, sending, count>>
    BY <1>5 DEF Take
  <2>2. note[c] = NULL /\ sending[c] = NULL
    BY <1>1, <2>1 DEF SerialInv, Given
  <2>3. call'[t] = "idle" /\ \A u \in Tasks \ {t} : call'[u] = call[u]
    BY <2>1 DEF TypeOK
  <2>4. Stage(t) = "taken"
    BY <1>1, <2>1, <2>2 DEF Stage
  <2>5. Stage(t)' = "idle" /\ \A u \in Tasks \ {t} : Stage(u)' = Stage(u)
    BY <2>1, <2>3 DEF Stage
  <2>6. Channel!Return(t)
    BY <1>2, <2>1, <2>4, <2>5, OneStage DEF Channel!Return, Stages, Links
  <2>7. QED
    BY <2>6 DEF Channel!Next
<1>6. QED
  BY <1>3, <1>4, <1>5

LEMMA ChannelTx ==
  ASSUME TypeOK, SerialInv, LinkInv, NEW c \in Cores, TxSend(c) \/ TxAddress
  PROVE  [Channel!Next]_(Channel!vars)
<1>1. Other(c) \in Cores /\ Other(Other(c)) = c /\ NULL \notin Tasks
  BY CoreFacts
<1>2. CASE TxAddress
  <2>1. UNCHANGED <<call, count, note, sending, handling>>
    BY <1>2 DEF TxAddress
  <2>2. buffer["M7"] = <<>> /\ buffer' = [buffer EXCEPT !["M7"] = Append(@, ADDRESS)]
    BY <1>2 DEF TxAddress, LinkInv, AddressFirst
  <2>3. buffer'["M7"] = <<ADDRESS>> /\ \A d \in Cores \ {"M7"} : buffer'[d] = buffer[d]
    BY <2>2, CoreFacts DEF TypeOK
  <2>4. WithoutAddress(<<ADDRESS>>) = <<>> /\ WithoutAddress(<<>>) = <<>>
    BY DEF WithoutAddress
  <2>5. \A d \in Cores : WithoutAddress(buffer'[d]) = WithoutAddress(buffer[d])
    BY <2>2, <2>3, <2>4
  <2>6. Links' = Links
    BY <2>1, <2>5 DEF Links, Unhandled, WithoutAddress
  <2>7. QED
    BY <2>1, <2>6, SameStages, ChannelStutter
<1>3. CASE TxSend(c)
  <2>0. PICK t \in Tasks : t = note[c]
    BY <1>3 DEF TxSend, TypeOK
  <2>1. note' = [note EXCEPT ![c] = NULL] /\ UNCHANGED <<call, count, handling>>
    BY <1>3 DEF TxSend
  <2>2. call[t] = "take" /\ Core(t) = c /\ sending[c] = NULL
    BY <1>1, <2>0 DEF SerialInv, Pointers
  <2>3. Stage(t) = "called"
    BY <2>0, <2>2 DEF Stage
  <2>4. note'[c] = NULL /\ \A d \in Cores \ {c} : note'[d] = note[d]
    BY <2>1 DEF TypeOK
  <2>5. CASE Transmit(c, t) /\ UNCHANGED sending
    <3>1. Stage(t)' = "taken" /\ \A u \in Tasks \ {t} : Stage(u)' = Stage(u)
      <4>1. call'[t] = "take" /\ Core(t) = c /\ note'[c] = NULL /\ sending'[c] = NULL /\ t # NULL
        BY <1>1, <2>1, <2>2, <2>4, <2>5
      <4>2. Stage(t)' = "taken"
        BY <4>1 DEF Stage
      <4>3. \A u \in Tasks \ {t} : Core(u) \in Cores /\ u # NULL
        BY <1>1, CoreFacts
      <4>4. ASSUME NEW u \in Tasks \ {t} PROVE Stage(u)' = Stage(u)
        <5>1. u \in {note'[Core(u)], sending'[Core(u)]} <=> u \in {note[Core(u)], sending[Core(u)]}
          BY <2>0, <2>4, <2>5, <4>3
        <5>2. QED
          BY <2>1, <5>1 DEF Stage
      <4>5. QED
        BY <4>2, <4>4
    <3>2. /\ Deref(t) \in Message /\ Deref(t) # ADDRESS /\ Deref(t) = <<t, count[t]>>
      BY <2>1, <2>2, DerefType, DerefMessage
    <3>3. /\ buffer'[c] = Append(buffer[c], <<t, count[t]>>)
          /\ \A d \in Cores \ {c} : buffer'[d] = buffer[d]
      BY <2>5, <3>2 DEF Transmit, TypeOK
    <3>4. /\ Unhandled(c)' = Append(Unhandled(c), <<t, count[t]>>)
          /\ \A d \in Cores \ {c} : Unhandled(d)' = Unhandled(d)
      <4>1. buffer[c] \in Seq(Message) /\ handling[Other(c)] \in Seq(Message)
        BY <1>1 DEF TypeOK
      <4>2. Unhandled(c)' = handling[Other(c)] \o WithoutAddress(Append(buffer[c], <<t, count[t]>>))
        BY <2>1, <3>3 DEF Unhandled, WithoutAddress
      <4>3. Unhandled(c)' = Append(Unhandled(c), <<t, count[t]>>)
        BY <3>2, <4>1, <4>2, LinkAppend DEF Unhandled
      <4>4. QED
        BY <2>1, <3>3, <4>3 DEF Unhandled, WithoutAddress
    <3>5. Links' = [Links EXCEPT ![Core(t)] = Append(@, <<t, count[t]>>)]
      BY <2>2, <3>4 DEF Links
    <3>6. Stages' = [Stages EXCEPT ![t] = "taken"]
      BY <2>1, <3>1, OneStage
    <3>7. Channel!TakeOver(t)
      BY <2>1, <2>3, <3>5, <3>6 DEF Channel!TakeOver, Stages, Links
    <3>8. QED
      BY <3>7 DEF Channel!Next
  <2>6. CASE UNCHANGED buffer /\ sending' = [sending EXCEPT ![c] = t]
    <3>1. sending'[c] = t /\ \A d \in Cores \ {c} : sending'[d] = sending[d]
      BY <2>6 DEF TypeOK
    <3>2. ASSUME NEW u \in Tasks PROVE Stage(u)' = Stage(u)
      <4>1. u \in {note'[Core(u)], sending'[Core(u)]} <=> u \in {note[Core(u)], sending[Core(u)]}
        BY <1>1, <2>0, <2>2, <2>4, <3>1, CoreFacts
      <4>2. QED
        BY <2>1, <4>1 DEF Stage
    <3>3. Stages' = Stages /\ Links' = Links
      BY <2>1, <2>6, <3>2, SameLinks DEF Stages
    <3>4. QED
      BY <2>1, <3>3, ChannelStutter
  <2>7. QED
    BY <1>3, <2>0, <2>5, <2>6 DEF TxSend
<1>4. QED
  BY <1>2, <1>3

\* The address is never second.
LEMMA SecondInBuffer ==
  ASSUME TypeOK, LinkInv, NEW c \in Cores, buffer[c] # <<>>, Tail(buffer[c]) # <<>>
  PROVE  Head(Tail(buffer[c])) # ADDRESS
<1>1. /\ Tail(buffer[c]) \in Seq(Message) /\ Len(Tail(buffer[c])) = Len(buffer[c]) - 1
      /\ \A i \in 1..Len(Tail(buffer[c])) : Tail(buffer[c])[i] = buffer[c][i + 1]
      /\ Len(buffer[c]) \in Nat
  BY HeadTailProperties, LenProperties DEF TypeOK
<1>2. 1 \in 1..Len(Tail(buffer[c])) /\ Head(Tail(buffer[c])) = Tail(buffer[c])[1]
  BY <1>1, EmptySeq
<1>3. 2 \in 1..Len(buffer[c]) /\ Head(Tail(buffer[c])) = buffer[c][2]
  BY <1>1, <1>2
<1>4. QED
  BY <1>3 DEF LinkInv, AddressFirst

\* The rx task of core c works on what the other core has sent.
LEMMA ChannelRx ==
  ASSUME TypeOK, SerialInv, LinkInv, Serialized, NEW c \in Cores, Rx(c)
  PROVE  [Channel!Next]_(Channel!vars)
<1> DEFINE d == Other(c)
<1>1. d \in Cores /\ d # c /\ Other(d) = c /\ c \in Tasks /\ Core(c) = c
      /\ \A e \in Cores \ {d} : Other(e) # c
  BY CoreFacts DEF Cores, Other
<1>2. buffer[d] \in Seq(Message) /\ handling[c] \in Seq(Message)
  BY <1>1 DEF TypeOK
<1>3. CASE RxBlock(c)
  BY <1>3, SameStages, SameLinks, ChannelStutter DEF RxBlock
<1>4. CASE RxReceive(c)
  <2>1. UNCHANGED <<call, count, note, sending>> /\ buffer[d] # <<>> /\ handling[c] = <<>>
    BY <1>4 DEF RxReceive
  <2>2. /\ handling'[c] = <<Head(buffer[d])>> /\ buffer'[d] = Tail(buffer[d])
        /\ \A e \in Cores \ {d} : buffer'[e] = buffer[e] /\ handling'[Other(e)] = handling[Other(e)]
    <3>1. /\ handling' = [handling EXCEPT ![c] = <<Head(buffer[d])>>]
          /\ buffer' = [buffer EXCEPT ![d] = Tail(@)]
      BY <1>4 DEF RxReceive
    <3>2. \A e \in Cores : Other(e) \in Cores
      BY CoreFacts
    <3>3. QED
      BY <1>1, <3>1, <3>2 DEF TypeOK
  <2>3. Head(buffer[d]) # ADDRESS
    BY <1>4, <2>1, FrontOfBuffer DEF RxReceive
  <2>4. Tail(buffer[d]) # <<>> => Head(Tail(buffer[d])) # ADDRESS
    BY <1>1, <2>1, SecondInBuffer
  <2>5. Unhandled(d)' = Unhandled(d)
    <3>1. Unhandled(d)' = <<Head(buffer[d])>> \o WithoutAddress(Tail(buffer[d]))
      BY <1>1, <2>2 DEF Unhandled, WithoutAddress
    <3>2. Unhandled(d) = <<>> \o WithoutAddress(buffer[d])
      BY <1>1, <2>1 DEF Unhandled
    <3>3. QED
      BY <1>2, <2>1, <2>3, <2>4, <3>1, <3>2, LinkReceive
  <2>6. \A e \in Cores \ {d} : Unhandled(e)' = Unhandled(e)
    BY <2>2 DEF Unhandled, WithoutAddress
  <2>7. Links' = Links
    BY <2>5, <2>6 DEF Links
  <2>8. QED
    BY <2>1, <2>7, SameStages, ChannelStutter
<1>5. CASE RxHandle(c)
  <2>1. handling' = [handling EXCEPT ![c] = <<>>] /\ handling[c] # <<>>
        /\ UNCHANGED <<note, sending, buffer>>
    BY <1>5 DEF RxHandle
  <2>2. PICK m \in Message : handling[c] = <<m>>
    BY <2>1 DEF LinkInv, OneInHand
  <2>3. WithoutAddress(buffer[d]) \in Seq(Message)
    BY <1>2, HeadTailProperties DEF WithoutAddress
  <2>4. Unhandled(d) # <<>> /\ Unhandled(d)' = Tail(Unhandled(d))
    <3>1. handling'[Other(d)] = <<>>
      BY <1>1, <2>1 DEF TypeOK
    <3>2. Unhandled(d)' = <<>> \o WithoutAddress(buffer[d])
      BY <2>1, <3>1 DEF Unhandled, WithoutAddress
    <3>3. Unhandled(d) = <<m>> \o WithoutAddress(buffer[d])
      BY <1>1, <2>2 DEF Unhandled
    <3>4. QED
      BY <2>3, <3>2, <3>3, LinkHandle
  <2>5. \A e \in Cores \ {d} : Unhandled(e)' = Unhandled(e)
    <3>1. \A e \in Cores \ {d} : handling'[Other(e)] = handling[Other(e)]
      BY <1>1, <2>1, CoreFacts DEF TypeOK
    <3>2. QED
      BY <2>1, <3>1 DEF Unhandled, WithoutAddress
  <2>6. Links' = [Links EXCEPT ![d] = Tail(@)] /\ Links[d] # <<>>
    BY <1>1, <2>4, <2>5 DEF Links
  <2>7. \/ UNCHANGED <<call, count>>
        \/ /\ ~Busy(c) /\ call' = [call EXCEPT ![c] = "notify"]
           /\ count' = [count EXCEPT ![c] = @ + 1]
    BY <1>5, Zenon DEF RxHandle
  <2>8. CASE UNCHANGED <<call, count>>
    <3>1. Stages' = Stages
      BY <2>1, <2>8, SameStages
    <3>2. Channel!Handle(d)
      BY <2>6, <2>8, <3>1 DEF Channel!Handle, Stages, Links
    <3>3. QED
      BY <1>1, <3>2 DEF Channel!Next
  <2>9. CASE /\ ~Busy(c) /\ call' = [call EXCEPT ![c] = "notify"]
             /\ count' = [count EXCEPT ![c] = @ + 1]
    <3>1. call[c] = "idle"
      BY <1>1, <2>9 DEF Busy
    <3>2. Stage(c) = "idle" /\ Stages' = [Stages EXCEPT ![c] = "called"]
      BY <1>1, <2>1, <2>9, <3>1, StagesCall
    <3>3. Channel!HandleAndCall(d, c)
      BY <1>1, <2>6, <2>9, <3>2 DEF Channel!HandleAndCall, Stages, Links
    <3>4. QED
      BY <1>1, <3>3 DEF Channel!Next
  <2>10. QED
    BY <2>7, <2>8, <2>9
<1>6. CASE c = "M4" /\ RxAddress
  <2>1. UNCHANGED <<call, count, note, sending, handling>> /\ buffer["M7"] # <<>>
    BY <1>6 DEF RxAddress
  <2>2. d = "M7"
    BY <1>6 DEF Other
  <2>3. Head(buffer["M7"]) = ADDRESS
    BY <1>6, <2>1, <2>2, FrontOfBuffer DEF RxAddress
  <2>4. buffer' = [buffer EXCEPT !["M7"] = Tail(@)]
    BY <1>6, <2>3 DEF RxAddress
  <2>5. buffer'["M7"] = Tail(buffer["M7"]) /\ \A e \in Cores \ {"M7"} : buffer'[e] = buffer[e]
    BY <1>1, <2>2, <2>4 DEF TypeOK
  <2>6. WithoutAddress(Tail(buffer["M7"])) = WithoutAddress(buffer["M7"])
    <3>1. Tail(buffer["M7"]) # <<>> => Head(Tail(buffer["M7"])) # ADDRESS
      BY <1>1, <2>1, <2>2, SecondInBuffer
    <3>2. QED
      BY <2>1, <2>3, <3>1 DEF WithoutAddress
  <2>7. \A e \in Cores : Unhandled(e)' = Unhandled(e)
    BY <2>1, <2>5, <2>6 DEF Unhandled, WithoutAddress
  <2>8. Links' = Links
    BY <2>7 DEF Links
  <2>9. QED
    BY <2>1, <2>8, SameStages, ChannelStutter
<1>7. QED
  BY <1>3, <1>4, <1>5, <1>6 DEF Rx

LEMMA ChannelNext ==
  ASSUME Serialized
  PROVE  TypeOK /\ SerialInv /\ LinkInv /\ [Next]_vars => [Channel!Next]_(Channel!vars)
<1> SUFFICES ASSUME TypeOK, SerialInv, LinkInv, [Next]_vars
             PROVE  [Channel!Next]_(Channel!vars)
  OBVIOUS
<1>1. CASE UNCHANGED <<call, count, note, sending, buffer, handling>>
  BY <1>1, SameStages, SameLinks, ChannelStutter
<1>2. CASE StartM4 \/ InitM4 \/ AppMainM4 \/ PrintM4
  BY <1>1, <1>2 DEF StartM4, InitM4, AppMainM4, PrintM4
<1>3. ASSUME NEW t \in Tasks, SendMessage(t) \/ Send(t)
      PROVE  [Channel!Next]_(Channel!vars)
  BY <1>3, ChannelSend DEF Send
<1>4. ASSUME NEW c \in Cores, Tx(c) \/ Rx(c)
      PROVE  [Channel!Next]_(Channel!vars)
  BY <1>4, ChannelTx, ChannelRx DEF Tx
<1>5. ASSUME NEW c \in Cores, NEW e \in Events, Isr(c, e)
      PROVE  [Channel!Next]_(Channel!vars)
  BY <1>1, <1>5 DEF Isr
<1>6. CASE UNCHANGED vars
  BY <1>1, <1>6 DEF vars
<1>7. QED
  BY <1>2, <1>3, <1>4, <1>5, <1>6, CoreFacts DEF Next

LEMMA ChannelInit == Init => Channel!Init
<1> SUFFICES ASSUME Init PROVE Channel!Init
  OBVIOUS
<1>1. \A t \in Tasks : Stage(t) = "idle"
  BY DEF Init, Stage
<1>2. \A c \in Cores : Unhandled(c) = <<>>
  <2>1. WithoutAddress(<<>>) = <<>> /\ <<>> \o <<>> = <<>>
    BY DEF WithoutAddress
  <2>2. QED
    BY <2>1, CoreFacts DEF Init, Unhandled
<1>3. QED
  BY <1>1, <1>2 DEF Init, Channel!Init

\* Ipc::SendMessage on the two cores keeps the promise of IpcChannel as long as the
\* tasks of a core call it one at a time: every message is taken over once, before its
\* call returns, and the other core handles the messages in the order they were taken.
THEOREM Refinement ==
  ASSUME Serialized
  PROVE  Spec => RefinesChannel
<1>1. TypeOK /\ SerialInv /\ LinkInv /\ [Next]_vars => [Channel!Next]_(Channel!vars)
  BY ChannelNext
<1>2. Spec => [](TypeOK /\ SerialInv /\ LinkInv)
  BY LinkInductive
<1>3. QED
  BY <1>1, <1>2, ChannelInit, PTL DEF Spec, RefinesChannel, Channel!Spec
=============================================================================
