--------------------------- MODULE EdgeTpuProofs ---------------------------
(***************************************************************************)
(* Theorems about EdgeTpu, for every finite set of clients, every queue    *)
(* length and every bound on the faults: the model is type correct, the    *)
(* power count balances, the device is powered while anybody uses it, the  *)
(* context that is shared keeps its device until that drops off the bus by *)
(* itself, and the whole implements PowerLease; and for one client whose   *)
(* delay suffices: only live devices are opened, and no class instance is  *)
(* used after its device has gone.  For any number of clients, without USB *)
(* faults and calls of GetPower, the handler of the queue never blocks on  *)
(* it.                                                                     *)
(***************************************************************************)
EXTENDS EdgeTpu, FiniteSetTheorems, SequenceTheorems, TLAPS

\* Records of the shape SendRequest and SetNextState enqueue are requests.
LEMMA RequestTypes ==
  /\ \A c \in Clients, t \in PowerRequests : [type |-> t, from |-> c] \in Request
  /\ \A s \in NextStates : NextState(s) \in Request
  /\ \A r \in Request : r.type \in PowerRequests => r.from \in Clients
BY ClientsAssumption DEF Request, NextState, PowerRequests, NextStates

\* What the handler leaves itself to send is a sequence of states.
LEMMA ToSendTypes ==
  /\ <<>> \in Seq(NextStates)
  /\ \A s \in NextStates : <<s>> \in Seq(NextStates)
  /\ \A s, t \in NextStates : <<s, t>> \in Seq(NextStates)
  /\ {"SetInterface", "GetStatus", "Error"} \subseteq NextStates
<1>1. ASSUME NEW S, NEW s \in S, NEW t \in S
      PROVE  <<>> \in Seq(S) /\ <<s>> \in Seq(S) /\ <<s, t>> \in Seq(S)
  OBVIOUS
<1>2. {"SetInterface", "GetStatus", "Error"} \subseteq NextStates
  BY DEF NextStates
<1>3. QED
  BY <1>1, <1>2

\* Every variable keeps its type: in particular the queue of the EdgeTpuTask only
\* ever holds requests, and enabled_count_ stays a natural number.
LEMMA TypeInit == Init => TypeOK
<1> SUFFICES ASSUME Init PROVE TypeOK
  OBVIOUS
<1>1. /\ usbError \in BOOLEAN /\ toNotify \in BOOLEAN /\ pmic \in BOOLEAN
      /\ reset \in BOOLEAN /\ lost \in BOOLEAN /\ halted \in BOOLEAN
  BY DEF Init
<1>2. QED
  BY <1>1, FaultAssumption, EmptySeq DEF Init, TypeOK, PCs

LEMMA TypeClient ==
  ASSUME TypeOK, NEW c \in Clients, Client(c) \/ Choose(c)
  PROVE  TypeOK'
<1> USE DEF Goto, mgrVars, taskVars, usbVars
<1>1. CASE OpenLock(c) \/ OpenFound(c) \/ OpenInit(c)
  BY <1>1 DEF TypeOK, PCs, OpenLock, OpenFound, OpenInit
<1>2. CASE OpenError(c)
  <2>1. usbError' \in BOOLEAN
    BY <1>2 DEF OpenError
  <2>2. QED
    BY <1>2, <2>1 DEF TypeOK, PCs, OpenError
<1>3. CASE OpenRun(c)
  <2>1. halted' \in BOOLEAN
    BY <1>3 DEF TypeOK, OpenRun
  <2>2. QED
    BY <1>3, <2>1 DEF TypeOK, PCs, OpenRun
<1>4. CASE DropDone(c) \/ Close(c)
  BY <1>4 DEF TypeOK, PCs, DropDone, Close
<1>5. CASE TempLock(c) \/ ReadTemp(c)
  <2>1. halted' \in BOOLEAN
    BY <1>5 DEF TypeOK, TempLock, ReadTemp
  <2>2. QED
    BY <1>5, <2>1 DEF TypeOK, PCs, TempLock, ReadTemp
<1>6. CASE InvokeLock(c) \/ InvokeDone(c)
  BY <1>6 DEF TypeOK, PCs, InvokeLock, InvokeDone
<1>7. CASE OpenDevice(c) \/ GetTemperature(c) \/ Invoke(c) \/ GetPower(c)
  BY <1>7 DEF TypeOK, PCs, OpenDevice, GetTemperature, Invoke, GetPower, Call
<1>8. CASE OpenPowered(c) \/ DropTaken(c) \/ GetPowerTaken(c)
  BY <1>8 DEF TypeOK, PCs, OpenPowered, DropTaken, GetPowerTaken, TakeResponse
<1>9. CASE OpenSend(c) \/ DropSend(c) \/ GetPowerSend(c)
  <2>1. PICK t \in PowerRequests, l \in PCs :
          queue' = Append(queue, [type |-> t, from |-> c]) /\ pc' = [pc EXCEPT ![c] = l]
    BY <1>9 DEF OpenSend, DropSend, GetPowerSend, SendRequest, Enqueue, PowerRequests, PCs
  <2>2. queue' \in Seq(Request)
    BY <2>1, RequestTypes DEF TypeOK
  <2>3. QED
    BY <1>9, <2>1, <2>2 DEF TypeOK, OpenSend, DropSend, GetPowerSend, SendRequest
<1>10. QED
  BY <1>1, <1>2, <1>3, <1>4, <1>5, <1>6, <1>7, <1>8, <1>9 DEF Client, Choose

\* What receiving a request of any type leaves to be handled.
LEMMA ReceiveTypes ==
  ASSUME TypeOK, NEW type, Receive(type)
  PROVE  /\ queue' \in Seq(Request) /\ Head(queue) \in Request
         /\ type \in PowerRequests => Requester \in Clients
BY HeadTailProperties, RequestTypes DEF TypeOK, Receive, Requester

LEMMA TypeTask ==
  ASSUME TypeOK, Task
  PROVE  TypeOK'
<1> USE DEF mgrVars, taskVars, usbVars
<1>1. CASE HandlePowerOn
  <2>1. pmic' \in BOOLEAN
    BY <1>1 DEF TypeOK, HandlePowerOn
  <2>2. QED
    BY <1>1, <2>1, ReceiveTypes DEF TypeOK, HandlePowerOn, PowerRequests
<1>2. CASE PowerGood
  <2>1. reset' \in BOOLEAN
    BY <1>2 DEF PowerGood
  <2>2. QED
    BY <1>2, <2>1 DEF TypeOK, PowerGood
<1>3. CASE HandlePowerOff
  <2>1. pmic' \in BOOLEAN /\ reset' \in BOOLEAN /\ lost' \in BOOLEAN
    BY <1>3 DEF TypeOK, HandlePowerOff
  <2>2. enabledCount' \in Nat
    BY <1>3 DEF TypeOK, HandlePowerOff
  <2>3. QED
    BY <1>3, <2>1, <2>2, ReceiveTypes DEF TypeOK, HandlePowerOff, PowerRequests
<1>4. CASE HandleGetPower \/ HandleUnattached
  BY <1>4, ReceiveTypes DEF TypeOK, HandleGetPower, HandleUnattached, PowerRequests
<1>5. CASE HandleAttached
  <2>1. toSend' \in Seq(NextStates)
    BY <1>5, ToSendTypes DEF HandleAttached
  <2>2. faults' \in 0..MaxFaults
    BY <1>5, FaultAssumption DEF TypeOK, HandleAttached, Fault
  <2>3. QED
    BY <1>5, <2>1, <2>2, ReceiveTypes DEF TypeOK, HandleAttached
<1>6. CASE HandleSetInterface
  <2>1. toSend' \in Seq(NextStates)
    BY <1>6, ToSendTypes DEF HandleSetInterface
  <2>2. faults' \in 0..MaxFaults
    BY <1>6, FaultAssumption DEF TypeOK, HandleSetInterface, Fault
  <2>3. toNotify' \in BOOLEAN
    BY <1>6 DEF HandleSetInterface
  <2>4. QED
    BY <1>6, <2>1, <2>2, <2>3, ReceiveTypes DEF TypeOK, HandleSetInterface
<1>7. CASE HandleGetStatus
  <2>1. toSend' \in Seq(NextStates)
    BY <1>7, ToSendTypes DEF HandleGetStatus
  <2>2. QED
    BY <1>7, <2>1, ReceiveTypes DEF TypeOK, HandleGetStatus
<1>8. CASE HandleError
  <2>1. usbError' \in BOOLEAN
    BY <1>8 DEF HandleError
  <2>2. QED
    BY <1>8, <2>1, ReceiveTypes DEF TypeOK, HandleError
<1>9. CASE SelfSend
  <2>1. /\ toSend' \in Seq(NextStates)
        /\ queue' \in Seq(Request)
    BY <1>9, HeadTailProperties, RequestTypes DEF TypeOK, SelfSend, Enqueue
  <2>2. QED
    BY <1>9, <2>1 DEF TypeOK, SelfSend
<1>10. CASE NotifyConnected
  <2>1. toNotify' \in BOOLEAN
    BY <1>10 DEF NotifyConnected
  <2>2. QED
    BY <1>10, <2>1 DEF TypeOK, NotifyConnected
<1>11. QED
  BY <1>1, <1>2, <1>3, <1>4, <1>5, <1>6, <1>7, <1>8, <1>9, <1>10 DEF Task

LEMMA TypeUsb ==
  ASSUME TypeOK, Usb \/ UsbFault
  PROVE  TypeOK'
<1> USE DEF mgrVars, taskVars, usbVars
<1>1. ASSUME NEW s \in NextStates, Enqueue(NextState(s))
      PROVE  queue' \in Seq(Request)
  BY <1>1, RequestTypes DEF TypeOK, Enqueue
<1>2. CASE UsbAttach
  BY <1>2 DEF TypeOK, UsbAttach
<1>3. CASE UsbForget
  <2>1. lost' \in BOOLEAN
    BY <1>3 DEF UsbForget
  <2>2. QED
    BY <1>3, <2>1 DEF TypeOK, UsbForget
<1>4. CASE UsbEnumerationDone
  BY <1>1, <1>4 DEF TypeOK, UsbEnumerationDone, NextStates
<1>5. CASE UsbDetach
  <2>1. lost' \in BOOLEAN
    BY <1>5 DEF UsbDetach
  <2>2. QED
    BY <1>1, <1>5, <2>1 DEF TypeOK, UsbDetach, NextStates
<1>6. CASE UsbFault
  <2>1. faults' \in 0..MaxFaults
    BY <1>6, FaultAssumption DEF TypeOK, UsbFault, UsbEnumerationFail, UsbSilent, UsbLoss,
       UsbOtherEvent, Fault
  <2>2. CASE UsbEnumerationFail \/ UsbOtherEvent
    BY <1>1, <2>1, <2>2 DEF TypeOK, UsbEnumerationFail, UsbOtherEvent, NextStates
  <2>3. CASE UsbSilent
    BY <2>1, <2>3 DEF TypeOK, UsbSilent
  <2>4. CASE UsbLoss
    <3>1. lost' \in BOOLEAN
      BY <2>4 DEF UsbLoss
    <3>2. QED
      BY <2>1, <2>4, <3>1 DEF TypeOK, UsbLoss
  <2>5. QED
    BY <1>6, <2>2, <2>3, <2>4 DEF UsbFault
<1>7. QED
  BY <1>2, <1>3, <1>4, <1>5, <1>6 DEF Usb, UsbFault

THEOREM TypeCorrect == Spec => []TypeOK
<1>1. TypeOK /\ [Next]_vars => TypeOK'
  <2> SUFFICES ASSUME TypeOK, [Next]_vars
               PROVE  TypeOK'
    OBVIOUS
  <2>1. CASE UNCHANGED vars
    BY <2>1 DEF TypeOK, vars, mgrVars, taskVars, usbVars
  <2>2. CASE Running
    BY <2>2, TypeClient, TypeTask, TypeUsb DEF Running
  <2>3. QED
    BY <2>1, <2>2 DEF Next, Halted
<1>2. QED
  BY TypeInit, <1>1, PTL DEF Spec

----------------------------------------------------------------------------
(* The inductive invariant                                                 *)

LEMMA InvInit == Init => IInv
<1> SUFFICES ASSUME Init PROVE IInv
  OBVIOUS
<1>1. TypeOK
  BY TypeInit
<1>2. MutexInv /\ SharingInv
  BY DEF Init, MutexInv, SharingInv, Opening
<1>3. QueueInv
  BY DEF Init, QueueInv
<1>4. CountBalances
  <2>1. Contexts = {}
    BY DEF Init, Contexts, Live
  <2>2. QED
    BY <2>1, FS_EmptySet DEF Init, CountBalances
<1>5. PowerInv
  BY DEF Init, PowerInv
<1>6. QED
  BY <1>1, <1>2, <1>3, <1>4, <1>5 DEF IInv

\* The task and the USB host never touch what these two invariants speak of.
LEMMA EnvironmentFrame ==
  ASSUME Task \/ Usb \/ UsbFault
  PROVE  pc' = pc /\ holds' = holds /\ mutex' = mutex
<1> USE DEF mgrVars
<1>1. CASE Task
  BY <1>1 DEF Task, HandlePowerOn, PowerGood, HandlePowerOff, HandleGetPower,
     HandleUnattached, HandleAttached, HandleSetInterface, HandleGetStatus,
     HandleError, SelfSend, NotifyConnected
<1>2. CASE Usb \/ UsbFault
  BY <1>2 DEF Usb, UsbFault, UsbAttach, UsbEnumerationDone, UsbEnumerationFail, UsbSilent, UsbLoss,
     UsbOtherEvent, UsbDetach, UsbForget
<1>3. QED
  BY <1>1, <1>2

LEMMA MutexSharingClient ==
  ASSUME TypeOK, MutexInv, SharingInv, NEW c \in Clients, Client(c) \/ Choose(c)
  PROVE  MutexInv' /\ SharingInv'
<1> USE ClientsAssumption
    DEF TypeOK, MutexInv, SharingInv, Opening, Live, Goto, mgrVars, taskVars, usbVars
<1>1. CASE OpenLock(c)
  BY <1>1 DEF OpenLock
<1>2. CASE OpenFound(c) \/ OpenError(c) \/ OpenInit(c)
  BY <1>2 DEF OpenFound, OpenError, OpenInit
<1>3. CASE OpenRun(c)
  BY <1>3 DEF OpenRun
<1>4. CASE DropDone(c)
  BY <1>4 DEF DropDone
<1>5. CASE Close(c)
  BY <1>5 DEF Close, LastRef
<1>6. CASE TempLock(c)
  BY <1>6 DEF TempLock
<1>7. CASE ReadTemp(c)
  BY <1>7 DEF ReadTemp
<1>8. CASE InvokeLock(c)
  BY <1>8 DEF InvokeLock
<1>9. CASE InvokeDone(c)
  BY <1>9 DEF InvokeDone
<1>10. CASE OpenDevice(c) \/ GetTemperature(c) \/ Invoke(c) \/ GetPower(c)
  BY <1>10 DEF OpenDevice, GetTemperature, Invoke, GetPower, Call
<1>11. CASE OpenPowered(c) \/ DropTaken(c) \/ GetPowerTaken(c)
  BY <1>11 DEF OpenPowered, DropTaken, GetPowerTaken, TakeResponse
<1>12. CASE OpenSend(c) \/ DropSend(c) \/ GetPowerSend(c)
  BY <1>12 DEF OpenSend, DropSend, GetPowerSend, SendRequest
<1>13. QED
  BY <1>1, <1>2, <1>3, <1>4, <1>5, <1>6, <1>7, <1>8, <1>9, <1>10, <1>11, <1>12
     DEF Client, Choose

\* The states of a client that waits for the answer to a request.
Waits == {"openWait", "dropWait", "getWait"}

LEMMA AwaitedByWaits == \A type : AwaitedBy(type) \in Waits
BY DEF AwaitedBy, Waits

\* A step of a client that neither sends nor receives an answer.
LEMMA QueueMove ==
  ASSUME TypeOK, QueueInv, NEW c \in Clients, NEW l \in PCs, pc[c] \notin Waits,
         pc' = [pc EXCEPT ![c] = l], UNCHANGED <<queue, given, powering>>
  PROVE  QueueInv'
<1>1. \A i \in 1..Len(queue) : queue[i].type \in PowerRequests => queue[i].from # c
  BY AwaitedByWaits DEF QueueInv
<1>2. c \notin given
  BY DEF QueueInv, Waits
<1>3. \A i \in 1..Len(queue) : queue[i] \in Request
  BY ElementOfSeq DEF TypeOK
<1>4. QED
  BY <1>1, <1>2, <1>3, RequestTypes DEF QueueInv, TypeOK

\* A client enqueues a request and starts to wait for it.
LEMMA QueueSend ==
  ASSUME TypeOK, QueueInv, PowerInv, NEW c \in Clients, NEW type \in PowerRequests,
         pc[c] \notin Waits, pc' = [pc EXCEPT ![c] = AwaitedBy(type)],
         queue' = Append(queue, [type |-> type, from |-> c]),
         UNCHANGED <<given, powering>>
  PROVE  QueueInv'
<1>1. \A i \in 1..Len(queue) : queue[i].type \in PowerRequests => queue[i].from # c
  BY AwaitedByWaits DEF QueueInv
<1>2. c \notin given /\ c # powering
  BY ClientsAssumption DEF QueueInv, PowerInv, Waits, TypeOK
<1>3. \A i \in 1..Len(queue) : queue[i] \in Request
  BY ElementOfSeq DEF TypeOK
<1>4. /\ Len(queue') = Len(queue) + 1 /\ Len(queue) \in Nat
      /\ \A i \in 1..Len(queue) : queue'[i] = queue[i]
      /\ queue'[Len(queue) + 1] = [type |-> type, from |-> c]
  BY LenProperties DEF TypeOK
<1>5. \A i \in 1..Len(queue') : i \in 1..Len(queue) \/ i = Len(queue) + 1
  BY <1>4
<1>6. \A i \in 1..Len(queue') : queue'[i].type \in PowerRequests =>
        /\ pc'[queue'[i].from] = AwaitedBy(queue'[i].type)
        /\ queue'[i].from \notin given'
        /\ queue'[i].from # powering'
  BY <1>1, <1>2, <1>3, <1>4, <1>5, RequestTypes DEF QueueInv, TypeOK
<1>7. \A i, j \in 1..Len(queue') :
        /\ queue'[i].type \in PowerRequests
        /\ queue'[j].type \in PowerRequests
        /\ queue'[i].from = queue'[j].from
        => i = j
  BY <1>1, <1>4, <1>5 DEF QueueInv
<1>8. \A d \in given' : pc'[d] \in Waits
  BY <1>2 DEF QueueInv, Waits, TypeOK
<1>9. QED
  BY <1>6, <1>7, <1>8 DEF QueueInv, Waits

\* SetNextState adds nothing that a client waits for.
LEMMA QueueNextState ==
  ASSUME TypeOK, QueueInv, NEW s \in NextStates, Enqueue(NextState(s)),
         UNCHANGED <<pc, given, powering>>
  PROVE  QueueInv'
<1>1. /\ Len(queue') = Len(queue) + 1 /\ Len(queue) \in Nat
      /\ \A i \in 1..Len(queue) : queue'[i] = queue[i]
      /\ queue'[Len(queue) + 1] = [type |-> s, from |-> NULL]
  BY LenProperties DEF TypeOK, Enqueue, NextState
<1>2. \A i \in 1..Len(queue') : i \in 1..Len(queue) \/ i = Len(queue) + 1
  BY <1>1
<1>3. queue'[Len(queue) + 1].type \notin PowerRequests
  BY <1>1 DEF PowerRequests, NextStates
<1>4. QED
  BY <1>1, <1>2, <1>3 DEF QueueInv

\* The handler takes a request off the queue: nobody else awaits it.
LEMMA QueueReceive ==
  ASSUME TypeOK, QueueInv, NEW type, Receive(type), pc' = pc
  PROVE  /\ type \in PowerRequests =>
              /\ Requester \in Clients /\ pc[Requester] = AwaitedBy(type)
              /\ Requester \notin given /\ Requester # powering
         /\ /\ given' \in {given, given \cup {Requester}}
            /\ given' # given => type \in PowerRequests
            /\ powering' \in {powering, Requester}
            /\ powering' # powering => type \in PowerRequests
            => QueueInv'
<1>1. /\ Len(queue) \in Nat /\ Len(queue) > 0
      /\ Len(queue') = Len(queue) - 1
      /\ \A i \in 1..Len(queue') : queue'[i] = queue[i + 1]
      /\ Head(queue) = queue[1]
  BY LenProperties, EmptySeq, HeadTailProperties DEF TypeOK, Receive
<1>2. type \in PowerRequests =>
              /\ Requester \in Clients /\ pc[Requester] = AwaitedBy(type)
              /\ Requester \notin given /\ Requester # powering
  BY <1>1, ReceiveTypes DEF QueueInv, Receive, Requester
<1>3. ASSUME /\ given' \in {given, given \cup {Requester}}
             /\ given' # given => type \in PowerRequests
             /\ powering' \in {powering, Requester}
             /\ powering' # powering => type \in PowerRequests
      PROVE  QueueInv'
  <2>1. \A i \in 1..Len(queue') : i + 1 \in 1..Len(queue) /\ i + 1 # 1
    BY <1>1
  <2>2. \A i \in 1..Len(queue') :
          type \in PowerRequests /\ queue'[i].type \in PowerRequests
            => queue'[i].from # Requester
    BY <1>1, <2>1 DEF QueueInv, Receive, Requester
  <2>3. \A i \in 1..Len(queue') : queue'[i].type \in PowerRequests =>
          /\ pc'[queue'[i].from] = AwaitedBy(queue'[i].type)
          /\ queue'[i].from \notin given'
          /\ queue'[i].from # powering'
    BY <1>1, <1>3, <2>1, <2>2 DEF QueueInv
  <2>4. \A i, j \in 1..Len(queue') :
          /\ queue'[i].type \in PowerRequests
          /\ queue'[j].type \in PowerRequests
          /\ queue'[i].from = queue'[j].from
          => i = j
    <3>1. SUFFICES ASSUME NEW i \in 1..Len(queue'), NEW j \in 1..Len(queue'),
                          queue'[i].type \in PowerRequests,
                          queue'[j].type \in PowerRequests,
                          queue'[i].from = queue'[j].from
                   PROVE  i = j
      OBVIOUS
    <3>2. i + 1 = j + 1
      BY <1>1, <2>1, <3>1 DEF QueueInv
    <3>3. QED
      BY <3>2, <1>1
  <2>5. \A d \in given' : pc'[d] \in Waits
    BY <1>2, <1>3, AwaitedByWaits DEF QueueInv, Waits
  <2>6. QED
    BY <2>3, <2>4, <2>5 DEF QueueInv, Waits
<1>4. QED
  BY <1>2, <1>3

LEMMA QueueClient ==
  ASSUME TypeOK, QueueInv, PowerInv, NEW c \in Clients, Client(c) \/ Choose(c)
  PROVE  QueueInv'
<1> USE DEF Goto, mgrVars, taskVars, usbVars
<1>1. CASE OpenSend(c) \/ DropSend(c) \/ GetPowerSend(c)
  <2>1. PICK type \in PowerRequests :
          /\ pc[c] \notin Waits
          /\ pc' = [pc EXCEPT ![c] = AwaitedBy(type)]
          /\ queue' = Append(queue, [type |-> type, from |-> c])
          /\ UNCHANGED <<given, powering>>
    BY <1>1 DEF OpenSend, DropSend, GetPowerSend, SendRequest, Enqueue,
                PowerRequests, AwaitedBy, Waits
  <2>2. QED
    BY <2>1, QueueSend
<1>2. CASE OpenPowered(c) \/ DropTaken(c) \/ GetPowerTaken(c)
  <2>1. PICK l \in {"openPoll", "dropDelay", "idle"} :
          /\ c \in given /\ given' = given \ {c}
          /\ pc' = [pc EXCEPT ![c] = l] /\ UNCHANGED <<queue, powering>>
    BY <1>2 DEF OpenPowered, DropTaken, GetPowerTaken, TakeResponse
  <2>2. \A i \in 1..Len(queue) : queue[i] \in Request
    BY ElementOfSeq DEF TypeOK
  <2>3. QED
    BY <2>1, <2>2, RequestTypes DEF QueueInv, TypeOK
<1>3. CASE OpenLock(c) \/ OpenFound(c) \/ OpenError(c) \/ OpenInit(c) \/ OpenRun(c)
  <2>1. pc[c] \notin Waits /\ UNCHANGED <<queue, given, powering>>
    BY <1>3 DEF OpenLock, OpenFound, OpenError, OpenInit, OpenRun, Waits
  <2>2. \E l \in PCs : pc' = [pc EXCEPT ![c] = l]
    BY <1>3 DEF OpenLock, OpenFound, OpenError, OpenInit, OpenRun, PCs, TypeOK
  <2>3. QED
    BY <2>1, <2>2, QueueMove
<1>4. CASE DropDone(c) \/ TempLock(c) \/ ReadTemp(c) \/ InvokeLock(c) \/ InvokeDone(c)
  <2>1. pc[c] \notin Waits /\ UNCHANGED <<queue, given, powering>>
    BY <1>4 DEF DropDone, TempLock, ReadTemp, InvokeLock, InvokeDone, Waits
  <2>2. \E l \in PCs : pc' = [pc EXCEPT ![c] = l]
    BY <1>4 DEF DropDone, TempLock, ReadTemp, InvokeLock, InvokeDone, PCs, TypeOK
  <2>3. QED
    BY <2>1, <2>2, QueueMove
<1>5. CASE OpenDevice(c) \/ Close(c) \/ GetTemperature(c) \/ Invoke(c) \/ GetPower(c)
  <2>1. pc[c] \notin Waits /\ UNCHANGED <<queue, given, powering>>
    BY <1>5 DEF OpenDevice, Close, GetTemperature, Invoke, GetPower, Call, Waits
  <2>2. \E l \in PCs : pc' = [pc EXCEPT ![c] = l]
    BY <1>5 DEF OpenDevice, Close, GetTemperature, Invoke, GetPower, Call, PCs
  <2>3. QED
    BY <2>1, <2>2, QueueMove
<1>6. QED
  BY <1>1, <1>2, <1>3, <1>4, <1>5 DEF Client, Choose

LEMMA QueueTask ==
  ASSUME TypeOK, QueueInv, PowerInv, Task
  PROVE  QueueInv'
<1> USE EnvironmentFrame DEF mgrVars, taskVars, usbVars
<1>1. CASE HandlePowerOn
  BY <1>1, QueueReceive DEF HandlePowerOn, PowerRequests
<1>2. CASE HandlePowerOff \/ HandleGetPower
  BY <1>2, QueueReceive DEF HandlePowerOff, HandleGetPower, PowerRequests
<1>3. CASE HandleUnattached \/ HandleAttached \/ HandleSetInterface
            \/ HandleGetStatus \/ HandleError
  <2>1. given' = given /\ powering' = powering
    BY <1>3 DEF HandleUnattached, HandleAttached, HandleSetInterface,
                HandleGetStatus, HandleError
  <2>2. \E type : Receive(type)
    BY <1>3 DEF HandleUnattached, HandleAttached, HandleSetInterface,
                HandleGetStatus, HandleError
  <2>3. QED
    BY <2>1, <2>2, QueueReceive
<1>4. CASE PowerGood
  <2>1. /\ given' = given \cup {powering} /\ powering' = NULL
        /\ pc[powering] = "openWait" /\ queue' = queue
    BY <1>4 DEF PowerGood, PowerInv
  <2>2. \A i \in 1..Len(queue) : queue[i] \in Request
    BY ElementOfSeq DEF TypeOK
  <2>3. QED
    BY <2>1, <2>2, RequestTypes, ClientsAssumption DEF QueueInv
<1>5. CASE SelfSend
  <2>1. Head(toSend) \in NextStates
    BY <1>5, HeadTailProperties DEF SelfSend, TypeOK
  <2>2. Enqueue(NextState(Head(toSend))) /\ UNCHANGED <<given, powering>>
    BY <1>5 DEF SelfSend
  <2>3. QED
    BY <2>1, <2>2, QueueNextState
<1>6. CASE NotifyConnected
  BY <1>6 DEF NotifyConnected, QueueInv
<1>7. QED
  BY <1>1, <1>2, <1>3, <1>4, <1>5, <1>6 DEF Task

LEMMA QueueUsb ==
  ASSUME TypeOK, QueueInv, Usb \/ UsbFault
  PROVE  QueueInv'
<1> USE EnvironmentFrame DEF mgrVars, taskVars, usbVars
<1>1. CASE UsbAttach \/ UsbForget \/ UsbSilent \/ UsbLoss
  BY <1>1 DEF UsbAttach, UsbForget, UsbSilent, UsbLoss, QueueInv
<1>2. CASE UsbEnumerationDone \/ UsbDetach
  BY <1>2, QueueNextState DEF UsbEnumerationDone, UsbDetach, NextStates
<1>3. CASE UsbEnumerationFail \/ UsbOtherEvent
  BY <1>3, QueueNextState DEF UsbEnumerationFail, UsbSilent, UsbLoss, UsbOtherEvent, NextStates
<1>4. QED
  BY <1>1, <1>2, <1>3 DEF Usb, UsbFault

----------------------------------------------------------------------------
(* The power count                                                          *)

LEMMA ContextsFinite ==
  ASSUME TypeOK
  PROVE  IsFiniteSet(Contexts) /\ Cardinality(Contexts) \in Nat
<1>1. Contexts \subseteq Clients \cup {NULL}
  BY DEF Contexts
<1>2. IsFiniteSet(Clients \cup {NULL})
  BY ClientsAssumption, FS_AddElement
<1>3. QED
  BY <1>1, <1>2, FS_Subset, FS_CardinalityType

\* One context takes the place of another: the count stays.
LEMMA SwapCardinality ==
  ASSUME NEW S, IsFiniteSet(S), NEW a \in S, NEW b, b \notin S
  PROVE  Cardinality((S \ {a}) \cup {b}) = Cardinality(S)
<1>1. IsFiniteSet(S \ {a}) /\ Cardinality(S \ {a}) = Cardinality(S) - 1
  BY FS_RemoveElement
<1>2. Cardinality((S \ {a}) \cup {b}) = Cardinality(S \ {a}) + 1
  BY <1>1, FS_AddElement
<1>3. QED
  BY <1>1, <1>2, FS_CardinalityType

\* A context changes hands when it is published, and when its last reference goes.
LEMMA ContextsClient ==
  ASSUME TypeOK, MutexInv, SharingInv, QueueInv, PowerInv,
         NEW c \in Clients, Client(c) \/ Choose(c)
  PROVE  \/ Contexts' = Contexts
         \/ c \in Contexts /\ NULL \notin Contexts
            /\ Contexts' = (Contexts \ {c}) \cup {NULL}
         \/ NULL \in Contexts /\ c \notin Contexts
            /\ Contexts' = (Contexts \ {NULL}) \cup {c}
<1> USE ClientsAssumption DEF TypeOK, Goto, mgrVars, taskVars, usbVars
<1>1. pc[c] \notin {"openWait", "dropWait", "getWait"} => c \notin given /\ c # powering
  BY DEF QueueInv, PowerInv
<1>2. CASE OpenLock(c)
  BY <1>2 DEF OpenLock, Contexts, Live
<1>3. CASE OpenFound(c) \/ OpenError(c) \/ OpenInit(c)
  BY <1>3 DEF OpenFound, OpenError, OpenInit, Contexts, Live
<1>4. CASE OpenRun(c)
  <2>1. CASE Usable(driverInst)
    <3>1. holds' = {c} /\ pc' = [pc EXCEPT ![c] = "idle"]
          /\ UNCHANGED <<given, powering>> /\ pc[c] = "openRun"
      BY <1>4, <2>1 DEF OpenRun
    <3>2. ~Live
      BY <3>1 DEF MutexInv, SharingInv, Opening, Live
    <3>3. QED
      BY <3>1, <3>2 DEF Contexts, Live
  <2>2. CASE ~Usable(driverInst)
    BY <1>4, <2>2 DEF OpenRun, Contexts, Live
  <2>3. QED
    BY <2>1, <2>2
<1>5. CASE OpenSend(c) \/ DropSend(c) \/ GetPowerSend(c)
  BY <1>1, <1>5 DEF OpenSend, DropSend, GetPowerSend, SendRequest, Contexts, Live
<1>6. CASE OpenPowered(c) \/ DropTaken(c) \/ GetPowerTaken(c)
  BY <1>6 DEF OpenPowered, DropTaken, GetPowerTaken, TakeResponse, Contexts, Live
<1>7. CASE DropDone(c)
  BY <1>7 DEF DropDone, Contexts, Live
<1>8. CASE Close(c)
  <2>1. CASE LastRef(c)
    <3>1. pc' = [pc EXCEPT ![c] = "dropSend"] /\ pc[c] = "idle"
          /\ UNCHANGED <<given, powering>> /\ holds' = {}
      BY <1>8, <2>1 DEF Close, LastRef
    <3>2. Live /\ ~Live'
      BY <1>8, <2>1, <3>1 DEF Close, LastRef, Live
    <3>3. QED
      BY <3>1, <3>2 DEF Contexts
  <2>2. CASE ~LastRef(c)
    <3>1. Live /\ Live'
      BY <1>8, <2>2 DEF Close, LastRef, Live
    <3>2. QED
      BY <1>8, <2>2, <3>1 DEF Close, Contexts
  <2>3. QED
    BY <2>1, <2>2
<1>9. CASE TempLock(c)
  BY <1>9 DEF TempLock, Contexts, Live
<1>10. CASE ReadTemp(c)
  <2>0. CASE ~Usable(driverInst)
    BY <1>10, <2>0 DEF ReadTemp, Contexts, Live
  <2>1. CASE holds = {} /\ Usable(driverInst)
    <3>1. pc' = [pc EXCEPT ![c] = "dropSend"] /\ pc[c] = "readTemp"
          /\ UNCHANGED <<given, powering, holds>>
      BY <1>10, <2>1 DEF ReadTemp
    <3>2. Live /\ ~Live'
      BY <2>1, <3>1 DEF MutexInv, Live
    <3>3. QED
      BY <3>1, <3>2 DEF Contexts
  <2>2. CASE holds # {} /\ Usable(driverInst)
    BY <1>10, <2>2 DEF ReadTemp, Contexts, Live
  <2>3. QED
    BY <2>0, <2>1, <2>2
<1>11. CASE InvokeLock(c) \/ InvokeDone(c)
  BY <1>11 DEF InvokeLock, InvokeDone, Contexts, Live
<1>12. CASE OpenDevice(c) \/ GetTemperature(c) \/ Invoke(c) \/ GetPower(c)
  BY <1>12 DEF OpenDevice, GetTemperature, Invoke, GetPower, Call, Contexts, Live
<1>13. QED
  BY <1>2, <1>3, <1>4, <1>5, <1>6, <1>7, <1>8, <1>9, <1>10, <1>11, <1>12
     DEF Client, Choose

LEMMA CountClient ==
  ASSUME TypeOK, MutexInv, SharingInv, QueueInv, PowerInv, CountBalances,
         NEW c \in Clients, Client(c) \/ Choose(c)
  PROVE  CountBalances' /\ enabledCount' = enabledCount
<1>1. enabledCount' = enabledCount
  BY DEF Client, Choose, taskVars, OpenLock, OpenSend, OpenPowered, OpenFound,
     OpenError, OpenInit, OpenRun, Close, DropSend, DropTaken, DropDone, TempLock,
     ReadTemp, InvokeLock, InvokeDone, GetPowerSend, GetPowerTaken, OpenDevice,
     GetTemperature, Invoke, GetPower, Call, SendRequest, TakeResponse
<1>2. Cardinality(Contexts') = Cardinality(Contexts)
  BY ContextsClient, ContextsFinite, SwapCardinality
<1>3. QED
  BY <1>1, <1>2 DEF CountBalances

\* The task adds the context of the request it handles, or removes it.
LEMMA ContextsTask ==
  ASSUME TypeOK, QueueInv, PowerInv, Task
  PROVE  /\ HandlePowerOn  => Requester \notin Contexts
                              /\ Contexts' = Contexts \cup {Requester}
         /\ HandlePowerOff => Requester \in Contexts
                              /\ Contexts' = Contexts \ {Requester}
         /\ ~HandlePowerOn /\ ~HandlePowerOff =>
              Contexts' = Contexts /\ enabledCount' = enabledCount
<1> USE EnvironmentFrame, ClientsAssumption DEF TypeOK, taskVars, usbVars
<1>1. CASE HandlePowerOn
  <2>1. /\ Receive("SetPowerOn") /\ powering = NULL
        /\ \/ given' = given \cup {Requester} /\ powering' = powering
           \/ given' = given /\ powering' = Requester
    BY <1>1 DEF HandlePowerOn, Receive, TaskIdle
  <2>2. Requester \in Clients /\ pc[Requester] = "openWait" /\ Requester \notin given
    BY <2>1, QueueReceive DEF PowerRequests, AwaitedBy
  <2>3. Requester \notin Contexts /\ Contexts' = Contexts \cup {Requester}
    BY <2>1, <2>2 DEF Contexts, Live
  <2>4. ~HandlePowerOff
    BY <2>1 DEF HandlePowerOff, Receive
  <2>5. QED
    BY <1>1, <2>3, <2>4
<1>2. CASE HandlePowerOff
  <2>1. /\ Receive("SetPowerOff") /\ powering' = powering
        /\ given' = given \cup {Requester}
    BY <1>2 DEF HandlePowerOff
  <2>2. Requester \in Clients /\ pc[Requester] = "dropWait" /\ Requester \notin given
    BY <2>1, QueueReceive DEF PowerRequests, AwaitedBy
  <2>3. Requester \in Contexts /\ Contexts' = Contexts \ {Requester}
    BY <2>1, <2>2 DEF Contexts, Live
  <2>4. ~HandlePowerOn
    BY <2>1 DEF HandlePowerOn, Receive
  <2>5. QED
    BY <1>2, <2>3, <2>4
<1>3. CASE HandleGetPower
  <2>1. Receive("GetPower") /\ given' = given \cup {Requester}
        /\ UNCHANGED <<powering, enabledCount>>
    BY <1>3 DEF HandleGetPower
  <2>2. Requester \in Clients /\ pc[Requester] = "getWait"
    BY <2>1, QueueReceive DEF PowerRequests, AwaitedBy
  <2>3. Contexts' = Contexts
    BY <2>1, <2>2 DEF Contexts, Live
  <2>4. ~HandlePowerOn /\ ~HandlePowerOff
    BY <2>1 DEF HandlePowerOn, HandlePowerOff, Receive
  <2>5. QED
    BY <2>1, <2>3, <2>4
<1>4. CASE PowerGood
  <2>1. powering # NULL /\ given' = given \cup {powering} /\ powering' = NULL
        /\ pc[powering] = "openWait" /\ powering \in Clients
    BY <1>4 DEF PowerGood, PowerInv
  <2>2. Contexts' = Contexts
    BY <2>1 DEF Contexts, Live
  <2>3. ~HandlePowerOn /\ ~HandlePowerOff
    BY <2>1 DEF HandlePowerOn, HandlePowerOff, Receive, TaskIdle
  <2>4. QED
    BY <1>4, <2>2, <2>3 DEF PowerGood
<1>5. CASE \/ HandleUnattached \/ HandleAttached \/ HandleSetInterface
           \/ HandleGetStatus \/ HandleError \/ SelfSend \/ NotifyConnected
  <2>1. UNCHANGED <<given, powering, enabledCount>>
    BY <1>5 DEF HandleUnattached, HandleAttached, HandleSetInterface,
                HandleGetStatus, HandleError, SelfSend, NotifyConnected
  <2>2. Contexts' = Contexts
    BY <2>1 DEF Contexts, Live
  <2>3. ~HandlePowerOn /\ ~HandlePowerOff
    BY <1>5 DEF HandlePowerOn, HandlePowerOff, Receive, TaskIdle,
       HandleUnattached, HandleAttached, HandleSetInterface,
       HandleGetStatus, HandleError, SelfSend, NotifyConnected
  <2>4. QED
    BY <2>1, <2>2, <2>3
<1>6. QED
  BY <1>1, <1>2, <1>3, <1>4, <1>5 DEF Task

LEMMA CountTask ==
  ASSUME TypeOK, QueueInv, PowerInv, CountBalances, Task
  PROVE  CountBalances'
<1>1. IsFiniteSet(Contexts) /\ enabledCount = Cardinality(Contexts)
      /\ Cardinality(Contexts) \in Nat
  BY ContextsFinite DEF CountBalances
<1>2. CASE HandlePowerOn
  <2>1. Cardinality(Contexts \cup {Requester}) = Cardinality(Contexts) + 1
    BY <1>1, <1>2, ContextsTask, FS_AddElement
  <2>2. QED
    BY <1>1, <1>2, <2>1, ContextsTask DEF CountBalances, HandlePowerOn
<1>3. CASE HandlePowerOff
  <2>1. Cardinality(Contexts \ {Requester}) = Cardinality(Contexts) - 1
        /\ IsFiniteSet(Contexts \ {Requester})
    BY <1>1, <1>3, ContextsTask, FS_RemoveElement
  <2>2. enabledCount # 0
    BY <1>1, <1>3, ContextsTask, FS_EmptySet
  <2>3. enabledCount' = enabledCount - 1
    BY <1>3, <2>2 DEF HandlePowerOff
  <2>4. QED
    BY <1>1, <1>3, <2>1, <2>3, ContextsTask DEF CountBalances
<1>4. CASE ~HandlePowerOn /\ ~HandlePowerOff
  BY <1>1, <1>4, ContextsTask DEF CountBalances
<1>5. QED
  BY <1>2, <1>3, <1>4

\* The GPIOs follow the count through every step of the handler.
LEMMA PowerTask ==
  ASSUME TypeOK, QueueInv, PowerInv, Task
  PROVE  PowerInv'
<1> USE EnvironmentFrame, ClientsAssumption DEF TypeOK, PowerInv, usbVars
<1>1. CASE HandlePowerOn
  <2>1. Receive("SetPowerOn") /\ powering = NULL
    BY <1>1 DEF HandlePowerOn, Receive, TaskIdle
  <2>2. Requester \in Clients /\ pc[Requester] = "openWait" /\ Requester \notin given
    BY <2>1, QueueReceive DEF PowerRequests, AwaitedBy
  <2>3. QED
    BY <1>1, <2>1, <2>2 DEF HandlePowerOn
<1>2. CASE PowerGood
  BY <1>2 DEF PowerGood
<1>3. CASE HandlePowerOff
  BY <1>3 DEF HandlePowerOff, Receive, TaskIdle
<1>4. CASE HandleGetPower
  BY <1>4 DEF HandleGetPower, Receive, TaskIdle, taskVars
<1>5. CASE \/ HandleUnattached \/ HandleAttached \/ HandleSetInterface
           \/ HandleGetStatus \/ HandleError \/ SelfSend \/ NotifyConnected
  BY <1>5 DEF HandleUnattached, HandleAttached, HandleSetInterface,
              HandleGetStatus, HandleError, SelfSend, NotifyConnected, taskVars
<1>6. QED
  BY <1>1, <1>2, <1>3, <1>4, <1>5 DEF Task

LEMMA PowerClient ==
  ASSUME TypeOK, PowerInv, NEW c \in Clients, Client(c) \/ Choose(c)
  PROVE  PowerInv' /\ UNCHANGED <<pmic, reset, powering>>
<1> USE DEF TypeOK, PowerInv, Goto, taskVars
<1>1. CASE OpenSend(c) \/ DropSend(c) \/ GetPowerSend(c)
  BY <1>1 DEF OpenSend, DropSend, GetPowerSend, SendRequest
<1>2. CASE OpenPowered(c) \/ DropTaken(c) \/ GetPowerTaken(c)
  BY <1>2 DEF OpenPowered, DropTaken, GetPowerTaken, TakeResponse
<1>3. CASE OpenLock(c) \/ OpenFound(c) \/ OpenError(c) \/ OpenInit(c) \/ OpenRun(c)
  BY <1>3 DEF OpenLock, OpenFound, OpenError, OpenInit, OpenRun
<1>4. CASE DropDone(c) \/ TempLock(c) \/ ReadTemp(c) \/ InvokeLock(c) \/ InvokeDone(c)
  BY <1>4 DEF DropDone, TempLock, ReadTemp, InvokeLock, InvokeDone
<1>5. CASE OpenDevice(c) \/ Close(c) \/ GetTemperature(c) \/ Invoke(c) \/ GetPower(c)
  BY <1>5 DEF OpenDevice, Close, GetTemperature, Invoke, GetPower, Call
<1>6. QED
  BY <1>1, <1>2, <1>3, <1>4, <1>5 DEF Client, Choose

\* The USB host tells the task about the device; it powers nothing and answers
\* nobody.
LEMMA UsbFrame ==
  ASSUME Usb \/ UsbFault
  PROVE  UNCHANGED <<given, powering, enabledCount, pmic, reset>>
BY DEF Usb, UsbFault, UsbAttach, UsbEnumerationDone, UsbEnumerationFail, UsbSilent, UsbLoss,
   UsbOtherEvent, UsbDetach, UsbForget, taskVars

LEMMA InvNext == IInv /\ [Next]_vars => IInv'
<1> SUFFICES ASSUME IInv, [Next]_vars
             PROVE  IInv'
  OBVIOUS
<1>1. CASE UNCHANGED vars
  <2>1. TypeOK'
    BY <1>1 DEF IInv, TypeOK, vars, mgrVars, taskVars, usbVars
  <2>2. Contexts' = Contexts
    BY <1>1 DEF Contexts, Live, vars, mgrVars, taskVars
  <2>3. MutexInv' /\ SharingInv' /\ QueueInv' /\ CountBalances' /\ PowerInv'
    BY <1>1, <2>2 DEF IInv, MutexInv, SharingInv, QueueInv, CountBalances,
                      PowerInv, vars, mgrVars, taskVars
  <2>4. QED
    BY <2>1, <2>3 DEF IInv
<1>2. ASSUME NEW c \in Clients, Client(c) \/ Choose(c)
      PROVE  IInv'
  BY <1>2, TypeClient, MutexSharingClient, QueueClient, CountClient, PowerClient
     DEF IInv
<1>3. CASE Task
  <2>1. MutexInv' /\ SharingInv'
    BY <1>3, EnvironmentFrame DEF IInv, MutexInv, SharingInv
  <2>2. QED
    BY <1>3, <2>1, TypeTask, QueueTask, CountTask, PowerTask DEF IInv
<1>4. CASE Usb \/ UsbFault
  <2>1. MutexInv' /\ SharingInv' /\ PowerInv'
    BY <1>4, EnvironmentFrame, UsbFrame DEF IInv, MutexInv, SharingInv, PowerInv
  <2>2. Contexts' = Contexts
    BY <1>4, EnvironmentFrame, UsbFrame DEF Contexts, Live
  <2>3. CountBalances'
    BY <1>4, <2>2, UsbFrame DEF IInv, CountBalances
  <2>4. QED
    BY <1>4, <2>1, <2>3, TypeUsb, QueueUsb DEF IInv
<1>5. QED
  BY <1>1, <1>2, <1>3, <1>4 DEF Next, Running, Halted

LEMMA Inductive == Spec => []IInv
BY InvInit, InvNext, PTL DEF Spec

\* enabled_count_ of the EdgeTpuTask is the number of contexts whose power-on has
\* been handled and whose power-off has not, in every state of every behaviour.
THEOREM CountCorrect == Spec => []CountBalances
<1>1. IInv => CountBalances
  BY DEF IInv
<1>2. QED
  BY <1>1, Inductive, PTL

\* A user stands for a context that has been counted, and it is not the one whose
\* power-on request the handler is still working on.
LEMMA UsersAreCounted ==
  ASSUME TypeOK, PowerInv, NEW u \in Users
  PROVE  \E d \in Contexts : powering # NULL => d # powering
<1> USE ClientsAssumption DEF TypeOK
<1>1. CASE u \in holds \/ pc[u] = "readTemp"
  <2>1. Live
    BY <1>1 DEF Live, Users
  <2>2. QED
    BY <2>1 DEF Contexts
<1>2. CASE \/ pc[u] \in {"openPoll", "openInit", "openRun"}
           \/ pc[u] = "openWait" /\ u \in given
  BY <1>2 DEF Users, Contexts, PowerInv
<1>3. QED
  BY <1>1, <1>2 DEF Users

\* Two contexts are counted while one of them is being powered up: impossible.
LEMMA CountedIsPowered ==
  ASSUME IInv, Users # {}
  PROVE  PoweredUp
<1>1. PICK d \in Contexts : powering # NULL => d # powering
  BY UsersAreCounted DEF IInv
<1>2. IsFiniteSet(Contexts) /\ Cardinality(Contexts) \in Nat
  BY ContextsFinite DEF IInv
<1>3. enabledCount > 0
  BY <1>1, <1>2, FS_EmptySet DEF IInv, CountBalances
<1>4. CASE powering = NULL
  BY <1>3, <1>4 DEF IInv, PowerInv, PoweredUp
<1>5. CASE powering # NULL
  <2>1. powering \in Contexts
    BY <1>5 DEF IInv, TypeOK, PowerInv, Contexts
  <2>2. {d} \cup {powering} \subseteq Contexts
    BY <1>1, <2>1
  <2>3. Cardinality({d} \cup {powering}) = 2
    <3>1. IsFiniteSet({d}) /\ Cardinality({d}) = 1
      BY FS_Singleton
    <3>2. powering \notin {d}
      BY <1>1, <1>5
    <3>3. Cardinality({d} \cup {powering}) = Cardinality({d}) + 1
      BY <3>1, <3>2, FS_AddElement
    <3>4. QED
      BY <3>1, <3>3
  <2>4. Cardinality(Contexts) >= 2
    BY <1>2, <2>2, <2>3, FS_Subset
  <2>5. QED
    BY <1>5, <2>4 DEF IInv, PowerInv, CountBalances
<1>6. QED
  BY <1>4, <1>5

LEMMA InvPower == IInv => PowerWhileInUse
BY CountedIsPowered DEF PowerWhileInUse

\* Whoever has a context finds the device powered and out of reset, for any number
\* of tasks that make, share and destroy contexts.
THEOREM PowerCorrect == Spec => []PowerWhileInUse
BY InvPower, Inductive, PTL

----------------------------------------------------------------------------
(* EdgeTpu implements PowerLease                                            *)

\* A client's step adds at most that client to the users, or removes it.
LEMMA UsersClient ==
  ASSUME IInv, NEW c \in Clients, Client(c) \/ Choose(c)
  PROVE  Users' = Users \/ Users' = Users \cup {c} \/ Users' = Users \ {c}
<1> USE DEF IInv, TypeOK, Goto, mgrVars
<1>1. CASE OpenLock(c)
  BY <1>1 DEF OpenLock, Users
<1>2. CASE OpenFound(c) \/ OpenError(c) \/ OpenInit(c)
  BY <1>2 DEF OpenFound, OpenError, OpenInit, Users
<1>3. CASE OpenRun(c)
  <2>1. holds = {}
    BY <1>3 DEF OpenRun, SharingInv, Opening
  <2>2. QED
    BY <1>3, <2>1 DEF OpenRun, Users
<1>4. CASE OpenSend(c) \/ DropSend(c) \/ GetPowerSend(c)
  <2>1. c \notin given
    BY <1>4 DEF OpenSend, DropSend, GetPowerSend, SendRequest, QueueInv
  <2>2. QED
    BY <1>4, <2>1 DEF OpenSend, DropSend, GetPowerSend, SendRequest, Users
<1>5. CASE OpenPowered(c) \/ DropTaken(c) \/ GetPowerTaken(c)
  BY <1>5 DEF OpenPowered, DropTaken, GetPowerTaken, TakeResponse, Users
<1>6. CASE DropDone(c) \/ TempLock(c) \/ ReadTemp(c) \/ InvokeLock(c) \/ InvokeDone(c)
  BY <1>6 DEF DropDone, TempLock, ReadTemp, InvokeLock, InvokeDone, Users
<1>7. CASE Close(c)
  BY <1>7 DEF Close, Users
<1>8. CASE OpenDevice(c) \/ GetTemperature(c) \/ Invoke(c) \/ GetPower(c)
  BY <1>8 DEF OpenDevice, GetTemperature, Invoke, GetPower, Call, Users
<1>9. QED
  BY <1>1, <1>2, <1>3, <1>4, <1>5, <1>6, <1>7, <1>8 DEF Client, Choose

\* Powering up lets one client in; handling any other request changes no user.
LEMMA UsersTask ==
  ASSUME IInv, Task
  PROVE  \/ Users' = Users /\ (PoweredUp' = PoweredUp \/ ~PoweredUp')
         \/ \E c \in Clients : Users' = Users \cup {c} /\ PoweredUp' = PoweredUp
         \/ \E c \in Clients : Users' = Users \cup {c} /\ PoweredUp' /\ ~PoweredUp
<1> USE EnvironmentFrame, ClientsAssumption DEF IInv, TypeOK, taskVars, usbVars
<1>1. CASE HandlePowerOn
  <2>1. Receive("SetPowerOn")
    BY <1>1 DEF HandlePowerOn
  <2>2. Requester \in Clients /\ pc[Requester] = "openWait"
    BY <2>1, QueueReceive DEF PowerRequests, AwaitedBy
  <2>3. CASE enabledCount' > 1 /\ given' = given \cup {Requester}
             /\ UNCHANGED <<pmic, reset>>
    BY <2>2, <2>3 DEF Users, PoweredUp
  <2>4. CASE enabledCount' = 1 /\ given' = given /\ reset' = reset /\ powering = NULL
    <3>1. ~reset'
      BY <1>1, <2>4 DEF HandlePowerOn, PowerInv
    <3>2. QED
      BY <2>4, <3>1 DEF Users, PoweredUp
  <2>5. QED
    BY <1>1, <2>1, <2>3, <2>4 DEF HandlePowerOn, Receive, TaskIdle
<1>2. CASE PowerGood
  <2>1. powering \in Clients /\ pc[powering] = "openWait" /\ ~PoweredUp
        /\ given' = given \cup {powering} /\ PoweredUp'
    BY <1>2 DEF PowerGood, PowerInv, PoweredUp
  <2>2. Users' = Users \cup {powering}
    BY <2>1 DEF Users
  <2>3. QED
    BY <2>1, <2>2
<1>3. CASE HandlePowerOff
  <2>1. Receive("SetPowerOff") /\ given' = given \cup {Requester}
    BY <1>3 DEF HandlePowerOff
  <2>2. pc[Requester] = "dropWait"
    BY <2>1, QueueReceive DEF PowerRequests, AwaitedBy
  <2>3. Users' = Users
    BY <2>1, <2>2 DEF Users
  <2>4. PoweredUp' = PoweredUp \/ ~PoweredUp'
    BY <1>3, Zenon DEF HandlePowerOff, PoweredUp
  <2>5. QED
    BY <2>3, <2>4
<1>4. CASE HandleGetPower
  <2>1. Receive("GetPower") /\ given' = given \cup {Requester}
    BY <1>4 DEF HandleGetPower
  <2>2. pc[Requester] = "getWait"
    BY <2>1, QueueReceive DEF PowerRequests, AwaitedBy
  <2>3. Users' = Users
    BY <2>1, <2>2 DEF Users
  <2>4. QED
    BY <1>4, <2>3 DEF HandleGetPower, PoweredUp
<1>5. CASE \/ HandleUnattached \/ HandleAttached \/ HandleSetInterface
           \/ HandleGetStatus \/ HandleError \/ SelfSend \/ NotifyConnected
  BY <1>5 DEF HandleUnattached, HandleAttached, HandleSetInterface, HandleGetStatus,
              HandleError, SelfSend, NotifyConnected, Users, PoweredUp
<1>6. QED
  BY <1>1, <1>2, <1>3, <1>4, <1>5 DEF Task

\* A step within these limits, from and to states in which users have power, is a
\* step of the lease.
LEMMA StepsOfLease ==
  ASSUME Users # {} => PoweredUp, (Users # {} => PoweredUp)',
         PoweredUp \in BOOLEAN, PoweredUp' \in BOOLEAN,
         \/ Users' = Users /\ (PoweredUp' = PoweredUp \/ ~PoweredUp')
         \/ \E c \in Clients : Users' = Users \cup {c} /\ PoweredUp' = PoweredUp
         \/ \E c \in Clients : Users' = Users \ {c} /\ PoweredUp' = PoweredUp
         \/ \E c \in Clients : Users' = Users \cup {c} /\ PoweredUp' /\ ~PoweredUp
  PROVE  [Lease!Next]_<<Users, PoweredUp>>
<1> USE DEF Lease!Next, Lease!Join, Lease!Leave, Lease!SwitchOn, Lease!SwitchOff
<1>1. CASE Users' = Users /\ (PoweredUp' = PoweredUp \/ ~PoweredUp')
  BY <1>1, Zenon
<1>2. ASSUME NEW c \in Clients, Users' = Users \cup {c}, PoweredUp' = PoweredUp
      PROVE  [Lease!Next]_<<Users, PoweredUp>>
  BY <1>2
<1>3. ASSUME NEW c \in Clients, Users' = Users \ {c}, PoweredUp' = PoweredUp
      PROVE  [Lease!Next]_<<Users, PoweredUp>>
  BY <1>3
<1>4. ASSUME NEW c \in Clients, Users' = Users \cup {c}, PoweredUp', ~PoweredUp
      PROVE  [Lease!Next]_<<Users, PoweredUp>>
  BY <1>4
<1>5. QED
  BY <1>1, <1>2, <1>3, <1>4

\* The mutex, the queue, the semaphores and the count together keep the promise of
\* PowerLease: every step joins or leaves a user, switches the device, or is hidden.
THEOREM Refinement == Spec => RefinesLease
<1>1. Init => Lease!Init
  <2>1. Init => Users = {}
    BY DEF Init, Users
  <2>2. Init => PoweredUp = FALSE
    BY DEF Init, PoweredUp
  <2>3. QED
    BY <2>1, <2>2 DEF Lease!Init
<1>2. IInv' => PowerWhileInUse'
  BY InvPower, PTL
<1>3. IInv /\ IInv' /\ [Next]_vars => [Lease!Next]_<<Users, PoweredUp>>
  <2> SUFFICES ASSUME IInv, IInv', [Next]_vars
               PROVE  [Lease!Next]_<<Users, PoweredUp>>
    OBVIOUS
  <2>1. /\ Users # {} => PoweredUp
        /\ (Users # {} => PoweredUp)'
        /\ PoweredUp \in BOOLEAN /\ PoweredUp' \in BOOLEAN
    BY <1>2, InvPower DEF PowerWhileInUse, PoweredUp
  <2>2. CASE UNCHANGED vars
    BY <2>2 DEF Users, PoweredUp, vars, mgrVars, taskVars
  <2>3. ASSUME NEW c \in Clients, Client(c) \/ Choose(c)
        PROVE  [Lease!Next]_<<Users, PoweredUp>>
    <3>1. PoweredUp' = PoweredUp
      BY <2>3, PowerClient DEF IInv, PoweredUp
    <3>2. QED
      BY <2>1, <2>3, <3>1, UsersClient, StepsOfLease
  <2>4. CASE Task
    BY <2>1, <2>4, UsersTask, StepsOfLease
  <2>5. CASE Usb \/ UsbFault
    BY <2>5, EnvironmentFrame, UsbFrame DEF Users, PoweredUp
  <2>6. QED
    BY <2>2, <2>3, <2>4, <2>5 DEF Next, Running, Halted
<1>4. QED
  BY <1>1, <1>3, Inductive, PTL DEF Spec, RefinesLease, Lease!Spec, Lease!vars
----------------------------------------------------------------------------
(* The device behind a published context                                   *)

\* A context is published once Initialize has got through, and only then.
LEMMA LiveClient ==
  ASSUME IInv, NEW c \in Clients, Client(c) \/ Choose(c), Live'
  PROVE  \/ Live /\ driverInst' = driverInst
         \/ Usable(driverInst) /\ driverInst' = driverInst
<1>1. pc \in [Clients -> PCs] /\ MutexInv /\ SharingInv
  BY DEF IInv, TypeOK
<1>2. CASE OpenInit(c)
  <2>1. pc[c] = "openInit" /\ holds' = holds
        /\ (pc' = [pc EXCEPT ![c] = "dropSend"] \/ pc' = [pc EXCEPT ![c] = "openRun"])
    BY <1>2 DEF OpenInit, Goto
  <2>2. holds = {} /\ mutex = c
    BY <1>1, <2>1 DEF SharingInv, MutexInv, Opening
  <2>3. \A d \in Clients : pc[d] # "readTemp"
    BY <1>1, <2>1, <2>2 DEF MutexInv
  <2>4. \A d \in Clients : pc'[d] # "readTemp"
    BY <1>1, <2>1, <2>3
  <2>5. QED
    BY <2>1, <2>2, <2>4 DEF Live
<1>3. CASE OpenRun(c)
  <2>1. driverInst' = driverInst /\ (Usable(driverInst) \/ UNCHANGED <<pc, holds>>)
    BY <1>3 DEF OpenRun
  <2>2. QED
    BY <2>1 DEF Live
<1>4. CASE OpenLock(c) \/ TempLock(c)
  <2>1. UNCHANGED driverInst
    BY <1>4 DEF OpenLock, TempLock
  <2>2. Live \/ (holds' = holds /\ \E l \in {"openSend", "idle"} : pc' = [pc EXCEPT ![c] = l])
    BY <1>4 DEF OpenLock, TempLock, Goto
  <2>3. ASSUME NEW l \in {"openSend", "idle"}, holds' = holds, pc' = [pc EXCEPT ![c] = l]
        PROVE  Live
    BY <1>1, <2>3 DEF Live
  <2>4. QED
    BY <2>1, <2>2, <2>3
<1>5. CASE ~(OpenInit(c) \/ OpenRun(c) \/ OpenLock(c) \/ TempLock(c))
  <2>1. driverInst' = driverInst /\ holds' \subseteq holds
        /\ (pc' = pc \/ \E l \in PCs \ {"readTemp"} : pc' = [pc EXCEPT ![c] = l])
    BY <1>5 DEF Client, Choose, OpenSend, OpenPowered, OpenFound, OpenError, DropSend, DropTaken,
       DropDone, ReadTemp, InvokeLock, InvokeDone, GetPowerSend, GetPowerTaken, OpenDevice, Close,
       GetTemperature, Invoke, GetPower, Call, SendRequest, TakeResponse, Goto, mgrVars, PCs
  <2>2. Live
    BY <1>1, <2>1 DEF Live
  <2>3. QED
    BY <2>1, <2>2
<1>6. QED
  BY <1>2, <1>3, <1>4, <1>5

\* A step of a client leaves the device as it is.
LEMMA DeviceFrame ==
  ASSUME NEW c \in Clients, Client(c) \/ Choose(c)
  PROVE  UNCHANGED usbVars
BY DEF Client, Choose, OpenLock, OpenSend, OpenPowered, OpenFound, OpenError, OpenInit,
   OpenRun, DropSend, DropTaken, DropDone, TempLock, ReadTemp, InvokeLock, InvokeDone,
   GetPowerSend, GetPowerTaken, OpenDevice, Close, GetTemperature, Invoke, GetPower, Call,
   SendRequest, TakeResponse

\* The instance stays that of the device as long as the power and the device stay on.
LEMMA LiveDevice ==
  ASSUME IInv, PowerWhileInUse', Next, Live'
  PROVE  Usable(driverInst)' \/ (Live /\ ~Usable(driverInst)) \/ DropsOff
<1>1. CASE \E c \in Clients : Client(c) \/ Choose(c)
  <2>1. PICK c \in Clients : Client(c) \/ Choose(c)
    BY <1>1
  <2>2. \/ Live /\ ~Usable(driverInst)
        \/ Usable(driverInst) /\ driverInst' = driverInst
    BY <2>1, LiveClient
  <2>3. UNCHANGED usbVars
    BY <2>1, DeviceFrame
  <2>4. QED
    BY <2>2, <2>3 DEF Usable, usbVars
<1>2. CASE UNCHANGED <<pc, holds, driverInst>>
  <2>1. SUFFICES ASSUME Usable(driverInst), ~DropsOff PROVE Usable(driverInst)'
    BY <1>2 DEF Live
  <2>2. port = "enumerated" /\ ~lost /\ driverInst = deviceHandle /\ deviceHandle \in allocated
    BY <2>1 DEF Usable
  <2>3. pmic' /\ reset'
    BY DEF PowerWhileInUse, Users, Live, PoweredUp
  <2>4. CASE Task
    <3>1. UNCHANGED <<port, deviceHandle>> /\ allocated \subseteq allocated'
          /\ (lost' = lost \/ pmic' = FALSE)
      BY <2>4 DEF Task, HandlePowerOn, PowerGood, HandlePowerOff, HandleGetPower,
         HandleUnattached, HandleAttached, HandleSetInterface, HandleGetStatus, HandleError,
         SelfSend, NotifyConnected, usbVars, taskVars
    <3>2. QED
      BY <1>2, <2>2, <2>3, <3>1 DEF Usable
  <2>5. CASE Usb \/ UsbFault \/ UNCHANGED vars
    <3>1. ~UsbLoss
      BY <2>1, <2>2, <2>3 DEF UsbLoss, DropsOff, PoweredUp
    <3>2. UNCHANGED usbVars
      BY <2>2, <2>5, <3>1 DEF Usb, UsbAttach, UsbEnumerationDone, UsbDetach, UsbForget, UsbFault,
         UsbEnumerationFail, UsbSilent, UsbOtherEvent, vars
    <3>3. QED
      BY <1>2, <2>2, <3>2 DEF Usable, usbVars
  <2>6. CASE \E c \in Clients : Client(c) \/ Choose(c)
    BY <2>2, <2>6, <1>2, DeviceFrame DEF Usable, usbVars
  <2>7. QED
    BY <2>4, <2>5, <2>6 DEF Next, Running, Halted
<1>3. Task \/ Usb \/ UsbFault \/ UNCHANGED vars => UNCHANGED <<pc, holds, driverInst>>
  BY DEF Task, HandlePowerOn, PowerGood, HandlePowerOff, HandleGetPower,
     HandleUnattached, HandleAttached, HandleSetInterface, HandleGetStatus, HandleError,
     SelfSend, NotifyConnected, mgrVars, Usb, UsbAttach, UsbEnumerationDone, UsbDetach,
     UsbForget, UsbFault, UsbEnumerationFail, UsbSilent, UsbLoss, UsbOtherEvent, vars
<1>4. QED
  BY <1>1, <1>2, <1>3 DEF Next, Running, Halted

\* Whatever tasks open, drop and query at the same time, and whatever faults the USB side
\* has: a context is published for a live device, and those who share it keep the device
\* until it drops off the bus by itself.
THEOREM ContextsAreLive == Spec => ContextOnLiveDevice
<1>1. IInv' => PowerWhileInUse'
  BY InvPower, PTL
<1>2. IInv /\ IInv' /\ [Next]_vars
        => [Live' => Usable(driverInst)' \/ (Live /\ ~Usable(driverInst)) \/ DropsOff]_vars
  BY <1>1, LiveDevice
<1>3. QED
  BY <1>2, Inductive, PTL DEF Spec, ContextOnLiveDevice

----------------------------------------------------------------------------
(* One client, and a delay that suffices                                   *)

\* A program in which one task opens the device, and whose destructor's delay is long
\* enough, as edgetpu_manager.cc:42 counts on.
SoloClient == Cardinality(Clients) = 1 /\ DelaySuffices

\* The class driver's states that are queued.
Queued == {s \in NextStates : \E i \in 1..Len(queue) : queue[i].type = s}

\* At most one of them is, and it is ahead of a power-off request.
QueuedOnce ==
  \A i, j \in 1..Len(queue) :
    queue[i].type \in NextStates /\ queue[j].type \in NextStates \cup {"SetPowerOff"} => i <= j

UsbSide(p, q, s) == port = p /\ Queued = q /\ toSend = s

\* Where the client is with respect to the power: the device is off for it, it waits
\* for the device to appear, it has it, or it waits for it to be gone.
Apart(c)   == /\ holds = {}
              /\ pc[c] \notin {"openPoll", "openInit", "openRun", "readTemp", "dropSend"}
              /\ pc[c] = "openWait" => c \notin given
              /\ pc[c] = "dropWait" => c \in given
Waiting(c) == /\ holds = {}
              /\ pc[c] = "openPoll" \/ (pc[c] = "openWait" /\ c \in given)
Having(c)  == \/ pc[c] \in {"openPoll", "openInit", "openRun", "dropSend"}
              \/ pc[c] = "openWait" /\ c \in given
              \/ pc[c] = "dropWait" /\ c \notin given
              \/ c \in holds
Leaving(c) == /\ holds = {} /\ ~pmic
              /\ pc[c] = "dropDelay" \/ (pc[c] = "dropWait" /\ c \in given)

\* Before the manager hears of the device: the host and the task bring it up, one
\* request after the other, while the client waits.
ComingUp(c) ==
  /\ Waiting(c) /\ ~lost /\ usbInstance = NULL /\ deviceHandle # NULL
  /\ \/ UsbSide("attached", {}, <<>>) /\ ~toNotify
     \/ UsbSide("enumerated", {"Attached"}, <<>>) /\ ~toNotify
     \/ /\ classHandle = deviceHandle /\ classHandle \in allocated
        /\ \/ UsbSide("enumerated", {}, <<"SetInterface">>) /\ ~toNotify
           \/ UsbSide("enumerated", {"SetInterface"}, <<>>) /\ ~toNotify
           \/ UsbSide("enumerated", {}, <<"GetStatus">>) /\ toNotify
           \/ UsbSide("enumerated", {"GetStatus"}, <<>>) /\ toNotify

\* The manager knows the device, which stays until the power goes off.
Up == /\ usbInstance # NULL /\ usbInstance = deviceHandle /\ classHandle = deviceHandle
      /\ classHandle \in allocated /\ port = "enumerated" /\ toSend = <<>> /\ ~toNotify

\* The stages of the bring-up and of what follows the last power-off.
Stage(c) ==
  \/ (Apart(c) \/ Waiting(c)) /\ ~lost /\ usbInstance = NULL /\ UsbSide("none", {}, <<>>) /\ ~toNotify
  \/ ComingUp(c)
  \/ Having(c) /\ ~lost /\ Up /\ Queued \subseteq {"GetStatus"}
  \/ Leaving(c) /\ lost /\ Up /\ Queued = {}
  \/ Leaving(c) /\ ~lost /\ UsbSide("none", {"Unattached"}, <<>>) /\ ~toNotify

CourseInv ==
  faults = 0 =>
    /\ ~usbError
    /\ QueuedOnce
    /\ \A c \in Clients : Stage(c) /\ (pc[c] = "openRun" => driverInst = usbInstance)

\* What a client enqueues is none of the class driver's states.
LEMMA QueuedSend ==
  ASSUME TypeOK, QueuedOnce, NEW r, r.type \in PowerRequests, queue' = Append(queue, r),
         r \in Request
  PROVE  Queued' = Queued /\ QueuedOnce'
<1>1. /\ Len(queue') = Len(queue) + 1 /\ Len(queue) \in Nat
      /\ \A i \in 1..Len(queue) : queue'[i] = queue[i]
      /\ queue'[Len(queue) + 1] = r
  BY LenProperties DEF TypeOK
<1>2. r.type \notin NextStates
  BY DEF PowerRequests, NextStates
<1>3. \A i \in 1..Len(queue') : i \in 1..Len(queue) \/ i = Len(queue) + 1
  BY <1>1
<1>4. \A i \in 1..Len(queue) : i \in 1..Len(queue') /\ i <= Len(queue) + 1
  BY <1>1
<1>5. Queued' = Queued
  BY <1>1, <1>2, <1>3, <1>4 DEF Queued
<1>6. SUFFICES ASSUME NEW i \in 1..Len(queue'), NEW j \in 1..Len(queue'),
                      queue'[i].type \in NextStates,
                      queue'[j].type \in NextStates \cup {"SetPowerOff"}
               PROVE  i <= j
  BY <1>5 DEF QueuedOnce
<1>7. i \in 1..Len(queue)
  BY <1>1, <1>2, <1>3, <1>6
<1>8. QED
  BY <1>1, <1>3, <1>4, <1>6, <1>7 DEF QueuedOnce

\* A state that is enqueued while no other is, and no power-off request.
LEMMA QueuedNext ==
  ASSUME TypeOK, Queued = {}, NEW s \in NextStates, Enqueue(NextState(s)),
         \A i \in 1..Len(queue) : queue[i].type # "SetPowerOff"
  PROVE  Queued' = {s} /\ QueuedOnce'
<1>1. /\ Len(queue') = Len(queue) + 1 /\ Len(queue) \in Nat
      /\ \A i \in 1..Len(queue) : queue'[i] = queue[i]
      /\ queue'[Len(queue) + 1].type = s
  BY LenProperties DEF TypeOK, Enqueue, NextState
<1>2. \A i \in 1..Len(queue) : queue'[i].type \notin NextStates \cup {"SetPowerOff"}
  BY <1>1 DEF Queued
<1>3. \A i \in 1..Len(queue') : i \in 1..Len(queue) \/ i = Len(queue) + 1
  BY <1>1
<1>4. Len(queue) + 1 \in 1..Len(queue')
  BY <1>1
<1>5. Queued' = {s}
  BY <1>1, <1>2, <1>3, <1>4 DEF Queued
<1>6. QED
  BY <1>1, <1>2, <1>3, <1>5 DEF QueuedOnce

\* What the handler takes off the queue is no longer queued; if it is a power-off
\* request no state is, for they are ahead of it.
LEMMA QueuedReceive ==
  ASSUME TypeOK, QueuedOnce, NEW type, Receive(type)
  PROVE  /\ Queued' = Queued \ {type} /\ QueuedOnce'
         /\ type \in NextStates => type \in Queued
         /\ type = "SetPowerOff" => Queued = {}
<1>1. /\ Len(queue) \in Nat /\ Len(queue) > 0
      /\ Len(queue') = Len(queue) - 1
      /\ \A i \in 1..Len(queue') : queue'[i] = queue[i + 1]
      /\ queue[1].type = type
  BY LenProperties, EmptySeq, HeadTailProperties DEF TypeOK, Receive
<1>2. \A i \in 1..Len(queue') : i + 1 \in 1..Len(queue) /\ ~(i + 1 <= 1)
  BY <1>1
<1>3. \A i \in 1..Len(queue) : i = 1 \/ (i - 1 \in 1..Len(queue') /\ (i - 1) + 1 = i)
  BY <1>1
<1>4. 1 \in 1..Len(queue)
  BY <1>1
<1>5. type \in NextStates \cup {"SetPowerOff"} =>
        \A i \in 1..Len(queue) : queue[i].type \in NextStates => i <= 1
  BY <1>1, <1>4 DEF QueuedOnce
<1>6. Queued' \subseteq Queued \ {type}
  <2>1. SUFFICES ASSUME NEW s \in NextStates, NEW i \in 1..Len(queue'), queue'[i].type = s
                 PROVE  s \in Queued \ {type}
    BY DEF Queued
  <2>2. queue[i + 1].type = s /\ i + 1 \in 1..Len(queue)
    BY <1>1, <1>2, <2>1
  <2>3. QED
    BY <1>2, <1>5, <2>1, <2>2 DEF Queued
<1>7. Queued \ {type} \subseteq Queued'
  <2>1. SUFFICES ASSUME NEW s \in NextStates, s # type,
                        NEW i \in 1..Len(queue), queue[i].type = s
                 PROVE  \E k \in 1..Len(queue') : queue'[k].type = s
    BY DEF Queued
  <2>2. i - 1 \in 1..Len(queue') /\ (i - 1) + 1 = i
    BY <1>1, <1>3, <2>1
  <2>3. queue'[i - 1] = queue[(i - 1) + 1]
    BY <1>1, <2>2
  <2>4. QED
    BY <2>1, <2>2, <2>3
<1>8. QueuedOnce'
  <2>1. SUFFICES ASSUME NEW i \in 1..Len(queue'), NEW j \in 1..Len(queue'),
                        queue'[i].type \in NextStates,
                        queue'[j].type \in NextStates \cup {"SetPowerOff"}
                 PROVE  i <= j
    BY DEF QueuedOnce
  <2>2. i + 1 <= j + 1
    BY <1>1, <1>2, <2>1 DEF QueuedOnce
  <2>3. QED
    BY <1>1, <2>2
<1>9. type \in NextStates => type \in Queued
  BY <1>1, <1>4 DEF Queued
<1>10. type = "SetPowerOff" => Queued = {}
  <2>1. SUFFICES ASSUME type = "SetPowerOff", NEW i \in 1..Len(queue), queue[i].type \in NextStates
                 PROVE  FALSE
    BY DEF Queued
  <2>2. i = 1
    BY <1>1, <1>5, <2>1
  <2>3. QED
    BY <1>1, <2>1, <2>2 DEF NextStates
<1>11. QED
  BY <1>6, <1>7, <1>8, <1>9, <1>10

\* A power-off request is queued only while its sender waits for it.
LEMMA NoPowerOff ==
  ASSUME QueueInv, TypeOK, NEW c, Clients = {c}, pc[c] # "dropWait" \/ c \in given
  PROVE  \A i \in 1..Len(queue) : queue[i].type # "SetPowerOff"
<1>1. SUFFICES ASSUME NEW i \in 1..Len(queue), queue[i].type = "SetPowerOff" PROVE FALSE
  OBVIOUS
<1>2. queue[i] \in Request
  BY ElementOfSeq DEF TypeOK
<1>3. queue[i].from = c /\ queue[i].type \in PowerRequests
  BY <1>1, <1>2, RequestTypes DEF PowerRequests
<1>4. QED
  BY <1>1, <1>3 DEF QueueInv, AwaitedBy

\* The device is powered for the one client only while that client has or makes a context.
LEMMA SoloPower ==
  ASSUME IInv, NEW c, Clients = {c}
  PROVE  /\ pmic /\ reset => ~Apart(c)
         /\ pc[c] = "dropWait" /\ c \notin given => enabledCount = 1
<1>1. CountBalances /\ PowerInv /\ SharingInv /\ TypeOK
  BY DEF IInv
<1>2. ASSUME pmic, reset, Apart(c)
      PROVE  FALSE
  <2>1. enabledCount > 0 /\ powering = NULL
    BY <1>1, <1>2 DEF PowerInv
  <2>2. Contexts = {}
    BY <1>1, <1>2, <2>1, ClientsAssumption DEF Contexts, Live, Apart
  <2>3. QED
    BY <1>1, <2>1, <2>2, FS_EmptySet DEF CountBalances
<1>3. ASSUME pc[c] = "dropWait", c \notin given
      PROVE  enabledCount = 1
  <2>1. holds = {}
    BY <1>1, <1>3 DEF SharingInv, TypeOK
  <2>2. Contexts = {c}
    BY <1>3, <2>1 DEF Contexts, Live
  <2>3. QED
    BY <1>1, <2>2, FS_Singleton DEF CountBalances
<1>4. QED
  BY <1>2, <1>3

\* Faults are only ever added.
LEMMA FaultsGrow ==
  ASSUME TypeOK, [Next]_vars
  PROVE  faults' = faults \/ faults' = faults + 1
BY DEF Next, Running, Halted, vars, Client, Choose, OpenLock, OpenSend, OpenPowered, OpenFound,
   OpenError, OpenInit, OpenRun, DropSend, DropTaken, DropDone, TempLock, ReadTemp, InvokeLock,
   InvokeDone, GetPowerSend, GetPowerTaken, OpenDevice, Close, GetTemperature, Invoke, GetPower,
   Call, SendRequest, TakeResponse, Task, HandlePowerOn, PowerGood, HandlePowerOff, HandleGetPower,
   HandleUnattached, HandleAttached, HandleSetInterface, HandleGetStatus, HandleError, SelfSend,
   NotifyConnected, Usb, UsbFault, UsbAttach, UsbEnumerationDone, UsbEnumerationFail, UsbSilent, UsbLoss,
   UsbOtherEvent, UsbDetach, UsbForget, Fault

\* What a step of the client leaves alone.
LEMMA SoloFrame ==
  ASSUME IInv, QueuedOnce, NEW c, c \in Clients, Client(c) \/ Choose(c)
  PROVE  /\ UNCHANGED <<toSend, toNotify, pmic, classHandle, deviceHandle, allocated, port, lost>>
         /\ Queued' = Queued /\ QueuedOnce'
         /\ UNCHANGED <<usbInstance, faults>> /\ (usbError' = usbError \/ ~usbError')
<1>1. /\ UNCHANGED <<toSend, toNotify, pmic, classHandle, deviceHandle, allocated, port, lost>>
      /\ UNCHANGED <<usbInstance, faults>> /\ (usbError' = usbError \/ ~usbError')
  BY DEF Client, Choose, OpenLock, OpenSend, OpenPowered, OpenFound,
     OpenError, OpenInit, OpenRun, DropSend, DropTaken, DropDone, TempLock, ReadTemp, InvokeLock,
     InvokeDone, GetPowerSend, GetPowerTaken, OpenDevice, Close, GetTemperature, Invoke, GetPower,
     Call, SendRequest, TakeResponse, mgrVars, taskVars, usbVars
<1>2. \/ queue' = queue
      \/ \E t \in PowerRequests : queue' = Append(queue, [type |-> t, from |-> c])
  BY DEF Client, Choose, OpenLock, OpenSend, OpenPowered, OpenFound,
     OpenError, OpenInit, OpenRun, DropSend, DropTaken, DropDone, TempLock, ReadTemp, InvokeLock,
     InvokeDone, GetPowerSend, GetPowerTaken, OpenDevice, Close, GetTemperature, Invoke, GetPower,
     Call, SendRequest, TakeResponse, Enqueue, PowerRequests
<1>3. CASE queue' = queue
  BY <1>1, <1>3 DEF Queued, QueuedOnce
<1>4. CASE \E t \in PowerRequests : queue' = Append(queue, [type |-> t, from |-> c])
  <2>1. PICK t \in PowerRequests : queue' = Append(queue, [type |-> t, from |-> c])
    BY <1>4
  <2>2. [type |-> t, from |-> c] \in Request /\ [type |-> t, from |-> c].type \in PowerRequests
    BY <2>1, RequestTypes
  <2>3. QED
    BY <1>1, <2>1, <2>2, QueuedSend DEF IInv
<1>5. QED
  BY <1>1, <1>2, <1>3, <1>4

\* Where a step takes the one client.
LEMMA SoloMoves ==
  ASSUME IInv, NEW c, Clients = {c}, Client(c) \/ Choose(c)
  PROVE  \/ /\ UNCHANGED <<holds, given>>
            /\ \/ pc'[c] = pc[c] /\ pc[c] \in {"openRun", "readTemp"}
               \/ pc[c] = "idle" /\ c \notin holds /\ pc'[c] = "openLock"
               \/ pc[c] = "idle" /\ pc'[c] \in {"tempLock", "getSend"}
               \/ pc[c] = "idle" /\ c \in holds /\ pc'[c] = "invokeLock"
               \/ pc[c] = "openLock" /\ ~Live /\ pc'[c] = "openSend"
               \/ pc[c] = "openSend" /\ pc'[c] = "openWait"
               \/ pc[c] = "openPoll" /\ usbInstance # NULL /\ pc'[c] = "openInit"
               \/ pc[c] = "openPoll" /\ usbError /\ pc'[c] = "dropSend"
               \/ pc[c] = "openInit" /\ usbInstance = NULL /\ pc'[c] = "dropSend"
               \/ pc[c] = "openInit" /\ driverInst' = usbInstance /\ pc'[c] = "openRun"
               \/ pc[c] = "dropSend" /\ pc'[c] = "dropWait"
               \/ pc[c] = "dropDelay" /\ (DelaySuffices => pmic \/ DetachSeen) /\ pc'[c] = "idle"
               \/ pc[c] = "tempLock" /\ Live /\ pc'[c] = "readTemp"
               \/ pc[c] = "tempLock" /\ pc'[c] = "idle"
               \/ pc[c] = "readTemp" /\ holds = {} /\ pc'[c] = "dropSend"
               \/ pc[c] = "readTemp" /\ pc'[c] = "idle"
               \/ pc[c] = "invokeLock" /\ pc'[c] = "invoke"
               \/ pc[c] = "invoke" /\ pc'[c] = "idle"
               \/ pc[c] = "getSend" /\ pc'[c] = "getWait"
         \/ /\ holds' = {c} /\ given' = given
            /\ \/ pc[c] = "openRun" /\ pc'[c] = "idle"
               \/ pc[c] = "openLock" /\ Live /\ pc'[c] = "idle"
         \/ /\ holds' = {} /\ given' = given /\ pc[c] = "idle" /\ c \in holds /\ pc'[c] = "dropSend"
         \/ /\ UNCHANGED holds /\ c \in given /\ given' = {}
            /\ <<pc[c], pc'[c]>> \in {<<"openWait", "openPoll">>, <<"dropWait", "dropDelay">>,
                                      <<"getWait", "idle">>}
<1>1. pc \in [Clients -> PCs] /\ holds \subseteq {c} /\ given \subseteq {c} /\ c \in Clients
  BY DEF IInv, TypeOK
<1>2. \A l : pc' = [pc EXCEPT ![c] = l] => pc'[c] = l
  BY <1>1
<1>3. CASE OpenLock(c) \/ OpenRun(c)
  BY <1>1, <1>2, <1>3 DEF OpenLock, OpenRun, Goto
<1>4. CASE OpenFound(c) \/ OpenError(c) \/ OpenInit(c)
  BY <1>1, <1>2, <1>4 DEF OpenFound, OpenError, OpenInit, Goto, mgrVars
<1>5. CASE OpenSend(c) \/ DropSend(c) \/ GetPowerSend(c)
  BY <1>1, <1>2, <1>5 DEF OpenSend, DropSend, GetPowerSend, SendRequest, Goto, mgrVars
<1>6. CASE OpenPowered(c) \/ DropTaken(c) \/ GetPowerTaken(c)
  BY <1>1, <1>2, <1>6 DEF OpenPowered, DropTaken, GetPowerTaken, TakeResponse, Goto, mgrVars
<1>7. CASE Close(c)
  <2>1. LastRef(c) /\ holds' = {}
    BY <1>1, <1>7 DEF Close, LastRef
  <2>2. QED
    BY <1>1, <1>2, <1>7, <2>1 DEF Close, Goto
<1>8. CASE DropDone(c) \/ TempLock(c) \/ ReadTemp(c)
  <2>1. CASE ReadTemp(c)
    <3>1. CASE Usable(driverInst)
      BY <1>1, <1>2, <2>1, <3>1 DEF ReadTemp, Goto
    <3>2. CASE ~Usable(driverInst)
      BY <1>1, <1>2, <2>1, <3>2 DEF ReadTemp
    <3>3. QED
      BY <3>1, <3>2
  <2>2. CASE DropDone(c) \/ TempLock(c)
    BY <1>1, <1>2, <2>2 DEF DropDone, TempLock, Goto
  <2>3. QED
    BY <1>8, <2>1, <2>2
<1>9. CASE InvokeLock(c) \/ InvokeDone(c)
  BY <1>1, <1>2, <1>9 DEF InvokeLock, InvokeDone, Goto
<1>10. CASE OpenDevice(c) \/ GetTemperature(c) \/ Invoke(c) \/ GetPower(c)
  BY <1>1, <1>2, <1>10 DEF OpenDevice, GetTemperature, Invoke, GetPower, Call, Goto, mgrVars
<1>11. QED
  BY <1>3, <1>4, <1>5, <1>6, <1>7, <1>8, <1>9, <1>10 DEF Client, Choose

\* A step of the client keeps the stage: it finds the device only once it is up, gives it
\* up with the power-off request, and goes on only when the device is gone.
LEMMA CourseClient ==
  ASSUME IInv, CourseInv, faults = 0, DelaySuffices, NEW c, Clients = {c}, Client(c) \/ Choose(c)
  PROVE  CourseInv'
<1> DEFINE Seen == usbInstance # NULL
<1>1. c \in Clients /\ QueuedOnce /\ Stage(c) /\ ~usbError /\ (pc[c] = "openRun" => driverInst = usbInstance)
  BY DEF CourseInv
<1>2. /\ UNCHANGED <<toSend, toNotify, pmic, classHandle, deviceHandle, allocated, port, lost>>
      /\ Queued' = Queued /\ QueuedOnce' /\ usbInstance' = usbInstance /\ ~usbError'
  BY <1>1, SoloFrame
<1>3. /\ holds \subseteq {c} /\ given \subseteq {c}
      /\ c \in given => pc[c] \in {"openWait", "dropWait", "getWait"}
      /\ c \in holds => pc[c] \in {"idle", "tempLock", "readTemp", "invokeLock", "invoke",
                                   "getSend", "getWait"}
  BY DEF IInv, TypeOK, QueueInv, SharingInv
<1>4. Apart(c) => Apart(c)'
  BY <1>3, SoloMoves DEF Apart, Live
<1>5. Waiting(c) /\ ~Seen => Waiting(c)'
  BY <1>1, <1>3, SoloMoves DEF Waiting
<1>6. Having(c) /\ Seen => Having(c)'
  BY <1>1, <1>3, SoloMoves DEF Having
<1>7. Leaving(c) /\ (lost \/ "Unattached" \in Queued) => Leaving(c)'
  <2>1. lost \/ "Unattached" \in Queued => ~DetachSeen
    BY DEF DetachSeen, Queued
  <2>2. QED
    BY <1>2, <1>3, <2>1, SoloMoves DEF Leaving
<1>8. Stage(c)'
  <2>1. \A p, q, s : UsbSide(p, q, s)' <=> UsbSide(p, q, s)
    BY <1>2 DEF UsbSide
  <2>2. Up' <=> Up
    BY <1>2 DEF Up
  <2>3. CASE (Apart(c) \/ Waiting(c)) /\ ~lost /\ usbInstance = NULL
             /\ UsbSide("none", {}, <<>>) /\ ~toNotify
    BY <1>2, <1>4, <1>5, <2>1, <2>3 DEF Stage
  <2>4. CASE ComingUp(c)
    <3>1. ComingUp(c)'
      BY <1>2, <1>5, <2>1, <2>4 DEF ComingUp
    <3>2. QED
      BY <3>1 DEF Stage
  <2>5. CASE Having(c) /\ ~lost /\ Up /\ Queued \subseteq {"GetStatus"}
    BY <1>2, <1>6, <2>2, <2>5 DEF Stage, Up
  <2>6. CASE Leaving(c) /\ lost /\ Up /\ Queued = {}
    BY <1>2, <1>7, <2>2, <2>6 DEF Stage
  <2>7. CASE Leaving(c) /\ ~lost /\ UsbSide("none", {"Unattached"}, <<>>) /\ ~toNotify
    BY <1>2, <1>7, <2>1, <2>7 DEF Stage, UsbSide
  <2>8. QED
    BY <1>1, <2>3, <2>4, <2>5, <2>6, <2>7 DEF Stage
<1>9. pc'[c] = "openRun" => driverInst' = usbInstance'
  <2>1. driverInst' = driverInst \/ (pc[c] = "openInit" /\ driverInst' = usbInstance)
    BY DEF Client, Choose, OpenLock, OpenSend, OpenPowered, OpenFound,
     OpenError, OpenInit, OpenRun, DropSend, DropTaken, DropDone, TempLock, ReadTemp, InvokeLock,
     InvokeDone, GetPowerSend, GetPowerTaken, OpenDevice, Close, GetTemperature, Invoke, GetPower,
     Call, SendRequest, TakeResponse, mgrVars
  <2>2. pc'[c] = "openRun" => pc[c] = "openRun" \/ driverInst' = usbInstance
    BY <1>3, SoloMoves
  <2>3. QED
    BY <1>1, <1>2, <2>1, <2>2
<1>10. QED
  BY <1>2, <1>8, <1>9 DEF CourseInv

\* What tells the stages apart.
LEMMA StageIs ==
  ASSUME SharingInv, NEW c, Stage(c)
  PROVE  /\ pc[c] = "openWait" /\ c \notin given =>
              ~lost /\ usbInstance = NULL /\ UsbSide("none", {}, <<>>) /\ ~toNotify /\ Apart(c)
         /\ pc[c] = "dropWait" /\ c \notin given =>
              ~lost /\ Up /\ Having(c)
         /\ "Unattached" \in Queued =>
              Leaving(c) /\ ~lost /\ UsbSide("none", {"Unattached"}, <<>>) /\ ~toNotify
         /\ "Attached" \in Queued =>
              ComingUp(c) /\ UsbSide("enumerated", {"Attached"}, <<>>) /\ ~toNotify
         /\ "SetInterface" \in Queued =>
              /\ ComingUp(c) /\ UsbSide("enumerated", {"SetInterface"}, <<>>) /\ ~toNotify
              /\ classHandle = deviceHandle /\ classHandle \in allocated
         /\ "GetStatus" \in Queued /\ ~toNotify => Having(c) /\ ~lost /\ Up /\ Queued = {"GetStatus"}
         /\ Queued \subseteq {"Unattached", "Attached", "SetInterface", "GetStatus"}
         /\ toSend # <<>> =>
              /\ ComingUp(c) /\ classHandle = deviceHandle /\ classHandle \in allocated
              /\ \/ UsbSide("enumerated", {}, <<"SetInterface">>) /\ ~toNotify
                 \/ UsbSide("enumerated", {}, <<"GetStatus">>) /\ toNotify
         /\ toNotify /\ toSend = <<>> =>
              /\ ComingUp(c) /\ UsbSide("enumerated", {"GetStatus"}, <<>>)
              /\ classHandle = deviceHandle /\ classHandle \in allocated
<1>1. /\ <<>> # <<"SetInterface">> /\ <<>> # <<"GetStatus">>
      /\ <<"SetInterface">> # <<"GetStatus">>
  OBVIOUS
<1>2. CASE (Apart(c) \/ Waiting(c)) /\ ~lost /\ usbInstance = NULL
           /\ UsbSide("none", {}, <<>>) /\ ~toNotify
  BY <1>2 DEF UsbSide, Apart, Waiting
<1>3. CASE ComingUp(c)
  BY <1>1, <1>3 DEF ComingUp, UsbSide, Waiting
<1>4. CASE Having(c) /\ ~lost /\ Up /\ Queued \subseteq {"GetStatus"}
  <2>1. ~(pc[c] = "openWait" /\ c \notin given)
    BY <1>4 DEF Having, SharingInv
  <2>2. "GetStatus" \in Queued => Queued = {"GetStatus"}
    BY <1>4
  <2>3. QED
    BY <1>4, <2>1, <2>2 DEF Up
<1>5. CASE Leaving(c) /\ lost /\ Up /\ Queued = {}
  BY <1>5 DEF Up, Leaving
<1>6. CASE Leaving(c) /\ ~lost /\ UsbSide("none", {"Unattached"}, <<>>) /\ ~toNotify
  BY <1>6 DEF UsbSide, Leaving
<1>7. QED
  BY <1>2, <1>3, <1>4, <1>5, <1>6 DEF Stage

\* A step of the handler: it brings the device up one request after the other, and
\* switches the power off with nothing left to handle.
LEMMA CourseTask ==
  ASSUME IInv, CourseInv, faults = 0, faults' = 0, NEW c, Clients = {c}, Task
  PROVE  CourseInv'
<1>1. c \in Clients /\ QueuedOnce /\ Stage(c) /\ ~usbError /\ (pc[c] = "openRun" => driverInst = usbInstance)
  BY DEF CourseInv
<1>2. UNCHANGED <<pc, holds>>
  BY EnvironmentFrame
<1>3. /\ TypeOK /\ PowerInv /\ QueueInv /\ SharingInv
      /\ holds \subseteq {c} /\ given \subseteq {c} /\ powering \in {c, NULL}
      /\ c \in holds => pc[c] \in {"idle", "tempLock", "readTemp", "invokeLock", "invoke",
                                   "getSend", "getWait"}
  BY DEF IInv, TypeOK, SharingInv
<1>4. \A t : Receive(t) => /\ Queued' = Queued \ {t} /\ QueuedOnce'
                           /\ t \in NextStates => t \in Queued
                           /\ t = "SetPowerOff" => Queued = {}
                           /\ toSend = <<>> /\ ~toNotify /\ powering = NULL
  BY <1>1, <1>3, QueuedReceive DEF Receive, TaskIdle
<1>5. \A t \in PowerRequests : Receive(t) => /\ Requester = c /\ pc[c] = AwaitedBy(t)
                                             /\ c \notin given /\ Queued' = Queued
  <2>1. SUFFICES ASSUME NEW t \in PowerRequests, Receive(t)
                 PROVE  /\ Requester = c /\ pc[c] = AwaitedBy(t)
                        /\ c \notin given /\ Queued' = Queued
    OBVIOUS
  <2>2. Requester = c /\ pc[c] = AwaitedBy(t) /\ c \notin given
    BY <1>2, <1>3, <2>1, QueueReceive
  <2>3. Queued' = Queued
    BY <1>4, <2>1 DEF Queued, PowerRequests, NextStates
  <2>4. QED
    BY <2>2, <2>3
<1>6. SUFFICES ~usbError' /\ QueuedOnce' /\ Stage(c)' /\ (pc[c] = "openRun" => driverInst' = usbInstance')
  BY <1>2 DEF CourseInv
<1>7. CASE HandlePowerOn \/ PowerGood
  <2>1. pc[c] = "openWait" /\ c \notin given
    BY <1>3, <1>5, <1>7 DEF HandlePowerOn, PowerGood, PowerInv, PowerRequests, AwaitedBy
  <2>2. /\ UNCHANGED <<usbInstance, usbError, driverInst, toSend, toNotify, port, lost>>
        /\ Queued' = Queued /\ QueuedOnce'
    BY <1>1, <1>4, <1>5, <1>7 DEF HandlePowerOn, PowerGood, PowerRequests, mgrVars, usbVars,
       Queued, QueuedOnce
  <2>3. Apart(c)' \/ Waiting(c)'
    BY <1>1, <1>2, <1>3, <2>1, StageIs DEF Apart, Waiting
  <2>4. QED
    BY <1>1, <1>3, <2>1, <2>2, <2>3, StageIs DEF Stage, UsbSide
<1>8. CASE HandlePowerOff
  <2>1. pc[c] = "dropWait" /\ c \notin given /\ Queued = {} /\ Queued' = {} /\ QueuedOnce' /\ Requester = c
    BY <1>4, <1>5, <1>8 DEF HandlePowerOff, PowerRequests, AwaitedBy
  <2>2. ~lost /\ Up /\ holds = {}
    BY <1>1, <1>3, <2>1, StageIs
  <2>3. enabledCount' = 0
    BY <2>1, SoloPower, <1>8 DEF HandlePowerOff
  <2>4. ~pmic' /\ lost' /\ c \in given'
    <3>1. ~pmic' /\ c \in given' /\ lost' = (port # "none")
      BY <1>8, <2>1, <2>3 DEF HandlePowerOff
    <3>2. QED
      BY <2>2, <3>1 DEF Up
  <2>5. UNCHANGED <<usbInstance, usbError, driverInst, toSend, toNotify, port, classHandle,
                    deviceHandle, allocated>>
    BY <1>8 DEF HandlePowerOff, mgrVars
  <2>6. Up' /\ Leaving(c)'
    BY <1>2, <2>1, <2>2, <2>4, <2>5 DEF Up, Leaving
  <2>7. QED
    BY <1>1, <2>1, <2>4, <2>5, <2>6 DEF Stage
<1>9. CASE HandleGetPower
  <2>1. pc[c] = "getWait" /\ Queued' = Queued /\ QueuedOnce'
    BY <1>4, <1>5, <1>9 DEF HandleGetPower, PowerRequests, AwaitedBy
  <2>2. UNCHANGED <<usbInstance, usbError, driverInst, toSend, toNotify, port, lost, pmic, classHandle,
                    deviceHandle, allocated>>
    BY <1>9 DEF HandleGetPower, mgrVars, taskVars, usbVars
  <2>3. /\ Apart(c)' <=> Apart(c)
        /\ Waiting(c)' <=> Waiting(c)
        /\ Having(c)' <=> Having(c)
        /\ Leaving(c)' <=> Leaving(c)
    BY <1>2, <2>1, <2>2 DEF Apart, Waiting, Having, Leaving
  <2>4. \A p, q, s : UsbSide(p, q, s)' <=> UsbSide(p, q, s)
    BY <2>1, <2>2 DEF UsbSide
  <2>5. (ComingUp(c)' <=> ComingUp(c)) /\ (Up' <=> Up)
    BY <2>2, <2>3, <2>4 DEF ComingUp, Up
  <2>6. QED
    BY <1>1, <2>1, <2>2, <2>3, <2>4, <2>5 DEF Stage
<1>10. CASE HandleUnattached
  <2>1. "Unattached" \in Queued /\ Queued' = Queued \ {"Unattached"} /\ QueuedOnce'
    BY <1>4, <1>10 DEF HandleUnattached, NextStates
  <2>2. Leaving(c) /\ ~lost /\ UsbSide("none", {"Unattached"}, <<>>) /\ ~toNotify
    BY <1>1, <1>3, <2>1, StageIs
  <2>3. UNCHANGED <<usbError, toSend, toNotify, port, lost, given>> /\ usbInstance' = NULL
    BY <1>10 DEF HandleUnattached, taskVars, usbVars
  <2>4. Apart(c)' /\ pc[c] # "openRun"
    BY <1>2, <2>2, <2>3 DEF Leaving, Apart
  <2>5. QED
    BY <1>1, <2>1, <2>2, <2>3, <2>4 DEF Stage, UsbSide
<1>11. CASE HandleAttached \/ HandleSetInterface \/ HandleGetStatus
  <2>1. UNCHANGED <<usbError, usbInstance, driverInst, port, lost, given, deviceHandle>>
    BY <1>11 DEF HandleAttached, HandleSetInterface, HandleGetStatus, mgrVars, usbVars
  <2>2. Waiting(c)' = Waiting(c) /\ Having(c)' = Having(c)
    BY <1>2, <2>1 DEF Waiting, Having
  <2>3. CASE HandleAttached
    <3>1. "Attached" \in Queued /\ Queued' = Queued \ {"Attached"} /\ QueuedOnce'
      BY <1>4, <2>3 DEF HandleAttached, NextStates
    <3>2. ComingUp(c) /\ UsbSide("enumerated", {"Attached"}, <<>>) /\ ~toNotify
      BY <1>1, <1>3, <3>1, StageIs
    <3>3. ~Fault("alloc")
      BY DEF Fault
    <3>4. classHandle' = deviceHandle /\ deviceHandle \in allocated' /\ toSend' = <<"SetInterface">>
          /\ toNotify' = toNotify
      BY <2>3, <3>3 DEF HandleAttached
    <3>5. UsbSide("enumerated", {}, <<"SetInterface">>)'
      BY <2>1, <3>1, <3>2, <3>4 DEF UsbSide
    <3>6. ComingUp(c)'
      BY <2>1, <2>2, <3>2, <3>4, <3>5 DEF ComingUp
    <3>7. QED
      BY <1>1, <2>1, <3>1, <3>6 DEF Stage
  <2>4. CASE HandleSetInterface
    <3>1. "SetInterface" \in Queued /\ Queued' = Queued \ {"SetInterface"} /\ QueuedOnce'
      BY <1>4, <2>4 DEF HandleSetInterface, NextStates
    <3>2. /\ ComingUp(c) /\ UsbSide("enumerated", {"SetInterface"}, <<>>) /\ ~toNotify
          /\ classHandle = deviceHandle /\ classHandle \in allocated
      BY <1>1, <1>3, <3>1, StageIs
    <3>3. Usable(classHandle) /\ ~Fault("iface")
      BY <3>2 DEF Fault, Usable, ComingUp, UsbSide
    <3>4. toSend' = <<"GetStatus">> /\ toNotify' /\ UNCHANGED <<classHandle, allocated>>
      BY <2>4, <3>3 DEF HandleSetInterface, usbVars
    <3>5. UsbSide("enumerated", {}, <<"GetStatus">>)'
      BY <2>1, <3>1, <3>2, <3>4 DEF UsbSide
    <3>6. ComingUp(c)'
      BY <2>1, <2>2, <3>2, <3>4, <3>5 DEF ComingUp
    <3>7. QED
      BY <1>1, <2>1, <3>1, <3>6 DEF Stage
  <2>5. CASE HandleGetStatus
    <3>1. "GetStatus" \in Queued /\ Queued' = Queued \ {"GetStatus"} /\ QueuedOnce' /\ ~toNotify
      BY <1>4, <2>5 DEF HandleGetStatus, NextStates
    <3>2. Having(c) /\ ~lost /\ Up /\ Queued = {"GetStatus"}
      BY <1>1, <1>3, <3>1, StageIs
    <3>3. Usable(classHandle)
      BY <3>2 DEF Usable, Up
    <3>4. toSend' = <<>> /\ UNCHANGED <<classHandle, allocated, toNotify>>
      BY <2>5, <3>3 DEF HandleGetStatus, usbVars
    <3>5. Up' /\ Queued' = {}
      BY <2>1, <3>1, <3>2, <3>4 DEF Up
    <3>6. QED
      BY <1>1, <2>1, <2>2, <3>1, <3>2, <3>5 DEF Stage
  <2>6. QED
    BY <1>11, <2>3, <2>4, <2>5
<1>12. CASE HandleError
  <2>1. "EnumerationFailed" \in Queued \/ "Error" \in Queued
    BY <1>4, <1>12 DEF HandleError, NextStates
  <2>2. QED
    BY <1>1, <1>3, <2>1, StageIs
<1>13. CASE SelfSend
  <2>1. UNCHANGED <<usbError, usbInstance, driverInst, port, lost, given, deviceHandle, classHandle,
                    allocated, toNotify>>
    BY <1>13 DEF SelfSend, mgrVars, usbVars
  <2>2. /\ ComingUp(c) /\ classHandle = deviceHandle /\ classHandle \in allocated
        /\ \/ UsbSide("enumerated", {}, <<"SetInterface">>) /\ ~toNotify
           \/ UsbSide("enumerated", {}, <<"GetStatus">>) /\ toNotify
    BY <1>1, <1>3, <1>13, StageIs DEF SelfSend
  <2>3. PICK s \in {"SetInterface", "GetStatus"} : toSend = <<s>> /\ (toNotify <=> s = "GetStatus")
    BY <2>2 DEF UsbSide
  <2>4. toSend' = <<>> /\ Enqueue(NextState(s)) /\ s \in NextStates
    BY <1>13, <2>3 DEF SelfSend, NextStates
  <2>5. pc[c] # "dropWait" /\ Queued = {} /\ port = "enumerated"
    BY <2>2 DEF ComingUp, Waiting, UsbSide
  <2>6. Queued' = {s} /\ QueuedOnce'
    BY <1>3, <2>4, <2>5, NoPowerOff, QueuedNext
  <2>7. UsbSide("enumerated", {s}, <<>>)'
    BY <2>1, <2>4, <2>5, <2>6 DEF UsbSide
  <2>8. Waiting(c)'
    BY <1>2, <2>1, <2>2 DEF Waiting, ComingUp
  <2>9. ComingUp(c)'
    BY <2>1, <2>2, <2>3, <2>7, <2>8 DEF ComingUp
  <2>10. QED
    BY <1>1, <2>1, <2>6, <2>9 DEF Stage
<1>14. CASE NotifyConnected
  <2>1. UNCHANGED <<usbError, driverInst, port, lost, given, deviceHandle, classHandle,
                    allocated, toSend>> /\ ~toNotify' /\ usbInstance' = classHandle
        /\ Queued' = Queued /\ QueuedOnce'
    BY <1>1, <1>14 DEF NotifyConnected, usbVars, Queued, QueuedOnce
  <2>2. /\ ComingUp(c) /\ UsbSide("enumerated", {"GetStatus"}, <<>>)
        /\ classHandle = deviceHandle /\ classHandle \in allocated
    BY <1>1, <1>3, <1>14, StageIs DEF NotifyConnected
  <2>3. Having(c)' /\ pc[c] # "openRun" /\ deviceHandle # NULL /\ ~lost
    BY <1>2, <2>1, <2>2 DEF ComingUp, Waiting, Having
  <2>4. Up' /\ Queued' = {"GetStatus"}
    BY <2>1, <2>2, <2>3 DEF Up, UsbSide
  <2>5. QED
    BY <1>1, <2>1, <2>3, <2>4 DEF Stage
<1>15. QED
  BY <1>7, <1>8, <1>9, <1>10, <1>11, <1>12, <1>13, <1>14 DEF Task

\* A step of the host: a device that is powered appears, and one that has gone is
\* announced, with nothing else queued.
LEMMA CourseUsb ==
  ASSUME IInv, CourseInv, faults = 0, faults' = 0, NEW c, Clients = {c}, Usb \/ UsbFault
  PROVE  CourseInv'
<1>1. c \in Clients /\ QueuedOnce /\ Stage(c) /\ ~usbError /\ (pc[c] = "openRun" => driverInst = usbInstance)
  BY DEF CourseInv
<1>2. TypeOK /\ QueueInv
  BY DEF IInv
<1>3. UNCHANGED <<pc, holds, given, pmic, reset>>
  BY EnvironmentFrame, UsbFrame
<1>4. UNCHANGED <<usbError, usbInstance, driverInst, toSend, toNotify, classHandle>>
  BY DEF Usb, UsbFault, UsbAttach, UsbEnumerationDone, UsbEnumerationFail, UsbSilent, UsbLoss,
     UsbOtherEvent, UsbDetach, UsbForget, mgrVars, taskVars, usbVars
<1>5. /\ Apart(c)' <=> Apart(c)
      /\ Waiting(c)' <=> Waiting(c)
      /\ Leaving(c)' <=> Leaving(c)
  BY <1>3 DEF Apart, Waiting, Leaving
<1>6. SUFFICES QueuedOnce' /\ Stage(c)'
  BY <1>1, <1>3, <1>4 DEF CourseInv
<1>7. CASE UsbAttach
  <2>1. Waiting(c) /\ ~lost /\ usbInstance = NULL /\ UsbSide("none", {}, <<>>) /\ ~toNotify
    <3>1. ~Apart(c)
      BY <1>7, SoloPower DEF UsbAttach
    <3>2. ~Leaving(c)
      BY <1>7 DEF UsbAttach, Leaving
    <3>3. QED
      BY <1>1, <1>7, <3>1, <3>2 DEF UsbAttach, Stage, ComingUp, Up, UsbSide
  <2>2. port' = "attached" /\ UNCHANGED <<queue, lost>> /\ deviceHandle' # NULL
    BY <1>7, <2>1 DEF UsbAttach
  <2>3. Queued' = Queued /\ QueuedOnce'
    BY <1>1, <2>2 DEF Queued, QueuedOnce
  <2>4. UsbSide("attached", {}, <<>>)'
    BY <1>4, <2>1, <2>2, <2>3 DEF UsbSide
  <2>5. ComingUp(c)'
    BY <1>4, <1>5, <2>1, <2>2, <2>4 DEF ComingUp
  <2>6. QED
    BY <2>3, <2>5 DEF Stage
<1>8. CASE UsbEnumerationDone
  <2>1. Waiting(c) /\ ~lost /\ usbInstance = NULL /\ deviceHandle # NULL
        /\ UsbSide("attached", {}, <<>>) /\ ~toNotify
    BY <1>1, <1>8 DEF UsbEnumerationDone, Stage, ComingUp, Up, UsbSide
  <2>2. port' = "enumerated" /\ UNCHANGED <<lost, deviceHandle>> /\ Enqueue(NextState("Attached"))
    BY <1>8 DEF UsbEnumerationDone
  <2>3. pc[c] # "dropWait" /\ Queued = {} /\ "Attached" \in NextStates
    BY <2>1 DEF Waiting, UsbSide, NextStates
  <2>4. Queued' = {"Attached"} /\ QueuedOnce'
    BY <1>2, <2>2, <2>3, NoPowerOff, QueuedNext
  <2>5. UsbSide("enumerated", {"Attached"}, <<>>)'
    BY <1>4, <2>1, <2>2, <2>4 DEF UsbSide
  <2>6. ComingUp(c)'
    BY <1>4, <1>5, <2>1, <2>2, <2>5 DEF ComingUp
  <2>7. QED
    BY <2>4, <2>6 DEF Stage
<1>9. CASE UsbDetach
  <2>1. Leaving(c) /\ Up /\ Queued = {}
    BY <1>1, <1>9 DEF UsbDetach, Stage, ComingUp
  <2>2. port' = "none" /\ ~lost' /\ Enqueue(NextState("Unattached"))
    BY <1>9 DEF UsbDetach
  <2>3. (pc[c] # "dropWait" \/ c \in given) /\ "Unattached" \in NextStates
    BY <2>1 DEF Leaving, NextStates
  <2>4. Queued' = {"Unattached"} /\ QueuedOnce'
    BY <1>2, <2>1, <2>2, <2>3, NoPowerOff, QueuedNext
  <2>5. UsbSide("none", {"Unattached"}, <<>>)' /\ ~toNotify'
    BY <1>4, <2>1, <2>2, <2>4 DEF UsbSide, Up
  <2>6. QED
    BY <1>5, <2>1, <2>2, <2>4, <2>5 DEF Stage
<1>10. ~UsbForget
  BY <1>1 DEF UsbForget, Stage, ComingUp, UsbSide, Up
<1>11. ~UsbFault
  BY DEF UsbFault, UsbEnumerationFail, UsbSilent, UsbLoss, UsbOtherEvent, Fault
<1>12. QED
  BY <1>7, <1>8, <1>9, <1>10, <1>11 DEF Usb

LEMMA CourseInit == Init => CourseInv
<1> SUFFICES ASSUME Init PROVE CourseInv
  OBVIOUS
<1>1. Queued = {} /\ QueuedOnce /\ ~usbError
  BY DEF Init, Queued, QueuedOnce
<1>2. ASSUME NEW c \in Clients
      PROVE  Stage(c) /\ pc[c] = "idle"
  BY <1>1 DEF Init, Stage, Apart, UsbSide
<1>3. QED
  BY <1>1, <1>2 DEF CourseInv

\* With one client the device is brought up, used and shut down in order.
LEMMA Course ==
  ASSUME SoloClient
  PROVE  Spec => [](IInv /\ CourseInv)
<1>1. PICK c : Clients = {c}
  BY ClientsAssumption, FS_Singleton DEF SoloClient
<1>2. IInv /\ CourseInv /\ [Next]_vars => CourseInv'
  <2> SUFFICES ASSUME IInv, CourseInv, [Next]_vars PROVE CourseInv'
    OBVIOUS
  <2>1. CASE faults' # 0
    BY <2>1 DEF CourseInv
  <2>2. CASE faults' = 0 /\ UNCHANGED vars
    <3>1. /\ UNCHANGED <<pc, holds, given, pmic, lost, usbInstance, driverInst, usbError>>
          /\ UNCHANGED <<toSend, toNotify, port, classHandle, deviceHandle, allocated, faults>>
          /\ Queued' = Queued /\ (QueuedOnce' <=> QueuedOnce)
      BY <2>2 DEF vars, mgrVars, taskVars, usbVars, QueuedOnce, Queued
    <3>2. ASSUME NEW d
          PROVE  Stage(d)' <=> Stage(d)
      BY <3>1 DEF Stage, Apart, Waiting, ComingUp, Having, Leaving, Up, UsbSide
    <3>3. QED
      BY <3>1, <3>2 DEF CourseInv
  <2>3. CASE faults' = 0 /\ Next /\ ~UNCHANGED vars
    <3>1. faults = 0
      BY <2>3, FaultsGrow DEF IInv, TypeOK
    <3>2. QED
      BY <1>1, <2>3, <3>1, CourseClient, CourseTask, CourseUsb DEF Next, Running, Halted, SoloClient
  <2>4. QED
    BY <2>1, <2>2, <2>3
<1>3. QED
  BY <1>2, CourseInit, Inductive, PTL DEF Spec

\* A single task that opens, drops and reopens the device never runs TpuDriver::Initialize
\* against a device that is powered down, as long as the USB side works: the delay of the
\* destructor orders the detach before the next open.
THEOREM OpensAreLive ==
  ASSUME SoloClient
  PROVE  Spec => []OpensLiveDevice
<1>1. CourseInv => OpensLiveDevice
  <2> SUFFICES ASSUME CourseInv, faults = 0, NEW c \in Clients, pc[c] = "openRun"
               PROVE  Usable(driverInst)
    BY DEF OpensLiveDevice
  <2>1. Stage(c) /\ driverInst = usbInstance
    BY DEF CourseInv
  <2>2. Up /\ ~lost
    BY <2>1 DEF Stage, Apart, Waiting, ComingUp, Leaving
  <2>3. QED
    BY <2>1, <2>2 DEF Up, Usable
<1>2. QED
  BY <1>1, Course, PTL

\* Nor does the handler then pass a freed class instance to the class driver, and no
\* detach frees one twice.
THEOREM InstancesAreLive ==
  ASSUME SoloClient
  PROVE  Spec => []NoUseAfterFree
<1>1. IInv /\ CourseInv => NoUseAfterFree
  <2> SUFFICES ASSUME IInv, CourseInv, faults = 0 PROVE NoUseAfterFree
    BY DEF NoUseAfterFree
  <2>1. PICK c \in Clients : TRUE
    BY FS_EmptySet DEF SoloClient
  <2>2. Stage(c) /\ SharingInv
    BY DEF CourseInv, IInv
  <2>3. toNotify => classHandle \in allocated
    BY <2>2, StageIs
  <2>4. lost /\ port = "enumerated" => classHandle \in allocated
    BY <2>2 DEF Stage, ComingUp, Up
  <2>5. ASSUME queue # <<>>, Head(queue).type \in {"SetInterface", "GetStatus"}
        PROVE  classHandle \in allocated
    <3>1. Head(queue).type \in Queued
      <4>1. 1 \in 1..Len(queue) /\ Head(queue) = queue[1]
        BY <2>5, LenProperties, EmptySeq, HeadTailProperties DEF IInv, TypeOK
      <4>2. QED
        BY <2>5, <4>1 DEF Queued, NextStates
    <3>2. QED
      BY <2>2, <2>3, <2>5, <3>1, StageIs DEF Up
  <2>6. QED
    BY <2>3, <2>4, <2>5 DEF NoUseAfterFree
<1>2. QED
  BY <1>1, Course, PTL

----------------------------------------------------------------------------
(* NoSelfBlock, for any number of clients that share the device            *)

\* GetPower is not called and the USB side does not fail; the delay suffices.
Sharing == "GetPower" \notin Calls /\ Faults = {} /\ DelaySuffices

None == "none"
Att  == "Attached"
Itf  == "SetInterface"
Sta  == "GetStatus"
Err  == "Error"
Una  == "Unattached"
On   == "SetPowerOn"
Off  == "SetPowerOff"

\* The line: the types of the queued requests, then what the handler has still
\* to send.  As far as it matters it is no longer than three.
Letter(i) == IF i <= Len(queue) THEN queue[i].type
             ELSE IF i <= Len(queue) + Len(toSend) THEN toSend[i - Len(queue)]
             ELSE None
L1 == Letter(1)
L2 == Letter(2)
L3 == Letter(3)

One(a)        == L1 = a /\ L2 = None /\ L3 = None
Two(a, b)     == L1 = a /\ L2 = b /\ L3 = None
Three(a, b, c) == L1 = a /\ L2 = b /\ L3 = c

\* What the handler has still to send.
T1 == IF Len(toSend) >= 1 THEN toSend[1] ELSE None
T2 == IF Len(toSend) >= 2 THEN toSend[2] ELSE None

\* The device is up and the handler has nothing to do for it but GetStatus.
Settled ==
  /\ port = "enumerated" /\ ~lost
  /\ usbInstance = deviceHandle /\ classHandle = deviceHandle
  /\ toSend = <<>> /\ ~toNotify
  /\ \A i \in 1..Len(queue) : queue[i].type \in {Sta, On, Off}
  /\ \A i, j \in 1..Len(queue) : queue[i].type = Sta /\ queue[j].type = Sta => i = j

\* The holder of the mutex is destroying the context it failed to make, or the
\* last one: its power-off request is not handled yet, or it is.
Dropping  == \E c \in Clients : /\ mutex = c
                                /\ pc[c] = "dropSend" \/ (pc[c] = "dropWait" /\ c \notin given)
Departing == \E c \in Clients : /\ mutex = c
                                /\ pc[c] = "dropDelay" \/ (pc[c] = "dropWait" /\ c \in given)

Fresh == usbInstance = NULL /\ ~toNotify

\* The line after power off.
LostLine ==
  \/ /\ Departing /\ classHandle # deviceHandle /\ Fresh
     /\ IF port = "enumerated" THEN One(Att) ELSE One(None)
  \/ /\ port = "enumerated" /\ classHandle = deviceHandle
     /\ \/ Departing /\ Fresh /\ One(Itf)
        \/ Departing /\ ~Fresh /\ (One(None) \/ One(Err) \/ One(Sta) \/ Two(Err, Err))
        \/ /\ ~Departing /\ usbInstance # NULL /\ ~toNotify
           /\ \/ One(None) \/ One(Err) \/ One(Sta) \/ One(On)
              \/ Two(Err, On) \/ Two(On, Err) \/ Two(Sta, On) \/ Two(On, Sta)

GoneLine ==
  \/ One(None) \/ One(Err) \/ One(Sta) \/ Two(Err, Err)
  \/ Fresh /\ One(Itf)
  \/ /\ Departing /\ Fresh
     /\ Two(Att, Una) \/ Two(Itf, Una) \/ Two(Una, Itf)
  \/ /\ Departing /\ ~Fresh
     /\ \/ One(Una) \/ Two(Err, Una) \/ Two(Una, Err) \/ Two(Sta, Una) \/ Two(Una, Sta)
        \/ Three(Err, Err, Una) \/ Three(Err, Una, Err) \/ Three(Una, Err, Err)
  \/ /\ ~Departing
     /\ \/ One(On) \/ Two(Err, On) \/ Two(Sta, On) \/ Two(On, Err) \/ Three(Err, Err, On)
        \/ Fresh /\ Two(Itf, On)
        \/ /\ ~Fresh
           /\ Two(On, Sta) \/ Three(Err, On, Err) \/ Three(On, Err, Err)
  \/ /\ ~Departing /\ usbInstance # NULL /\ ~toNotify
     /\ \/ One(Una) \/ Two(Una, Err) \/ Two(Err, Una) \/ Two(Sta, Una)
        \/ Two(On, Una) \/ Two(Una, On)
        \/ Three(Err, On, Una) \/ Three(Err, Una, On) \/ Three(On, Err, Una)
        \/ Three(On, Una, Err) \/ Three(Una, Err, On) \/ Three(Una, On, Err)
        \/ Three(Sta, On, Una) \/ Three(Sta, Una, On) \/ Three(On, Sta, Una)

\* Powered, before class_handle_ is that of the device.
AwaitLine ==
  /\ ~toNotify
  /\ \/ /\ usbInstance = NULL /\ port # "enumerated"
        /\ One(None) \/ One(Err) \/ (Dropping /\ (One(Off) \/ Two(Err, Off)))
     \/ /\ usbInstance = NULL /\ port = "enumerated"
        /\ \/ One(Att) \/ Two(Att, Err) \/ Two(Err, Att)
           \/ /\ Dropping
              /\ \/ Two(Att, Off) \/ Two(Off, Att) \/ Three(Att, Err, Off)
                 \/ Three(Err, Att, Off) \/ Three(Err, Off, Att)
     \/ /\ usbInstance # NULL /\ port # "enumerated" /\ ~Dropping
        /\ \/ One(None) \/ One(Err) \/ One(Sta) \/ One(Una) \/ Two(Err, Err)
           \/ Two(Err, Una) \/ Two(Sta, Una) \/ Two(Una, Err)
     \/ /\ usbInstance # NULL /\ port = "enumerated" /\ ~Dropping
        /\ \/ One(Att) \/ Two(Att, Err) \/ Two(Err, Att) \/ Two(Sta, Att) \/ Two(Una, Att)
           \/ Three(Err, Err, Att) \/ Three(Err, Una, Att) \/ Three(Sta, Una, Att)
           \/ Three(Una, Att, Err) \/ Three(Una, Err, Att)

\* Powered, while the interface of the device is being set.
SetupLine ==
  /\ Dropping => usbInstance = NULL
  /\ \/ /\ ~toNotify
        /\ \/ One(Itf) \/ Two(Err, Itf)
           \/ /\ Dropping
              /\ \/ Two(Itf, Off) \/ Two(Off, Itf)
                 \/ Three(Err, Itf, Off) \/ Three(Err, Off, Itf)
     \/ /\ toNotify
        /\ One(Sta) \/ (Dropping /\ (Two(Sta, Off) \/ Two(Off, Sta)))

\* What the handler has still to send is the end of the line.
SendsInv ==
  /\ \/ T1 = None /\ T2 = None
     \/ T1 = Itf /\ T2 = None /\ ~toNotify
     \/ T1 = Sta /\ T2 = None /\ toNotify
     \/ T1 = Err /\ T2 = None
     \/ T1 = Err /\ T2 = Err /\ toNotify
  /\ Len(toSend) <= 2

Lines ==
  /\ ~pmic /\ lost => LostLine
  /\ ~pmic /\ ~lost =>
       /\ GoneLine
       /\ Fresh => T1 = None \/ One(Err) \/ Two(On, Err) \/ Two(Una, Itf)
  /\ pmic /\ lost =>
       /\ port = "enumerated" /\ classHandle = deviceHandle /\ ~Dropping
       /\ usbInstance # NULL /\ ~toNotify
       /\ One(None) \/ One(Err) \/ One(Sta)
  /\ pmic /\ ~lost =>
       IF port = "enumerated" /\ classHandle = deviceHandle
       THEN SetupLine /\ T1 # Err
       ELSE /\ AwaitLine
            /\ \/ T1 = None
               \/ /\ T1 = Err /\ usbInstance # NULL
                  /\ One(Err) \/ Two(Una, Err) \/ Two(Att, Err) \/ Three(Una, Att, Err)

\* Every client whose power-off request is not handled yet holds the mutex.
DropsHeld ==
  \A c \in Clients : pc[c] = "dropSend" \/ (pc[c] = "dropWait" /\ c \notin given) => mutex = c

Fits == Len(queue) + Len(toSend) <= 3

Handles ==
  /\ (toNotify \/ L1 = Itf \/ L2 = Itf \/ L3 = Itf) => classHandle # NULL
  /\ (L1 = Att \/ L2 = Att \/ L3 = Att) => deviceHandle # NULL

Unsettled == ~Live /\ DropsHeld /\ Fits /\ SendsInv /\ Handles /\ Lines

DeviceInv ==
  /\ port \notin {"failed", "silent"}
  /\ lost => port # "none"
  /\ ~pmic => lost \/ port = "none"
  /\ port # "none" => deviceHandle # NULL
  /\ port = "attached" => classHandle # deviceHandle
  /\ port = "enumerated" /\ ~lost /\ classHandle = deviceHandle => classHandle \in allocated
  /\ port # "none" /\ ~lost /\ (usbInstance = deviceHandle \/ driverInst = deviceHandle) => Settled
  /\ \A c \in Clients : pc[c] \notin {"getSend", "getWait"}

SharingLine == DeviceInv /\ (~Settled => Unsettled)

\* Where the letters of the line are.
Placed ==
  \A n, m \in Nat : n = Len(queue) /\ m = Len(toSend) =>
    /\ L1 = IF 1 <= n THEN queue[1].type ELSE IF 1 <= n + m THEN toSend[1 - n] ELSE None
    /\ L2 = IF 2 <= n THEN queue[2].type ELSE IF 2 <= n + m THEN toSend[2 - n] ELSE None
    /\ L3 = IF 3 <= n THEN queue[3].type ELSE IF 3 <= n + m THEN toSend[3 - n] ELSE None
    /\ T1 = IF 1 <= m THEN toSend[1] ELSE None
    /\ T2 = IF 2 <= m THEN toSend[2] ELSE None
    /\ \A i \in 1..n : queue[i].type # None
    /\ \A i \in 1..m : toSend[i] # None

\* The letters are told apart from the absence of one.
LEMMA Letters == TypeOK => Placed
<1> SUFFICES ASSUME TypeOK, NEW n \in Nat, NEW m \in Nat, n = Len(queue), m = Len(toSend)
    PROVE  /\ L1 = IF 1 <= n THEN queue[1].type ELSE IF 1 <= n + m THEN toSend[1 - n] ELSE None
           /\ L2 = IF 2 <= n THEN queue[2].type ELSE IF 2 <= n + m THEN toSend[2 - n] ELSE None
           /\ L3 = IF 3 <= n THEN queue[3].type ELSE IF 3 <= n + m THEN toSend[3 - n] ELSE None
           /\ T1 = IF 1 <= m THEN toSend[1] ELSE None
           /\ T2 = IF 2 <= m THEN toSend[2] ELSE None
           /\ \A i \in 1..n : queue[i].type # None
           /\ \A i \in 1..m : toSend[i] # None
  BY DEF Placed
<1>1. \A i \in 1..n : queue[i] \in Request
  BY ElementOfSeq DEF TypeOK
<1>2. \A i \in 1..m : toSend[i] \in NextStates
  BY ElementOfSeq DEF TypeOK
<1>3. \A r \in Request : r.type # None
  BY DEF Request, PowerRequests, NextStates, None
<1>4. \A s \in NextStates : s # None
  BY DEF NextStates, None
<1>5. /\ \A i \in 1..n : queue[i].type # None
      /\ \A i \in 1..m : toSend[i] # None
  BY <1>1, <1>2, <1>3, <1>4
<1>6. QED
  BY <1>5 DEF L1, L2, L3, T1, T2, Letter

\* The line is as long as it has letters.
LEMMA LineLength ==
  ASSUME TypeOK
  PROVE  /\ T1 = None <=> toSend = <<>>
         /\ L3 = None => Len(queue) + Len(toSend) <= 2
         /\ L2 = None => L3 = None /\ Len(queue) + Len(toSend) <= 1
         /\ L1 = None => L2 = None /\ Len(queue) + Len(toSend) = 0
         /\ T1 = None => T2 = None
<1>1. PICK n \in Nat, m \in Nat : n = Len(queue) /\ m = Len(toSend)
  BY LenProperties DEF TypeOK
<1>2. toSend = <<>> <=> m = 0
  BY <1>1, EmptySeq DEF TypeOK
<1>3. /\ \A i \in 1..n : queue[i].type # None
      /\ \A i \in 1..m : toSend[i] # None
  BY <1>1, Letters DEF Placed
<1>4. /\ 1 <= n => queue[1].type # None
      /\ 2 <= n => queue[2].type # None
      /\ 3 <= n => queue[3].type # None
      /\ 1 <= m => toSend[1] # None
      /\ 2 <= m => toSend[2] # None
  BY <1>3
<1>5. /\ 1 <= n + m /\ ~(1 <= n) => toSend[1 - n] # None
      /\ 2 <= n + m /\ ~(2 <= n) => toSend[2 - n] # None
      /\ 3 <= n + m /\ ~(3 <= n) => toSend[3 - n] # None
  <2>1. /\ 1 <= n + m /\ ~(1 <= n) => 1 - n \in 1..m
        /\ 2 <= n + m /\ ~(2 <= n) => 2 - n \in 1..m
        /\ 3 <= n + m /\ ~(3 <= n) => 3 - n \in 1..m
    OBVIOUS
  <2>2. QED
    BY <2>1, <1>3
<1>6. /\ L1 = None <=> ~(1 <= n + m)
      /\ L2 = None <=> ~(2 <= n + m)
      /\ L3 = None <=> ~(3 <= n + m)
      /\ T1 = None <=> ~(1 <= m)
      /\ T2 = None <=> ~(2 <= m)
  BY <1>1, <1>4, <1>5, Letters DEF Placed
<1>7. QED
  BY <1>1, <1>2, <1>6

\* SetNextState moves a letter from what is to be sent to the queue: the line stays.
LEMMA LineSelfSend ==
  ASSUME TypeOK, TypeOK', SelfSend, Fits, Len(toSend) <= 2
  PROVE  /\ L1' = L1 /\ L2' = L2 /\ L3' = L3 /\ Fits'
         /\ T1' = T2 /\ T2' = None /\ Len(toSend') <= 1
<1>1. PICK n \in Nat, m \in Nat : n = Len(queue) /\ m = Len(toSend)
  BY LenProperties DEF TypeOK
<1>2. /\ m > 0 /\ Len(toSend') = m - 1
      /\ \A i \in 1..m-1 : toSend'[i] = toSend[i + 1]
      /\ Head(toSend) = toSend[1]
  BY <1>1, EmptySeq, HeadTailProperties DEF TypeOK, SelfSend
<1>3. NextState(Head(toSend)) \in Request /\ NextState(Head(toSend)).type = toSend[1]
  BY <1>2, HeadTailProperties, RequestTypes DEF TypeOK, SelfSend, NextState
<1>4. /\ Len(queue') = n + 1
      /\ \A i \in 1..n : queue'[i] = queue[i]
      /\ queue'[n + 1].type = toSend[1]
  BY <1>1, <1>3, LenProperties DEF TypeOK, SelfSend, Enqueue
<1>5. m = 1 \/ m = 2
  BY <1>1, <1>2
<1>6. n + m <= 3
  BY <1>1 DEF Fits
<1>7. /\ 1 <= n => queue'[1] = queue[1]
      /\ 2 <= n => queue'[2] = queue[2]
      /\ m = 2 => toSend'[1] = toSend[2]
  BY <1>2, <1>4
<1>8. (n = 0 \/ n = 1) \/ n = 2
  BY <1>5, <1>6
<1>9. TypeOK' => Placed'
  BY Letters, PTL
<1>10. PICK k \in Nat, j \in Nat : k = n + 1 /\ j = m - 1
  BY <1>5
<1>11. k = Len(queue') /\ j = Len(toSend')
  BY <1>2, <1>4, <1>10
<1>12. /\ L1' = IF 1 <= k THEN queue'[1].type ELSE IF 1 <= k + j THEN toSend'[1 - k] ELSE None
       /\ L2' = IF 2 <= k THEN queue'[2].type ELSE IF 2 <= k + j THEN toSend'[2 - k] ELSE None
       /\ L3' = IF 3 <= k THEN queue'[3].type ELSE IF 3 <= k + j THEN toSend'[3 - k] ELSE None
       /\ T1' = IF 1 <= j THEN toSend'[1] ELSE None
       /\ T2' = IF 2 <= j THEN toSend'[2] ELSE None
  BY <1>9, <1>11 DEF Placed
<1>13. /\ L1 = IF 1 <= n THEN queue[1].type ELSE IF 1 <= n + m THEN toSend[1 - n] ELSE None
       /\ L2 = IF 2 <= n THEN queue[2].type ELSE IF 2 <= n + m THEN toSend[2 - n] ELSE None
       /\ L3 = IF 3 <= n THEN queue[3].type ELSE IF 3 <= n + m THEN toSend[3 - n] ELSE None
       /\ T2 = IF 2 <= m THEN toSend[2] ELSE None
  BY <1>1, Letters DEF Placed
<1>14. QED
  BY <1>1, <1>2, <1>4, <1>5, <1>6, <1>7, <1>8, <1>10, <1>12, <1>13 DEF Fits

\* A request that is enqueued comes before what the handler has still to send.
LEMMA LineEnqueue ==
  ASSUME TypeOK, TypeOK', NEW r \in Request, Enqueue(r), toSend' = toSend,
         Fits, L3 = None, Len(toSend) <= 2
  PROVE  /\ Fits' /\ T1' = T1 /\ T2' = T2
         /\ T1 = None =>
              IF L1 = None THEN L1' = r.type /\ L2' = None /\ L3' = None
              ELSE IF L2 = None THEN L1' = L1 /\ L2' = r.type /\ L3' = None
              ELSE L1' = L1 /\ L2' = L2 /\ L3' = r.type
         /\ T1 # None /\ T2 = None =>
              IF L2 = None THEN L1' = r.type /\ L2' = L1 /\ L3' = None
              ELSE L1' = L1 /\ L2' = r.type /\ L3' = L2
         /\ T2 # None => L1' = r.type /\ L2' = L1 /\ L3' = L2
<1>1. PICK n \in Nat, m \in Nat : n = Len(queue) /\ m = Len(toSend)
  BY LenProperties DEF TypeOK
<1>2. /\ Len(queue') = n + 1
      /\ \A i \in 1..n : queue'[i] = queue[i]
      /\ queue'[n + 1] = r
  BY <1>1, LenProperties DEF TypeOK, Enqueue
<1>3. n + m <= 2
  BY <1>1, LineLength
<1>4. /\ 1 <= n => queue'[1] = queue[1]
      /\ 2 <= n => queue'[2] = queue[2]
  BY <1>2
<1>5. PICK k \in Nat : k = n + 1
  BY <1>1
<1>6. k = Len(queue') /\ m = Len(toSend')
  BY <1>1, <1>2, <1>5
<1>7. TypeOK' => Placed'
  BY Letters, PTL
<1>8. /\ L1' = IF 1 <= k THEN queue'[1].type ELSE IF 1 <= k + m THEN toSend[1 - k] ELSE None
      /\ L2' = IF 2 <= k THEN queue'[2].type ELSE IF 2 <= k + m THEN toSend[2 - k] ELSE None
      /\ L3' = IF 3 <= k THEN queue'[3].type ELSE IF 3 <= k + m THEN toSend[3 - k] ELSE None
      /\ T1' = IF 1 <= m THEN toSend[1] ELSE None
      /\ T2' = IF 2 <= m THEN toSend[2] ELSE None
  BY <1>6, <1>7 DEF Placed
<1>9. /\ L1 = IF 1 <= n THEN queue[1].type ELSE IF 1 <= n + m THEN toSend[1 - n] ELSE None
      /\ L2 = IF 2 <= n THEN queue[2].type ELSE IF 2 <= n + m THEN toSend[2 - n] ELSE None
      /\ T1 = IF 1 <= m THEN toSend[1] ELSE None
      /\ T2 = IF 2 <= m THEN toSend[2] ELSE None
  BY <1>1, Letters DEF Placed
<1>10. /\ 1 <= n => queue[1].type # None
       /\ 2 <= n => queue[2].type # None
       /\ 1 <= m => toSend[1] # None
       /\ 2 <= m => toSend[2] # None
  <2>1. (\A i \in 1..n : queue[i].type # None) /\ (\A i \in 1..m : toSend[i] # None)
    BY <1>1, Letters DEF Placed
  <2>2. QED
    BY <2>1
<1>11. (n = 0 \/ n = 1) \/ n = 2
  BY <1>3
<1>12. (m = 0 \/ m = 1) \/ m = 2
  BY <1>3
<1>13. QED
  BY <1>2, <1>3, <1>4, <1>5, <1>6, <1>8, <1>9, <1>10, <1>11, <1>12 DEF Fits

\* The head of the line is received; what there is then to send is its new end.
Shifted ==
  /\ T1 = None /\ T2 = None
  /\ T1' = None => T2' = None
  /\ T1' = None => Fits' /\ L1' = L2 /\ L2' = L3 /\ L3' = None
  /\ T1' # None /\ T2' = None =>
       /\ Fits'
       /\ IF L2 = None THEN L1' = T1' /\ L2' = None /\ L3' = None
          ELSE IF L3 = None THEN L1' = L2 /\ L2' = T1' /\ L3' = None
          ELSE L1' = L2 /\ L2' = L3 /\ L3' = T1'
  /\ T2' # None /\ L3 = None =>
       /\ Fits'
       /\ IF L2 = None THEN L1' = T1' /\ L2' = T2' /\ L3' = None
          ELSE L1' = L2 /\ L2' = T1' /\ L3' = T2'

\* What is received is the head of the line.
LEMMA LineReceive ==
  ASSUME TypeOK, TypeOK', NEW t, Receive(t), Fits, Len(toSend') <= 2
  PROVE  L1 = t /\ Shifted
<1>1. PICK n \in Nat, j \in Nat : n = Len(queue) /\ j = Len(toSend')
  BY LenProperties DEF TypeOK
<1>2. /\ toSend = <<>>
      /\ n > 0 /\ Len(queue') = n - 1
      /\ \A i \in 1..n-1 : queue'[i] = queue[i + 1]
      /\ queue[1].type = t
  BY <1>1, EmptySeq, HeadTailProperties DEF TypeOK, Receive, TaskIdle
<1>3. Len(toSend) = 0
  BY <1>2
<1>4. n <= 3 /\ j <= 2
  BY <1>1, <1>3 DEF Fits
<1>5. PICK k \in Nat, m \in Nat : k = n - 1 /\ m = 0
  BY <1>2
<1>6. k = Len(queue') /\ m = Len(toSend)
  BY <1>2, <1>3, <1>5
<1>7. TypeOK' => Placed'
  BY Letters, PTL
<1>8. /\ L1' = IF 1 <= k THEN queue'[1].type ELSE IF 1 <= k + j THEN toSend'[1 - k] ELSE None
      /\ L2' = IF 2 <= k THEN queue'[2].type ELSE IF 2 <= k + j THEN toSend'[2 - k] ELSE None
      /\ L3' = IF 3 <= k THEN queue'[3].type ELSE IF 3 <= k + j THEN toSend'[3 - k] ELSE None
      /\ T1' = IF 1 <= j THEN toSend'[1] ELSE None
      /\ T2' = IF 2 <= j THEN toSend'[2] ELSE None
      /\ \A i \in 1..j : toSend'[i] # None
  BY <1>1, <1>6, <1>7 DEF Placed
<1>9. /\ L1 = IF 1 <= n THEN queue[1].type ELSE IF 1 <= n + m THEN toSend[1 - n] ELSE None
      /\ L2 = IF 2 <= n THEN queue[2].type ELSE IF 2 <= n + m THEN toSend[2 - n] ELSE None
      /\ L3 = IF 3 <= n THEN queue[3].type ELSE IF 3 <= n + m THEN toSend[3 - n] ELSE None
      /\ T1 = IF 1 <= m THEN toSend[1] ELSE None
      /\ T2 = IF 2 <= m THEN toSend[2] ELSE None
      /\ \A i \in 1..n : queue[i].type # None
  BY <1>1, <1>6, Letters DEF Placed
<1>10. /\ 2 <= n => queue'[1] = queue[2] /\ queue[2].type # None
       /\ 3 <= n => queue'[2] = queue[3] /\ queue[3].type # None
       /\ 1 <= j => toSend'[1] # None
       /\ 2 <= j => toSend'[2] # None
  BY <1>2, <1>8, <1>9
<1>11. (n = 1 \/ n = 2) \/ n = 3
  BY <1>2, <1>4
<1>12. (j = 0 \/ j = 1) \/ j = 2
  BY <1>4
<1>13. QED
  BY <1>1, <1>2, <1>4, <1>5, <1>6, <1>8, <1>9, <1>10, <1>11, <1>12 DEF Fits, Shifted

\* A step that does not touch the queue does not touch the line.
LEMMA LineSame ==
  ASSUME UNCHANGED <<queue, toSend>>
  PROVE  L1' = L1 /\ L2' = L2 /\ L3' = L3 /\ T1' = T1 /\ T2' = T2 /\ (Fits => Fits')
BY DEF L1, L2, L3, T1, T2, Letter, Fits

\* Whether the holder of the mutex is dropping its context follows from where it is.
Phases ==
  /\ \A c \in Clients : mutex = c =>
       /\ Dropping <=> pc[c] = "dropSend" \/ (pc[c] = "dropWait" /\ c \notin given)
       /\ Departing <=> pc[c] = "dropDelay" \/ (pc[c] = "dropWait" /\ c \in given)
  /\ mutex \notin Clients => ~Dropping /\ ~Departing

\* Phases holds of every state, by definition.
LEMMA PhasesHold == Phases
BY DEF Phases, Dropping, Departing

\* While the device is not settled, it is powered for the holder of the mutex alone.
LEMMA PoweredForHolder ==
  IInv /\ ~Live /\ DropsHeld /\ mutex \notin Contexts => ~pmic /\ enabledCount = 0
<1> SUFFICES ASSUME IInv, ~Live, DropsHeld, mutex \notin Contexts
             PROVE  ~pmic /\ enabledCount = 0
  OBVIOUS
<1>1. TypeOK /\ MutexInv /\ CountBalances /\ PowerInv
  BY DEF IInv
<1>2. ASSUME NEW c \in Contexts PROVE c \in Clients /\ mutex = c
  <2>1. c \in Clients
    BY DEF Contexts
  <2>2. QED
    BY <1>1, <2>1, ClientsAssumption DEF Contexts, DropsHeld, MutexInv, Opening
<1>3. Contexts = {}
  BY <1>2
<1>4. enabledCount = 0
  BY <1>1, <1>3, FS_EmptySet DEF CountBalances
<1>5. QED
  BY <1>1, <1>4 DEF PowerInv

\* The context of the holder of the mutex is counted.
LEMMA PoweredIfHolder ==
  IInv /\ mutex \in Contexts => pmic /\ enabledCount > 0
<1> SUFFICES ASSUME IInv, mutex \in Contexts
             PROVE  pmic /\ enabledCount > 0
  OBVIOUS
<1>1. TypeOK /\ CountBalances /\ PowerInv
  BY DEF IInv
<1>2. IsFiniteSet(Contexts)
  BY <1>1, ContextsFinite
<1>3. Cardinality(Contexts) # 0 /\ Cardinality(Contexts) \in Nat
  BY <1>2, FS_CardinalityType, FS_EmptySet
<1>4. enabledCount > 0
  BY <1>1, <1>3 DEF CountBalances
<1>5. QED
  BY <1>1, <1>4 DEF PowerInv

\* Who has sent the power requests that are queued.
Asking == \E c \in Clients : mutex = c /\ pc[c] = "openWait" /\ c \notin given /\ c # powering
PowerSent ==
  \A i \in 1..Len(queue) :
    /\ queue[i].type # "GetPower"
    /\ queue[i].type = On => Asking
    /\ queue[i].type = Off => \E c \in Clients : mutex = c /\ pc[c] = "dropWait" /\ c \notin given

\* While no context is in use, the holder of the mutex alone awaits the handler.
LEMMA SentByHolder == IInv /\ DeviceInv /\ DropsHeld => PowerSent
<1> SUFFICES ASSUME IInv, DeviceInv, DropsHeld
             PROVE  PowerSent
  OBVIOUS
<1>1. TypeOK /\ MutexInv /\ QueueInv
  BY DEF IInv
<1>2. SUFFICES ASSUME NEW i \in 1..Len(queue), queue[i].type \in PowerRequests
               PROVE  /\ queue[i].type # "GetPower"
                      /\ queue[i].type = On => Asking
                      /\ queue[i].type = Off =>
                           \E c \in Clients : mutex = c /\ pc[c] = "dropWait" /\ c \notin given
  BY DEF PowerSent, PowerRequests, On, Off
<1>3. PICK c \in Clients : c = queue[i].from
  <2>1. queue[i] \in Request
    BY <1>1, ElementOfSeq DEF TypeOK
  <2>2. QED
    BY <1>2, <2>1, RequestTypes
<1>4. pc[c] = AwaitedBy(queue[i].type) /\ c \notin given /\ c # powering
  BY <1>1, <1>2, <1>3 DEF QueueInv
<1>5. queue[i].type # "GetPower"
  BY <1>4 DEF DeviceInv, AwaitedBy
<1>6. queue[i].type = On => Asking
  BY <1>1, <1>4 DEF On, Asking, AwaitedBy, MutexInv, Opening
<1>7. queue[i].type = Off => mutex = c /\ pc[c] = "dropWait" /\ c \notin given
  BY <1>4 DEF Off, AwaitedBy, DropsHeld
<1>8. QED
  BY <1>5, <1>6, <1>7

\* The letters that are in the line come from the queue or are states to send.
LEMMA LettersQueued ==
  ASSUME TypeOK, PowerSent
  PROVE  /\ (L1 = On \/ L2 = On \/ L3 = On) => Asking
         /\ (L1 = Off \/ L2 = Off \/ L3 = Off) =>
              \E c \in Clients : mutex = c /\ pc[c] = "dropWait" /\ c \notin given
<1>1. PICK n \in Nat, m \in Nat : n = Len(queue) /\ m = Len(toSend)
  BY LenProperties DEF TypeOK
<1>2. ASSUME NEW i \in {1, 2, 3}, NEW x \in {On, Off}, Letter(i) = x
      PROVE  i \in 1..Len(queue) /\ queue[i].type = x
  <2>1. \A j \in 1..m : toSend[j] \in NextStates
    BY <1>1, ElementOfSeq DEF TypeOK
  <2>2. ~(i <= n) /\ i <= n + m => i - n \in 1..m
    OBVIOUS
  <2>3. x \notin NextStates /\ x # None
    BY DEF On, Off, NextStates, None
  <2>4. i <= n
    BY <1>1, <1>2, <2>1, <2>2, <2>3 DEF Letter
  <2>5. QED
    BY <1>1, <1>2, <2>4 DEF Letter
<1>3. QED
  BY <1>2 DEF PowerSent, L1, L2, L3

\* When no Unattached is queued, none is in the line.
LEMMA NoneUnattached ==
  ASSUME TypeOK, SendsInv, Fits, \A i \in 1..Len(queue) : queue[i].type # "Unattached"
  PROVE  L1 # Una /\ L2 # Una /\ L3 # Una
<1>1. PICK n \in Nat, m \in Nat : n = Len(queue) /\ m = Len(toSend)
  BY LenProperties DEF TypeOK
<1>2. m <= 2 /\ n + m <= 3
  BY <1>1 DEF SendsInv, Fits
<1>3. /\ 1 <= m => toSend[1] # Una
      /\ 2 <= m => toSend[2] # Una
  BY <1>1, Letters DEF Placed, SendsInv, Una, Itf, Sta, Err, None
<1>4. ASSUME NEW i \in {1, 2, 3} PROVE Letter(i) # Una
  <2>1. i <= n => queue[i].type # Una
    BY <1>1 DEF Una
  <2>2. ~(i <= n) /\ i <= n + m => i - n = 1 \/ i - n = 2
    BY <1>2
  <2>3. QED
    BY <1>1, <1>3, <2>1, <2>2 DEF Letter, Una, None
<1>5. QED
  BY <1>4 DEF L1, L2, L3

\* What the clients leave to the handler and to the USB host.
DeviceSide == <<pmic, lost, port, usbInstance, classHandle, deviceHandle, toNotify, toSend, allocated>>

\* No client touches the device or what the handler has still to do.
LEMMA ClientFrame ==
  ASSUME NEW c \in Clients, Client(c) \/ Choose(c)
  PROVE  UNCHANGED DeviceSide
<1> USE DEF DeviceSide, mgrVars, taskVars, usbVars
<1>1. CASE OpenLock(c) \/ OpenFound(c) \/ OpenError(c) \/ OpenInit(c) \/ OpenRun(c)
  BY <1>1 DEF OpenLock, OpenFound, OpenError, OpenInit, OpenRun
<1>2. CASE DropDone(c) \/ Close(c) \/ TempLock(c) \/ ReadTemp(c) \/ InvokeLock(c) \/ InvokeDone(c)
  BY <1>2 DEF DropDone, Close, TempLock, ReadTemp, InvokeLock, InvokeDone
<1>3. CASE OpenDevice(c) \/ GetTemperature(c) \/ Invoke(c) \/ GetPower(c)
  BY <1>3 DEF OpenDevice, GetTemperature, Invoke, GetPower, Call
<1>4. CASE OpenPowered(c) \/ DropTaken(c) \/ GetPowerTaken(c)
  BY <1>4 DEF OpenPowered, DropTaken, GetPowerTaken, TakeResponse
<1>5. CASE OpenSend(c) \/ DropSend(c) \/ GetPowerSend(c)
  BY <1>5 DEF OpenSend, DropSend, GetPowerSend, SendRequest
<1>6. QED
  BY <1>1, <1>2, <1>3, <1>4, <1>5 DEF Client, Choose

\* The line stays legal while nothing it depends on changes.
LEMMA LinesSame ==
  ASSUME SendsInv, Handles, Lines, UNCHANGED DeviceSide,
         L1' = L1, L2' = L2, L3' = L3, T1' = T1, T2' = T2,
         Departing' <=> Departing, Dropping' <=> Dropping
  PROVE  SendsInv' /\ Handles' /\ Lines'
<1>1. SendsInv' /\ Handles'
  BY DEF SendsInv, Handles, DeviceSide
<1>2. Lines'
  BY DEF Lines, LostLine, GoneLine, AwaitLine, SetupLine, Fresh, One, Two, Three, DeviceSide
<1>3. QED
  BY <1>1, <1>2

\* A failed OpenDevice: its holder starts to drop the context it could not make.
LEMMA LinesFailed ==
  ASSUME SendsInv, Handles, Lines, UNCHANGED DeviceSide,
         L1' = L1, L2' = L2, L3' = L3, T1' = T1, T2' = T2,
         usbInstance = NULL, ~Departing, ~Dropping, ~Departing', Dropping'
  PROVE  SendsInv' /\ Handles' /\ Lines'
<1>1. SendsInv' /\ Handles'
  BY DEF SendsInv, Handles, DeviceSide
<1>2. Lines'
  BY DEF Lines, LostLine, GoneLine, AwaitLine, SetupLine, Fresh, One, Two, Three, DeviceSide
<1>3. QED
  BY <1>1, <1>2

\* The delay is over: no Unattached is on its way.
LEMMA LinesReleased ==
  ASSUME SendsInv, Handles, Lines, UNCHANGED DeviceSide,
         L1' = L1, L2' = L2, L3' = L3, T1' = T1, T2' = T2,
         ~pmic, ~lost, L1 # Una, L2 # Una, L3 # Una, ~Departing', ~Dropping'
  PROVE  SendsInv' /\ Handles' /\ Lines'
<1>1. SendsInv' /\ Handles'
  BY DEF SendsInv, Handles, DeviceSide
<1>2. Lines'
  BY DEF Lines, GoneLine, Fresh, One, Two, Three, DeviceSide
<1>3. QED
  BY <1>1, <1>2

\* Where the new power-on request comes in the line, and that there is room for it.
LEMMA LinesPowerOn ==
  ASSUME SendsInv, Handles, Lines, UNCHANGED DeviceSide, T1' = T1, T2' = T2,
         ~pmic, ~Departing, ~Departing',
         ~((L1 = On \/ L2 = On) \/ L3 = On),
         L3 = None =>
         /\ T1 = None =>
              IF L1 = None THEN L1' = On /\ L2' = None /\ L3' = None
              ELSE IF L2 = None THEN L1' = L1 /\ L2' = On /\ L3' = None
              ELSE L1' = L1 /\ L2' = L2 /\ L3' = On
         /\ T1 # None /\ T2 = None =>
              IF L2 = None THEN L1' = On /\ L2' = L1 /\ L3' = None
              ELSE L1' = L1 /\ L2' = On /\ L3' = L2
         /\ T2 # None => L1' = On /\ L2' = L1 /\ L3' = L2
  PROVE  L3 = None /\ SendsInv' /\ Handles' /\ Lines'
<1> USE DEF None, Att, Itf, Sta, Err, Una, On, Off, DeviceSide
<1>1. L3 = None
  BY DEF Lines, LostLine, GoneLine, One, Two, Three
<1>2. SendsInv'
  BY DEF SendsInv
<1>3. Handles'
  BY <1>1 DEF Handles
<1>4. Lines'
  BY <1>1 DEF SendsInv, Lines, LostLine, GoneLine, Fresh, One, Two, Three
<1>5. QED
  BY <1>1, <1>2, <1>3, <1>4

\* The same for the power-off request of the context that could not be made.
LEMMA LinesPowerOff ==
  ASSUME SendsInv, Handles, Lines, UNCHANGED DeviceSide, T1' = T1, T2' = T2,
         pmic, Dropping, Dropping',
         ~((L1 = Off \/ L2 = Off) \/ L3 = Off),
         L3 = None =>
         /\ T1 = None =>
              IF L1 = None THEN L1' = Off /\ L2' = None /\ L3' = None
              ELSE IF L2 = None THEN L1' = L1 /\ L2' = Off /\ L3' = None
              ELSE L1' = L1 /\ L2' = L2 /\ L3' = Off
         /\ T1 # None /\ T2 = None =>
              IF L2 = None THEN L1' = Off /\ L2' = L1 /\ L3' = None
              ELSE L1' = L1 /\ L2' = Off /\ L3' = L2
         /\ T2 # None => L1' = Off /\ L2' = L1 /\ L3' = L2
  PROVE  L3 = None /\ SendsInv' /\ Handles' /\ Lines'
<1> USE DEF None, Att, Itf, Sta, Err, Una, On, Off, DeviceSide
<1>1. L3 = None
  BY DEF Lines, AwaitLine, SetupLine, One, Two, Three
<1>2. SendsInv'
  BY DEF SendsInv
<1>3. Handles'
  BY <1>1 DEF Handles
<1>4. Lines'
  BY <1>1 DEF SendsInv, Lines, AwaitLine, SetupLine, Fresh, One, Two, Three
<1>5. QED
  BY <1>1, <1>2, <1>3, <1>4

\* The steps of a client keep the line legal: only the holder of the mutex sends
\* power requests, and there is room for its one request.
LEMMA UnsettledClient ==
  ASSUME Sharing, IInv, IInv', DeviceInv, ~Settled, Unsettled,
         NEW c \in Clients, Client(c) \/ Choose(c)
  PROVE  Unsettled'
<1>1. /\ TypeOK /\ TypeOK' /\ MutexInv /\ MutexInv' /\ SharingInv /\ PowerInv
      /\ ~Live /\ DropsHeld /\ Fits /\ SendsInv /\ Handles /\ Lines
  BY DEF IInv, Unsettled
<1>2. UNCHANGED DeviceSide
  BY ClientFrame
<1>3. holds = {} /\ \A d \in Clients : pc[d] # "readTemp"
  BY <1>1 DEF Live
<1>4. Phases /\ Phases'
  <2>1. Phases'
    BY PhasesHold, PTL
  <2>2. QED
    BY <2>1, PhasesHold
<1>5. PowerSent
  BY <1>1, SentByHolder
<1>6. ASSUME queue' = queue, ~Live', DropsHeld',
             \/ (Departing' <=> Departing) /\ (Dropping' <=> Dropping)
             \/ usbInstance = NULL /\ ~Departing /\ ~Dropping /\ ~Departing' /\ Dropping'
             \/ /\ ~pmic /\ ~lost /\ L1 # Una /\ L2 # Una /\ L3 # Una
                /\ ~Departing' /\ ~Dropping'
      PROVE  Unsettled'
  <2>1. L1' = L1 /\ L2' = L2 /\ L3' = L3 /\ T1' = T1 /\ T2' = T2 /\ Fits'
    BY <1>1, <1>2, <1>6, LineSame DEF DeviceSide
  <2>2. SendsInv' /\ Handles' /\ Lines'
    BY <1>1, <1>2, <1>6, <2>1, LinesSame, LinesFailed, LinesReleased
  <2>3. QED
    BY <1>6, <2>1, <2>2 DEF Unsettled
<1> USE DEF Goto
<1>7. CASE OpenLock(c)
  <2>1. mutex = NULL /\ mutex' = c /\ pc'[c] = "openSend" /\ UNCHANGED <<queue, holds, given>>
        /\ pc' = [pc EXCEPT ![c] = "openSend"]
    BY <1>1, <1>7 DEF OpenLock, TypeOK
  <2>2. ~Live' /\ DropsHeld'
    BY <1>1, <1>3, <2>1, ClientsAssumption DEF Live, DropsHeld, TypeOK
  <2>3. /\ ~Departing /\ ~Dropping /\ ~Departing' /\ ~Dropping'
    BY <1>4, <2>1, ClientsAssumption DEF Phases
  <2>4. QED
    BY <1>6, <2>1, <2>2, <2>3
<1>8. CASE OpenPowered(c) \/ OpenFound(c)
  <2>1. /\ pc[c] \in {"openWait", "openPoll"} /\ mutex' = mutex /\ UNCHANGED <<queue, holds>>
        /\ \E l \in {"openPoll", "openInit"} : pc' = [pc EXCEPT ![c] = l]
        /\ \A d \in Clients \ {c} : d \in given' <=> d \in given
    BY <1>1, <1>8 DEF OpenPowered, OpenFound, TakeResponse, mgrVars
  <2>2. mutex = c
    BY <1>1, <2>1 DEF MutexInv, Opening
  <2>3. pc'[c] \in {"openPoll", "openInit"} /\ \A d \in Clients \ {c} : pc'[d] = pc[d]
    BY <1>1, <2>1 DEF TypeOK
  <2>4. ~Live' /\ DropsHeld'
    BY <1>1, <1>3, <2>1, <2>3 DEF Live, DropsHeld
  <2>5. ~Departing /\ ~Dropping /\ ~Departing' /\ ~Dropping'
    BY <1>4, <2>1, <2>2, <2>3 DEF Phases
  <2>6. QED
    BY <1>6, <2>1, <2>4, <2>5
<1>9. CASE OpenError(c) \/ OpenInit(c)
  <2>1. /\ pc[c] \in {"openInit", "openPoll"} /\ UNCHANGED <<queue, holds, mutex, given>>
        /\ \E l \in {"openRun", "dropSend"} :
             pc' = [pc EXCEPT ![c] = l] /\ (l = "dropSend" => usbInstance = NULL)
    BY <1>9 DEF OpenError, OpenInit
  <2>2. mutex = c
    BY <1>1, <2>1 DEF MutexInv, Opening
  <2>3. /\ pc'[c] \in {"openRun", "dropSend"} /\ \A d \in Clients \ {c} : pc'[d] = pc[d]
        /\ pc'[c] = "dropSend" => usbInstance = NULL
    BY <1>1, <2>1 DEF TypeOK
  <2>4. ~Live' /\ DropsHeld'
    BY <1>1, <1>3, <2>1, <2>2, <2>3 DEF Live, DropsHeld
  <2>5. ~Departing /\ ~Dropping /\ ~Departing' /\ (Dropping' <=> pc'[c] = "dropSend")
    BY <1>4, <2>1, <2>2, <2>3 DEF Phases
  <2>6. QED
    BY <1>6, <2>1, <2>3, <2>4, <2>5
<1>10. CASE OpenRun(c)
  <2>1. ~Usable(driverInst)
    BY <1>1 DEF DeviceInv, Usable
  <2>2. UNCHANGED <<pc, holds, mutex, queue, given>>
    BY <1>10, <2>1 DEF OpenRun
  <2>3. ~Live' /\ DropsHeld' /\ (Departing' <=> Departing) /\ (Dropping' <=> Dropping)
    BY <1>1, <2>2 DEF Live, DropsHeld, Departing, Dropping
  <2>4. QED
    BY <1>6, <2>2, <2>3
<1>11. CASE Close(c) \/ ReadTemp(c) \/ GetPower(c) \/ GetPowerSend(c) \/ GetPowerTaken(c)
  BY <1>3, <1>11 DEF Close, ReadTemp, GetPower, GetPowerSend, GetPowerTaken, SendRequest,
     TakeResponse, DeviceInv, Sharing
<1>12. CASE DropTaken(c)
  <2>1. /\ pc[c] = "dropWait" /\ c \in given /\ UNCHANGED <<queue, holds, mutex>>
        /\ pc' = [pc EXCEPT ![c] = "dropDelay"] /\ given' = given \ {c}
    BY <1>12 DEF DropTaken, TakeResponse, mgrVars
  <2>2. pc'[c] = "dropDelay" /\ \A d \in Clients \ {c} : pc'[d] = pc[d]
    BY <1>1, <2>1 DEF TypeOK
  <2>3. ~Live' /\ DropsHeld'
    BY <1>1, <1>3, <2>1, <2>2 DEF Live, DropsHeld
  <2>4. (Departing' <=> Departing) /\ (Dropping' <=> Dropping)
    <3>1. CASE mutex \in Clients
      BY <1>4, <2>1, <2>2, <3>1 DEF Phases
    <3>2. CASE mutex \notin Clients
      BY <1>4, <2>1, <3>2 DEF Phases
    <3>3. QED
      BY <3>1, <3>2
  <2>5. QED
    BY <1>6, <2>1, <2>3, <2>4
<1>13. CASE DropDone(c)
  <2>1. /\ pc[c] = "dropDelay" /\ UNCHANGED <<queue, holds, given>>
        /\ pc' = [pc EXCEPT ![c] = "idle"]
        /\ pmic \/ DetachSeen
        /\ mutex' = IF mutex = c THEN NULL ELSE mutex
    BY <1>13 DEF DropDone, Sharing
  <2>2. pc'[c] = "idle" /\ \A d \in Clients \ {c} : pc'[d] = pc[d]
    BY <1>1, <2>1 DEF TypeOK
  <2>3. ~Live' /\ DropsHeld'
    BY <1>1, <1>3, <2>1, <2>2 DEF Live, DropsHeld
  <2>4. CASE mutex = c
    <3>1. mutex \notin Contexts
      BY <1>1, <2>1, <2>4, ClientsAssumption DEF Contexts, PowerInv
    <3>2. ~pmic
      BY <1>1, <3>1, PoweredForHolder
    <3>3. ~lost /\ L1 # Una /\ L2 # Una /\ L3 # Una
      BY <1>1, <2>1, <3>2, NoneUnattached DEF DetachSeen
    <3>4. ~Departing' /\ ~Dropping'
      BY <1>4, <2>1, <2>4, ClientsAssumption DEF Phases
    <3>5. QED
      BY <1>6, <2>1, <2>3, <3>2, <3>3, <3>4
  <2>5. CASE mutex # c
    <3>1. (Departing' <=> Departing) /\ (Dropping' <=> Dropping)
      <4>1. CASE mutex \in Clients
        BY <1>4, <2>1, <2>2, <2>5, <4>1 DEF Phases
      <4>2. CASE mutex \notin Clients
        BY <1>4, <2>1, <2>5, <4>2 DEF Phases
      <4>3. QED
        BY <4>1, <4>2
    <3>2. QED
      BY <1>6, <2>1, <2>3, <3>1
  <2>6. QED
    BY <2>4, <2>5
<1>14. CASE (TempLock(c) \/ InvokeLock(c)) \/ InvokeDone(c)
  <2>1. /\ pc[c] \in {"tempLock", "invokeLock", "invoke"} /\ UNCHANGED <<queue, holds, given>>
        /\ \E l \in {"idle", "invoke"} : pc' = [pc EXCEPT ![c] = l]
        /\ mutex = NULL \/ mutex = c
        /\ mutex' = NULL \/ mutex' = c
    BY <1>1, <1>14 DEF TempLock, InvokeLock, InvokeDone, MutexInv
  <2>2. pc'[c] \in {"idle", "invoke"} /\ \A d \in Clients \ {c} : pc'[d] = pc[d]
    BY <1>1, <2>1 DEF TypeOK
  <2>3. ~Live' /\ DropsHeld'
    BY <1>1, <1>3, <2>1, <2>2, ClientsAssumption DEF Live, DropsHeld
  <2>4. /\ ~Departing /\ ~Dropping /\ ~Departing' /\ ~Dropping'
    BY <1>4, <2>1, <2>2, ClientsAssumption DEF Phases
  <2>5. QED
    BY <1>6, <2>1, <2>3, <2>4
<1>15. CASE (OpenDevice(c) \/ GetTemperature(c)) \/ Invoke(c)
  <2>1. /\ pc[c] = "idle" /\ UNCHANGED <<queue, holds, given, mutex>>
        /\ \E l \in {"openLock", "tempLock", "invokeLock"} : pc' = [pc EXCEPT ![c] = l]
    BY <1>15 DEF OpenDevice, GetTemperature, Invoke, Call, mgrVars
  <2>2. /\ pc'[c] \in {"openLock", "tempLock", "invokeLock"}
        /\ \A d \in Clients \ {c} : pc'[d] = pc[d]
    BY <1>1, <2>1 DEF TypeOK
  <2>3. ~Live' /\ DropsHeld'
    BY <1>1, <1>3, <2>1, <2>2 DEF Live, DropsHeld
  <2>4. (Departing' <=> Departing) /\ (Dropping' <=> Dropping)
    <3>1. CASE mutex \in Clients
      BY <1>4, <2>1, <2>2, <3>1 DEF Phases
    <3>2. CASE mutex \notin Clients
      BY <1>4, <2>1, <3>2 DEF Phases
    <3>3. QED
      BY <3>1, <3>2
  <2>5. QED
    BY <1>6, <2>1, <2>3, <2>4
<1>16. CASE OpenSend(c)
  <2>1. /\ pc[c] = "openSend" /\ UNCHANGED <<holds, given, mutex>>
        /\ pc' = [pc EXCEPT ![c] = "openWait"]
        /\ Enqueue([type |-> On, from |-> c])
    BY <1>16 DEF OpenSend, SendRequest, mgrVars, On
  <2>2. mutex = c
    BY <1>1, <2>1 DEF MutexInv, Opening
  <2>3. pc'[c] = "openWait" /\ \A d \in Clients \ {c} : pc'[d] = pc[d]
    BY <1>1, <2>1 DEF TypeOK
  <2>4. ~Live' /\ DropsHeld'
    BY <1>1, <1>3, <2>1, <2>3 DEF Live, DropsHeld
  <2>5. mutex \notin Contexts
    BY <1>1, <2>1, <2>2, ClientsAssumption DEF Contexts, PowerInv
  <2>6. ~pmic
    BY <1>1, <2>5, PoweredForHolder
  <2>7. ~Departing /\ ~Departing'
    <3>1. c \notin given
      BY <1>1, <2>1 DEF IInv, QueueInv
    <3>2. QED
      BY <1>4, <2>1, <2>2, <2>3, <3>1 DEF Phases
  <2>8. ~((L1 = On \/ L2 = On) \/ L3 = On)
    BY <1>1, <1>5, <2>1, <2>2, LettersQueued DEF Asking
  <2>9. [type |-> On, from |-> c] \in Request /\ [type |-> On, from |-> c].type = On
    BY RequestTypes DEF On, PowerRequests
  <2>10. toSend' = toSend /\ Len(toSend) <= 2
    BY <1>1, <1>2 DEF DeviceSide, SendsInv
  <2>11. T1' = T1 /\ T2' = T2
    BY <2>10 DEF T1, T2
  <2>12. L3 = None /\ SendsInv' /\ Handles' /\ Lines'
    BY <1>1, <1>2, <2>1, <2>6, <2>7, <2>8, <2>9, <2>10, <2>11, LineEnqueue, LinesPowerOn
  <2>13. Fits'
    BY <1>1, <2>1, <2>9, <2>10, <2>12, LineEnqueue
  <2>14. QED
    BY <2>4, <2>12, <2>13 DEF Unsettled
<1>17. CASE DropSend(c)
  <2>1. /\ pc[c] = "dropSend" /\ UNCHANGED <<holds, given, mutex>>
        /\ pc' = [pc EXCEPT ![c] = "dropWait"]
        /\ Enqueue([type |-> Off, from |-> c])
    BY <1>17 DEF DropSend, SendRequest, mgrVars, Off
  <2>2. mutex = c
    BY <1>1, <2>1 DEF DropsHeld
  <2>3. pc'[c] = "dropWait" /\ \A d \in Clients \ {c} : pc'[d] = pc[d]
    BY <1>1, <2>1 DEF TypeOK
  <2>4. ~Live' /\ DropsHeld'
    BY <1>1, <1>3, <2>1, <2>2, <2>3 DEF Live, DropsHeld
  <2>5. mutex \in Contexts
    BY <2>1, <2>2 DEF Contexts
  <2>6. pmic
    BY <2>5, PoweredIfHolder
  <2>7. Dropping /\ Dropping'
    <3>1. c \notin given
      BY <1>1, <2>1 DEF IInv, QueueInv
    <3>2. QED
      BY <1>4, <2>1, <2>2, <2>3, <3>1 DEF Phases
  <2>8. ~((L1 = Off \/ L2 = Off) \/ L3 = Off)
    BY <1>1, <1>5, <2>1, <2>2, LettersQueued
  <2>9. [type |-> Off, from |-> c] \in Request /\ [type |-> Off, from |-> c].type = Off
    BY RequestTypes DEF Off, PowerRequests
  <2>10. toSend' = toSend /\ Len(toSend) <= 2
    BY <1>1, <1>2 DEF DeviceSide, SendsInv
  <2>11. T1' = T1 /\ T2' = T2
    BY <2>10 DEF T1, T2
  <2>12. L3 = None /\ SendsInv' /\ Handles' /\ Lines'
    BY <1>1, <1>2, <2>1, <2>6, <2>7, <2>8, <2>9, <2>10, <2>11, LineEnqueue, LinesPowerOff
  <2>13. Fits'
    BY <1>1, <2>1, <2>9, <2>10, <2>12, LineEnqueue
  <2>14. QED
    BY <2>4, <2>12, <2>13 DEF Unsettled
<1>18. QED
  BY <1>7, <1>8, <1>9, <1>10, <1>11, <1>12, <1>13, <1>14, <1>15, <1>16, <1>17
     DEF Client, Choose

\* The line after the power-on request that is its head: the device was off.
LEMMA LinesOn ==
  ASSUME SendsInv, Handles, Lines, Shifted, L1 = On, ~toNotify,
         UNCHANGED <<lost, port, usbInstance, classHandle, deviceHandle, toNotify, toSend>>,
         T1' = None, pmic', ~pmic => lost \/ port = "none", ~Departing, ~Dropping, ~Departing', ~Dropping'
  PROVE  ~pmic /\ SendsInv' /\ Handles' /\ Lines'
<1> USE DEF None, Att, Itf, Sta, Err, Una, On, Off, Shifted
<1>1. ~pmic
  BY DEF Lines, AwaitLine, SetupLine, One, Two, Three
<1>2. SendsInv' /\ Handles'
  BY DEF SendsInv, Handles
<1>3. Lines'
  BY <1>1 DEF Lines, LostLine, GoneLine, AwaitLine, SetupLine, Fresh, One, Two, Three
<1>4. QED
  BY <1>1, <1>2, <1>3

\* The line after the power-off request of the only context.
LEMMA LinesOff ==
  ASSUME SendsInv, Handles, Lines, Shifted, L1 = Off, ~toNotify, pmic, ~pmic',
         UNCHANGED <<port, usbInstance, classHandle, deviceHandle, toNotify, toSend>>,
         lost' <=> port # "none", port \in {"none", "attached", "enumerated"},
         port = "attached" => classHandle # deviceHandle,
         T1' = None, Dropping, Departing', ~Dropping'
  PROVE  SendsInv' /\ Handles' /\ Lines'
<1> USE DEF None, Att, Itf, Sta, Err, Una, On, Off, Shifted
<1>1. SendsInv' /\ Handles'
  BY DEF SendsInv, Handles
<1>2. Lines'
  BY DEF Lines, LostLine, GoneLine, AwaitLine, SetupLine, Fresh, One, Two, Three
<1>3. QED
  BY <1>1, <1>2

\* The line after Unattached, which forgets the device.
LEMMA LinesUnattached ==
  ASSUME SendsInv, Handles, Lines, Shifted, L1 = Una, ~toNotify, usbInstance' = NULL,
         UNCHANGED <<pmic, lost, port, classHandle, deviceHandle, toNotify, toSend>>,
         T1' = None, Departing' <=> Departing, Dropping' <=> Dropping
  PROVE  SendsInv' /\ Handles' /\ Lines'
<1> USE DEF None, Att, Itf, Sta, Err, Una, On, Off, Shifted
<1>1. SendsInv' /\ Handles'
  BY DEF SendsInv, Handles
<1>2. Lines'
  BY DEF Lines, LostLine, GoneLine, AwaitLine, SetupLine, Fresh, One, Two, Three
<1>3. QED
  BY <1>1, <1>2

\* The line after Attached: SetInterface is its new end.
LEMMA LinesAttached ==
  ASSUME SendsInv, Handles, Lines, Shifted, L1 = Att, ~toNotify, classHandle' = deviceHandle,
         UNCHANGED <<pmic, lost, port, usbInstance, deviceHandle, toNotify>>,
         T1' = Itf, T2' = None, Len(toSend') <= 2, ~pmic => lost \/ port = "none",
         Departing' <=> Departing, Dropping' <=> Dropping
  PROVE  SendsInv' /\ Handles' /\ Lines' /\ port # "attached"
<1> USE DEF None, Att, Itf, Sta, Err, Una, On, Off, Shifted
<1>1. SendsInv' /\ Handles'
  BY DEF SendsInv, Handles
<1>2. port # "attached"
  BY DEF Lines, LostLine, GoneLine, AwaitLine, SetupLine, Fresh, One, Two, Three
<1>3. Lines'
  BY <1>2, SMTT(60) DEF Lines, LostLine, GoneLine, AwaitLine, SetupLine, Fresh, One, Two, Three
<1>4. QED
  BY <1>1, <1>2, <1>3

\* The line after SetInterface: GetStatus is its new end, or the errors of an
\* instance that is gone.
LEMMA LinesSetInterface ==
  ASSUME SendsInv, Handles, Lines, Shifted, L1 = Itf, ~toNotify, toNotify',
         UNCHANGED <<pmic, lost, port, usbInstance, classHandle, deviceHandle>>,
         \/ T1' = Sta /\ T2' = None
         \/ T1' = Err /\ T2' \in {None, Err} /\ ~Usable(classHandle),
         Len(toSend') <= 2,
         port = "enumerated" /\ ~lost /\ classHandle = deviceHandle => Usable(classHandle),
         Departing' <=> Departing, Dropping' <=> Dropping
  PROVE  Fits' /\ SendsInv' /\ Handles' /\ Lines'
<1> USE DEF None, Att, Itf, Sta, Err, Una, On, Off, Shifted
<1>1. T2' # None => L3 = None
  BY DEF Lines, LostLine, GoneLine, AwaitLine, SetupLine, Fresh, One, Two, Three
<1>2. Fits'
  BY <1>1
<1>3. SendsInv' /\ Handles'
  BY <1>1 DEF SendsInv, Handles
<1>4. Lines'
  BY <1>1 DEF Lines, LostLine, GoneLine, AwaitLine, SetupLine, Fresh, One, Two, Three
<1>5. QED
  BY <1>2, <1>3, <1>4

\* The line after GetStatus, which may leave an error to send.
LEMMA LinesGetStatus ==
  ASSUME SendsInv, Handles, Lines, Shifted, L1 = Sta, ~toNotify,
         UNCHANGED <<pmic, lost, port, usbInstance, classHandle, deviceHandle, toNotify>>,
         T1' \in {None, Err}, T2' = None, Len(toSend') <= 2,
         Departing' <=> Departing, Dropping' <=> Dropping
  PROVE  SendsInv' /\ Handles' /\ Lines'
<1> USE DEF None, Att, Itf, Sta, Err, Una, On, Off, Shifted
<1>1. SendsInv' /\ Handles'
  BY DEF SendsInv, Handles
<1>2. ~pmic /\ lost => LostLine'
  BY DEF Lines, LostLine, Fresh, One, Two, Three
<1>3. ~pmic /\ ~lost => GoneLine'
  BY DEF Lines, GoneLine, Fresh, One, Two, Three
<1>4. ~pmic /\ ~lost /\ Fresh => T1' = None \/ One(Err)' \/ Two(On, Err)'
  BY DEF Lines, GoneLine, Fresh, One, Two, Three
<1>5. Lines'
  BY <1>2, <1>3, <1>4 DEF Lines, AwaitLine, SetupLine, Fresh, One, Two, Three
<1>6. QED
  BY <1>1, <1>5

\* The line after an error, which changes nothing.
LEMMA LinesError ==
  ASSUME SendsInv, Handles, Lines, Shifted, L1 \in {Err, "EnumerationFailed"}, ~toNotify,
         UNCHANGED <<pmic, lost, port, usbInstance, classHandle, deviceHandle, toNotify, toSend>>,
         T1' = None, Departing' <=> Departing, Dropping' <=> Dropping
  PROVE  SendsInv' /\ Handles' /\ Lines'
<1> USE DEF None, Att, Itf, Sta, Err, Una, On, Off, Shifted
<1>1. SendsInv' /\ Handles'
  BY DEF SendsInv, Handles
<1>2. Lines'
  BY DEF Lines, LostLine, GoneLine, AwaitLine, SetupLine, Fresh, One, Two, Three
<1>3. QED
  BY <1>1, <1>2

\* SetNextState moves no letter of the line.
LEMMA LinesSelfSend ==
  ASSUME SendsInv, Handles, Lines, L1' = L1, L2' = L2, L3' = L3, T1' = T2, T2' = None,
         Len(toSend') <= 2,
         UNCHANGED <<pmic, lost, port, usbInstance, classHandle, deviceHandle, toNotify>>,
         Departing' <=> Departing, Dropping' <=> Dropping
  PROVE  SendsInv' /\ Handles' /\ Lines'
<1> USE DEF None, Att, Itf, Sta, Err, Una, On, Off
<1>1. SendsInv' /\ Handles'
  BY DEF SendsInv, Handles
<1>2. Lines'
  BY DEF SendsInv, Lines, LostLine, GoneLine, AwaitLine, SetupLine, Fresh, One, Two, Three
<1>3. QED
  BY <1>1, <1>2

\* NotifyConnected of a device that is not there any more.
LEMMA LinesNotify ==
  ASSUME SendsInv, Handles, Lines, L1' = L1, L2' = L2, L3' = L3, T1' = None, T2' = None,
         toNotify, ~toNotify', usbInstance' = classHandle, T1 = None,
         UNCHANGED <<pmic, lost, port, classHandle, deviceHandle, toSend>>,
         ~pmic => lost \/ port = "none",
         ~((port = "enumerated" /\ ~lost) /\ classHandle = deviceHandle),
         Departing' <=> Departing, Dropping' <=> Dropping
  PROVE  SendsInv' /\ Handles' /\ Lines'
<1> USE DEF None, Att, Itf, Sta, Err, Una, On, Off
<1>1. SendsInv' /\ Handles'
  BY DEF SendsInv, Handles
<1>2. Lines'
  BY DEF Handles, Lines, LostLine, GoneLine, AwaitLine, SetupLine, Fresh, One, Two, Three
<1>3. QED
  BY <1>1, <1>2

\* Where a state that the USB host enqueues comes in the line.
Inserted(x) ==
  /\ T1 = None =>
       IF L1 = None THEN L1' = x /\ L2' = None /\ L3' = None
       ELSE IF L2 = None THEN L1' = L1 /\ L2' = x /\ L3' = None
       ELSE L1' = L1 /\ L2' = L2 /\ L3' = x
  /\ T1 # None /\ T2 = None =>
       IF L2 = None THEN L1' = x /\ L2' = L1 /\ L3' = None
       ELSE L1' = L1 /\ L2' = x /\ L3' = L2
  /\ T2 # None => L1' = x /\ L2' = L1 /\ L3' = L2

\* Enumeration puts Attached into the line, and there is room for it.
LEMMA LinesEnumerated ==
  ASSUME SendsInv, Handles, Lines, L3 = None => Inserted(Att), T1' = T1, T2' = T2,
         port = "attached", port' = "enumerated", classHandle # deviceHandle,
         deviceHandle # NULL, ~pmic => lost \/ port = "none",
         UNCHANGED <<pmic, lost, usbInstance, classHandle, deviceHandle, toNotify, toSend>>,
         Departing' <=> Departing, Dropping' <=> Dropping
  PROVE  L3 = None /\ SendsInv' /\ Handles' /\ Lines'
<1> USE DEF None, Att, Itf, Sta, Err, Una, On, Off
<1>1. L3 = None
  BY DEF Lines, LostLine, AwaitLine, One, Two, Three
<1>2. SendsInv' /\ Handles'
  BY <1>1 DEF SendsInv, Handles, Inserted
<1>3. Lines'
  BY <1>1 DEF SendsInv, Lines, LostLine, AwaitLine, Fresh, One, Two, Three, Inserted
<1>4. QED
  BY <1>1, <1>2, <1>3

\* What the handler has still to send is the end of the line.
SendsEnd ==
  /\ T1 # None /\ T2 = None =>
       /\ L3 # None => L3 = T1
       /\ L3 = None /\ L2 # None => L2 = T1
       /\ L2 = None => L1 = T1
  /\ T2 # None =>
       /\ L3 # None => L2 = T1 /\ L3 = T2
       /\ L3 = None => L1 = T1 /\ L2 = T2

\* What the handler has still to send is the end of the line.
LEMMA LineEnd ==
  ASSUME TypeOK, Fits, Len(toSend) <= 2
  PROVE  SendsEnd
<1>1. PICK n \in Nat, m \in Nat : n = Len(queue) /\ m = Len(toSend)
  BY LenProperties DEF TypeOK
<1>2. n + m <= 3 /\ m <= 2
  BY <1>1 DEF Fits
<1>3. /\ L1 = IF 1 <= n THEN queue[1].type ELSE IF 1 <= n + m THEN toSend[1 - n] ELSE None
      /\ L2 = IF 2 <= n THEN queue[2].type ELSE IF 2 <= n + m THEN toSend[2 - n] ELSE None
      /\ L3 = IF 3 <= n THEN queue[3].type ELSE IF 3 <= n + m THEN toSend[3 - n] ELSE None
      /\ T1 = IF 1 <= m THEN toSend[1] ELSE None
      /\ T2 = IF 2 <= m THEN toSend[2] ELSE None
      /\ \A i \in 1..n : queue[i].type # None
      /\ \A i \in 1..m : toSend[i] # None
  BY <1>1, Letters DEF Placed
<1>4. /\ 1 <= n => queue[1].type # None
      /\ 2 <= n => queue[2].type # None
      /\ 1 <= m => toSend[1] # None
      /\ 2 <= m => toSend[2] # None
  BY <1>3
<1>5. (m = 0 \/ m = 1) \/ m = 2
  BY <1>2
<1>6. ((n = 0 \/ n = 1) \/ n = 2) \/ n = 3
  BY <1>2
<1>7. CASE m = 0
  BY <1>3, <1>7 DEF SendsEnd
<1>8. CASE m = 1
  <2>1. T1 = toSend[1] /\ T2 = None
    BY <1>3, <1>8
  <2>2. CASE n = 0
    BY <1>3, <1>4, <1>8, <2>1, <2>2 DEF SendsEnd
  <2>3. CASE n = 1
    BY <1>3, <1>4, <1>8, <2>1, <2>3 DEF SendsEnd
  <2>4. CASE n = 2
    BY <1>3, <1>4, <1>8, <2>1, <2>4 DEF SendsEnd
  <2>5. QED
    BY <1>2, <1>6, <1>8, <2>2, <2>3, <2>4
<1>9. CASE m = 2
  <2>1. T1 = toSend[1] /\ T2 = toSend[2] /\ T2 # None
    BY <1>3, <1>4, <1>9
  <2>2. CASE n = 0
    BY <1>3, <1>4, <1>9, <2>1, <2>2 DEF SendsEnd
  <2>3. CASE n = 1
    BY <1>3, <1>4, <1>9, <2>1, <2>3 DEF SendsEnd
  <2>4. QED
    BY <1>2, <1>6, <1>9, <2>2, <2>3
<1>10. QED
  BY <1>5, <1>7, <1>8, <1>9

\* The detach puts Unattached into the line, and there is room for it.
LEMMA LinesDetached ==
  ASSUME SendsInv, SendsEnd, Handles, Lines, L3 = None => Inserted(Una), T1' = T1, T2' = T2,
         port = "enumerated", port' = "none", lost, ~lost',
         UNCHANGED <<pmic, usbInstance, classHandle, deviceHandle, toNotify, toSend>>,
         Departing' <=> Departing, Dropping' <=> Dropping
  PROVE  L3 = None /\ SendsInv' /\ Handles' /\ Lines'
<1> USE DEF None, Att, Itf, Sta, Err, Una, On, Off
<1>1. L3 = None
  BY DEF Lines, LostLine, One, Two, Three
<1>2. SendsInv' /\ Handles'
  BY <1>1 DEF SendsInv, Handles, Inserted
<1>3. Lines'
  BY <1>1 DEF SendsInv, Lines, LostLine, GoneLine, AwaitLine, Fresh, One, Two, Three, Inserted, SendsEnd
<1>4. QED
  BY <1>1, <1>2, <1>3

\* A device that is attached has not reached the line yet.
LEMMA LinesArrived ==
  ASSUME SendsInv, Handles, Lines, UNCHANGED <<queue, toSend>>,
         port = "none", port' = "attached", pmic, ~lost, deviceHandle' # NULL,
         UNCHANGED <<pmic, lost, usbInstance, classHandle, toNotify>>,
         Departing' <=> Departing, Dropping' <=> Dropping
  PROVE  SendsInv' /\ Handles' /\ Lines'
<1>1. L1' = L1 /\ L2' = L2 /\ L3' = L3 /\ T1' = T1 /\ T2' = T2
  BY LineSame
<1>2. SendsInv' /\ Handles'
  BY <1>1 DEF SendsInv, Handles
<1>3. Lines'
  BY <1>1 DEF Lines, AwaitLine, Fresh, One, Two, Three
<1>4. QED
  BY <1>2, <1>3

\* The queue of a settled device, from the letters of the line.
LEMMA QueueSettled ==
  ASSUME TypeOK, Fits, toSend = <<>>, (One(Sta) \/ Two(Sta, Off)) \/ Two(Off, Sta)
  PROVE  /\ \A i \in 1..Len(queue) : queue[i].type \in {Sta, On, Off}
         /\ \A i, j \in 1..Len(queue) : queue[i].type = Sta /\ queue[j].type = Sta => i = j
<1>1. PICK n \in Nat, m \in Nat : n = Len(queue) /\ m = 0
  BY LenProperties DEF TypeOK
<1>2. m = Len(toSend)
  BY <1>1
<1>3. n <= 3
  BY <1>1, <1>2 DEF Fits
<1>4. /\ L1 = IF 1 <= n THEN queue[1].type ELSE None
      /\ L2 = IF 2 <= n THEN queue[2].type ELSE None
      /\ L3 = IF 3 <= n THEN queue[3].type ELSE None
      /\ \A i \in 1..n : queue[i].type # None
  <2>1. \A i : ~(i <= n) => ~(i <= n + m) \/ i \notin {1, 2, 3}
    BY <1>1
  <2>2. QED
    BY <1>1, <1>2, <2>1, Letters DEF Placed
<1>5. L3 = None /\ Sta # None /\ Off # None /\ Sta # Off
  BY DEF One, Two, Sta, Off, None
<1>6. ~(3 <= n)
  <2>1. 3 <= n => 3 \in 1..n
    OBVIOUS
  <2>2. QED
    BY <1>4, <1>5, <2>1
<1>7. (n = 0 \/ n = 1) \/ n = 2
  BY <1>3, <1>6
<1>8. QED
  BY <1>1, <1>4, <1>5, <1>7 DEF One, Two

\* Once the manager is notified of the device that is attached, the device is settled.
LEMMA NotifySettles ==
  ASSUME TypeOK, DeviceInv, Unsettled, NotifyConnected,
         port # "none", ~lost, classHandle = deviceHandle
  PROVE  Settled'
<1>1. /\ toSend = <<>> /\ toNotify /\ ~toNotify' /\ usbInstance' = classHandle
      /\ UNCHANGED <<lost, port, classHandle, deviceHandle, toSend, queue>>
  BY DEF NotifyConnected, usbVars
<1>2. port = "enumerated" /\ pmic
  BY DEF TypeOK, DeviceInv
<1>3. (One(Sta) \/ Two(Sta, Off)) \/ Two(Off, Sta)
  BY <1>1, <1>2 DEF Unsettled, Lines, SetupLine
<1>4. /\ \A i \in 1..Len(queue) : queue[i].type \in {Sta, On, Off}
      /\ \A i, j \in 1..Len(queue) : queue[i].type = Sta /\ queue[j].type = Sta => i = j
  BY <1>1, <1>3, QueueSettled DEF Unsettled
<1>5. QED
  BY <1>1, <1>2, <1>4 DEF Settled

\* The handler has nothing left to send or to notify when it receives.
LEMMA UnsettledTask ==
  ASSUME Sharing, IInv, IInv', DeviceInv, ~Settled, Unsettled, Task
  PROVE  Settled' \/ Unsettled'
<1>1. /\ TypeOK /\ TypeOK' /\ QueueInv /\ MutexInv /\ PowerInv
      /\ ~Live /\ DropsHeld /\ Fits /\ SendsInv /\ Handles /\ Lines
  BY DEF IInv, Unsettled
<1>2. pc' = pc /\ holds' = holds /\ mutex' = mutex
  BY EnvironmentFrame
<1>3. ~Live'
  BY <1>1, <1>2 DEF Live
<1>4. ASSUME given \subseteq given' PROVE DropsHeld'
  BY <1>1, <1>2, <1>4 DEF DropsHeld
<1>5. ASSUME given' = given PROVE (Departing' <=> Departing) /\ (Dropping' <=> Dropping)
  BY <1>2, <1>5 DEF Departing, Dropping
<1>6. Phases /\ Phases'
  <2>1. Phases'
    BY PhasesHold, PTL
  <2>2. QED
    BY <2>1, PhasesHold
<1>7. PowerSent
  BY <1>1, SentByHolder
<1>8. toSend \in Seq(NextStates) /\ Len(toSend) <= 2
  BY <1>1 DEF TypeOK, SendsInv
<1>9. ASSUME NEW t, Receive(t), Len(toSend') <= 2
      PROVE  L1 = t /\ Shifted /\ ~toNotify /\ powering = NULL /\ toSend = <<>>
  BY <1>1, <1>9, LineReceive DEF Receive, TaskIdle
<1>10. ASSUME Receive("GetPower") PROVE FALSE
  <2>1. Len(queue) \in Nat /\ Len(queue) > 0 /\ queue[1].type = "GetPower"
    BY <1>1, <1>10, HeadTailProperties, EmptySeq DEF Receive, TypeOK
  <2>2. 1 \in 1..Len(queue)
    BY <2>1
  <2>3. QED
    BY <1>7, <2>1, <2>2 DEF PowerSent
<1>11. CASE HandlePowerOn
  <2>1. Receive(On) /\ toSend' = toSend
    BY <1>11 DEF HandlePowerOn, On
  <2>2. L1 = On /\ Shifted /\ ~toNotify /\ powering = NULL /\ toSend = <<>>
    BY <1>8, <1>9, <2>1
  <2>3. Asking
    BY <1>1, <1>7, <2>2, LettersQueued
  <2>4. ~Departing /\ ~Dropping
    BY <1>6, <2>3 DEF Phases, Asking
  <2>5. mutex \notin Contexts
    BY <1>1, <2>2, <2>3, ClientsAssumption DEF Asking, Contexts
  <2>6. enabledCount = 0
    BY <1>1, <2>5, PoweredForHolder
  <2>7. /\ pmic' /\ given' = given
        /\ UNCHANGED <<lost, port, usbInstance, classHandle, deviceHandle, toNotify, toSend>>
    BY <1>11, <2>6 DEF HandlePowerOn, mgrVars, usbVars
  <2>8. ~Departing' /\ ~Dropping' /\ DropsHeld'
    BY <1>4, <1>5, <2>4, <2>7
  <2>9. T1' = None
    BY <2>2, <2>7 DEF T1
  <2>10. SendsInv' /\ Handles' /\ Lines'
    BY <1>1, <2>2, <2>4, <2>7, <2>8, <2>9, LinesOn DEF DeviceInv
  <2>11. QED
    BY <1>3, <2>2, <2>8, <2>9, <2>10 DEF Unsettled, Shifted
<1>12. CASE PowerGood
  <2>1. /\ given' = given \cup {powering} /\ UNCHANGED <<queue, toSend>> /\ UNCHANGED DeviceSide
        /\ powering # NULL
    BY <1>12 DEF PowerGood, mgrVars, usbVars, DeviceSide
  <2>2. pc[powering] = "openWait"
    BY <1>1, <2>1 DEF PowerInv
  <2>3. (Departing' <=> Departing) /\ (Dropping' <=> Dropping)
    BY <1>2, <2>1, <2>2 DEF Departing, Dropping
  <2>4. L1' = L1 /\ L2' = L2 /\ L3' = L3 /\ T1' = T1 /\ T2' = T2 /\ Fits'
    BY <1>1, <2>1, LineSame
  <2>5. SendsInv' /\ Handles' /\ Lines'
    BY <1>1, <2>1, <2>3, <2>4, LinesSame
  <2>6. DropsHeld'
    BY <1>4, <2>1
  <2>7. QED
    BY <1>3, <2>4, <2>5, <2>6 DEF Unsettled
<1>13. CASE HandlePowerOff
  <2>1. Receive(Off) /\ toSend' = toSend
    BY <1>13 DEF HandlePowerOff, Off
  <2>2. L1 = Off /\ Shifted /\ ~toNotify /\ powering = NULL /\ toSend = <<>>
    BY <1>8, <1>9, <2>1
  <2>3. PICK c \in Clients : mutex = c /\ pc[c] = "dropWait" /\ c \notin given
    BY <1>1, <1>7, <2>2, LettersQueued
  <2>4. Requester = c
    <3>1. Len(queue) \in Nat /\ Len(queue) > 0 /\ queue[1].type = Off /\ Requester = queue[1].from
      BY <1>1, <2>1, HeadTailProperties, EmptySeq DEF Receive, TypeOK, Requester
    <3>2. 1 \in 1..Len(queue) /\ queue[1] \in Request
      BY <1>1, <3>1, ElementOfSeq DEF TypeOK
    <3>3. queue[1].type \in PowerRequests
      BY <3>1 DEF Off, PowerRequests
    <3>4. /\ pc[queue[1].from] = "dropWait" /\ queue[1].from \notin given
          /\ queue[1].from \in Clients
      BY <1>1, <3>1, <3>2, <3>3, RequestTypes DEF QueueInv, AwaitedBy, Off
    <3>5. QED
      BY <1>1, <2>3, <3>1, <3>4 DEF DropsHeld
  <2>5. /\ given' = given \cup {c}
        /\ UNCHANGED <<port, usbInstance, classHandle, deviceHandle, toNotify, toSend>>
    BY <1>13, <2>4 DEF HandlePowerOff, mgrVars
  <2>6. Departing' /\ ~Dropping' /\ Dropping
    BY <1>2, <1>6, <2>3, <2>5 DEF Phases
  <2>7. DropsHeld'
    BY <1>4, <2>5
  <2>8. pmic
    <3>1. mutex \in Contexts
      BY <2>3 DEF Contexts
    <3>2. QED
      BY <3>1, PoweredIfHolder
  <2>9. enabledCount' = 0
    <3>1. (mutex \notin Contexts)'
      BY <1>2, <2>3, <2>5, ClientsAssumption DEF Contexts
    <3>2. (IInv /\ ~Live /\ DropsHeld /\ mutex \notin Contexts => ~pmic /\ enabledCount = 0)'
      BY PoweredForHolder, PTL
    <3>3. QED
      BY <1>3, <2>7, <3>1, <3>2
  <2>10. ~pmic' /\ (lost' <=> port # "none")
    <3>1. ~(enabledCount' > 0)
      BY <2>9
    <3>2. pmic' = FALSE /\ lost' = (port # "none")
      BY <1>13, <3>1, Zenon DEF HandlePowerOff
    <3>3. QED
      BY <3>2
  <2>11. T1' = None
    BY <2>2, <2>5 DEF T1
  <2>12. port \in {"none", "attached", "enumerated"}
    BY <1>1 DEF TypeOK, DeviceInv
  <2>13. SendsInv' /\ Handles' /\ Lines'
    BY <1>1, <2>2, <2>5, <2>6, <2>8, <2>10, <2>11, <2>12, LinesOff DEF DeviceInv
  <2>14. QED
    BY <1>3, <2>2, <2>7, <2>11, <2>13 DEF Unsettled, Shifted
<1>14. CASE HandleGetPower
  BY <1>10, <1>14 DEF HandleGetPower
<1>15. CASE HandleUnattached
  <2>1. /\ Receive(Una) /\ toSend' = toSend /\ given' = given /\ usbInstance' = NULL
        /\ UNCHANGED <<pmic, lost, port, classHandle, deviceHandle, toNotify, toSend>>
    BY <1>15 DEF HandleUnattached, Una, taskVars, usbVars
  <2>2. L1 = Una /\ Shifted /\ ~toNotify /\ powering = NULL /\ toSend = <<>>
    BY <1>8, <1>9, <2>1
  <2>3. T1' = None
    BY <2>1, <2>2 DEF T1
  <2>4. SendsInv' /\ Handles' /\ Lines'
    BY <1>1, <1>5, <2>1, <2>2, <2>3, LinesUnattached
  <2>5. QED
    BY <1>3, <1>4, <2>1, <2>2, <2>3, <2>4 DEF Unsettled, Shifted
<1>16. CASE HandleAttached
  <2>1. /\ Receive(Att) /\ given' = given /\ classHandle' = deviceHandle /\ toSend' = <<Itf>>
        /\ UNCHANGED <<pmic, lost, port, usbInstance, deviceHandle, toNotify>>
    BY <1>16 DEF HandleAttached, Att, Itf, mgrVars, Sharing, Fault
  <2>2. Len(toSend') = 1 /\ toSend'[1] = Itf
    BY <2>1
  <2>3. L1 = Att /\ Shifted /\ ~toNotify /\ powering = NULL /\ toSend = <<>>
    BY <1>9, <2>1, <2>2
  <2>4. T1' = Itf /\ T2' = None /\ Itf # None
    BY <2>2 DEF T1, T2, Itf, None
  <2>5. SendsInv' /\ Handles' /\ Lines'
    BY <1>1, <1>5, <2>1, <2>2, <2>3, <2>4, LinesAttached DEF DeviceInv
  <2>6. QED
    BY <1>3, <1>4, <2>1, <2>3, <2>4, <2>5 DEF Unsettled, Shifted
<1>17. CASE HandleSetInterface
  <2>1. /\ Receive(Itf) /\ given' = given /\ toNotify'
        /\ \/ toSend' = <<Sta>>
           \/ toSend' = <<Err>> /\ ~Usable(classHandle)
           \/ toSend' = <<Err, Err>> /\ ~Usable(classHandle)
        /\ UNCHANGED <<pmic, lost, port, usbInstance, classHandle, deviceHandle>>
    BY <1>17 DEF HandleSetInterface, Sta, Itf, Err, mgrVars, usbVars, Sharing, Fault
  <2>2. /\ Len(toSend') <= 2
        /\ \/ T1' = Sta /\ T2' = None
           \/ T1' = Err /\ T2' \in {None, Err} /\ ~Usable(classHandle)
    <3>1. CASE toSend' = <<Sta>>
      BY <3>1 DEF T1, T2
    <3>2. CASE toSend' = <<Err>> /\ ~Usable(classHandle)
      <4>1. Len(toSend') = 1 /\ toSend'[1] = Err
        BY <3>2
      <4>2. QED
        BY <3>2, <4>1 DEF T1, T2
    <3>3. CASE toSend' = <<Err, Err>> /\ ~Usable(classHandle)
      <4>1. Len(toSend') = 2 /\ toSend'[1] = Err /\ toSend'[2] = Err
        BY <3>3
      <4>2. QED
        BY <3>3, <4>1 DEF T1, T2
    <3>4. QED
      BY <2>1, <3>1, <3>2, <3>3
  <2>4. L1 = Itf /\ Shifted /\ ~toNotify /\ powering = NULL /\ toSend = <<>>
    BY <1>9, <2>1, <2>2
  <2>5. port = "enumerated" /\ ~lost /\ classHandle = deviceHandle => Usable(classHandle)
    BY DEF DeviceInv, Usable
  <2>6. Fits' /\ SendsInv' /\ Handles' /\ Lines'
    BY <1>1, <1>5, <2>1, <2>2, <2>4, <2>5, LinesSetInterface
  <2>7. QED
    BY <1>3, <1>4, <2>1, <2>6 DEF Unsettled
<1>18. CASE HandleGetStatus
  <2>1. /\ Receive(Sta) /\ given' = given
        /\ toSend' = <<>> \/ toSend' = <<Err>>
        /\ UNCHANGED <<pmic, lost, port, usbInstance, classHandle, deviceHandle, toNotify>>
    BY <1>18 DEF HandleGetStatus, Sta, Err, mgrVars, usbVars
  <2>2. Len(toSend') <= 2 /\ T1' \in {None, Err} /\ T2' = None
    <3>1. CASE toSend' = <<>>
      BY <3>1 DEF T1, T2
    <3>2. CASE toSend' = <<Err>>
      BY <3>2 DEF T1, T2
    <3>3. QED
      BY <2>1, <3>1, <3>2
  <2>3. L1 = Sta /\ Shifted /\ ~toNotify /\ powering = NULL /\ toSend = <<>>
    BY <1>9, <2>1, <2>2
  <2>4. SendsInv' /\ Handles' /\ Lines'
    BY <1>1, <1>5, <2>1, <2>2, <2>3, LinesGetStatus
  <2>5. Fits'
    BY <2>2, <2>3 DEF Shifted
  <2>6. QED
    BY <1>3, <1>4, <2>1, <2>4, <2>5 DEF Unsettled
<1>19. CASE HandleError
  <2>1. /\ Receive("EnumerationFailed") \/ Receive(Err)
        /\ given' = given
        /\ UNCHANGED <<pmic, lost, port, usbInstance, classHandle, deviceHandle, toNotify, toSend>>
    BY <1>19 DEF HandleError, Err, taskVars, usbVars
  <2>2. /\ L1 \in {Err, "EnumerationFailed"} /\ Shifted /\ ~toNotify /\ toSend = <<>>
    BY <1>8, <1>9, <2>1
  <2>3. T1' = None
    BY <2>1, <2>2 DEF T1
  <2>4. SendsInv' /\ Handles' /\ Lines'
    BY <1>1, <1>5, <2>1, <2>2, <2>3, LinesError
  <2>5. QED
    BY <1>3, <1>4, <2>1, <2>2, <2>3, <2>4 DEF Unsettled, Shifted
<1>20. CASE SelfSend
  <2>1. /\ given' = given
        /\ UNCHANGED <<pmic, lost, port, usbInstance, classHandle, deviceHandle, toNotify>>
    BY <1>20 DEF SelfSend, mgrVars, usbVars
  <2>2. /\ L1' = L1 /\ L2' = L2 /\ L3' = L3 /\ Fits'
        /\ T1' = T2 /\ T2' = None /\ Len(toSend') <= 2
    <3>1. Len(toSend') <= 1 => Len(toSend') <= 2
      BY <1>1, LenProperties DEF TypeOK
    <3>2. QED
      BY <1>1, <1>8, <1>20, <3>1, LineSelfSend
  <2>3. SendsInv' /\ Handles' /\ Lines'
    BY <1>1, <1>5, <2>1, <2>2, LinesSelfSend
  <2>4. QED
    BY <1>3, <1>4, <2>1, <2>2, <2>3 DEF Unsettled
<1>21. CASE NotifyConnected
  <2>1. /\ given' = given /\ toSend = <<>> /\ toNotify /\ ~toNotify' /\ usbInstance' = classHandle
        /\ UNCHANGED <<pmic, lost, port, classHandle, deviceHandle, toSend, queue>>
    BY <1>21 DEF NotifyConnected, usbVars
  <2>2. /\ L1' = L1 /\ L2' = L2 /\ L3' = L3 /\ T1' = T1 /\ T2' = T2 /\ Fits'
        /\ T1 = None /\ T2 = None
    <3>1. T1 = None /\ T2 = None
      BY <2>1 DEF T1, T2
    <3>2. QED
      BY <1>1, <2>1, <3>1, LineSame
  <2>3. CASE (port = "enumerated" /\ ~lost) /\ classHandle = deviceHandle
    BY <1>1, <1>21, <2>3, NotifySettles
  <2>4. CASE ~((port = "enumerated" /\ ~lost) /\ classHandle = deviceHandle)
    <3>1. SendsInv' /\ Handles' /\ Lines'
      BY <1>1, <1>5, <2>1, <2>2, <2>4, LinesNotify DEF DeviceInv
    <3>2. QED
      BY <1>3, <1>4, <2>1, <2>2, <3>1 DEF Unsettled
  <2>5. QED
    BY <2>3, <2>4
<1>22. QED
  BY <1>11, <1>12, <1>13, <1>14, <1>15, <1>16, <1>17, <1>18, <1>19, <1>20, <1>21 DEF Task

\* The steps of the USB host keep the line legal.
LEMMA UnsettledUsb ==
  ASSUME Sharing, IInv, IInv', DeviceInv, ~Settled, Unsettled, Usb \/ UsbFault,
         NULL \notin Devices, faults = 0
  PROVE  Unsettled'
<1>1. /\ TypeOK /\ TypeOK' /\ ~Live /\ DropsHeld /\ Fits /\ SendsInv /\ Handles /\ Lines
  BY DEF IInv, Unsettled
<1>2. /\ pc' = pc /\ holds' = holds /\ mutex' = mutex /\ given' = given /\ toSend' = toSend
      /\ UNCHANGED <<pmic, usbInstance, classHandle, toNotify>>
  BY DEF Usb, UsbFault, UsbAttach, UsbEnumerationDone, UsbEnumerationFail, UsbSilent, UsbLoss, UsbOtherEvent,
     UsbDetach, UsbForget, mgrVars, taskVars, usbVars
<1>3. /\ ~Live' /\ DropsHeld'
      /\ Departing' <=> Departing
      /\ Dropping' <=> Dropping
  BY <1>1, <1>2 DEF Live, DropsHeld, Departing, Dropping
<1>4. Len(toSend) <= 2 /\ T1' = T1 /\ T2' = T2
  BY <1>1, <1>2 DEF SendsInv, T1, T2
<1>5. CASE UsbAttach
  <2>1. /\ port = "none" /\ port' = "attached" /\ pmic /\ deviceHandle' # NULL
        /\ UNCHANGED <<lost, queue>>
    BY <1>5 DEF UsbAttach
  <2>2. ~lost
    BY <2>1 DEF DeviceInv
  <2>3. SendsInv' /\ Handles' /\ Lines'
    BY <1>1, <1>2, <1>3, <2>1, <2>2, LinesArrived
  <2>4. Fits'
    BY <1>1, <1>2, <2>1, LineSame
  <2>5. QED
    BY <1>3, <2>3, <2>4 DEF Unsettled
<1>6. CASE UsbEnumerationDone
  <2>1. /\ port = "attached" /\ port' = "enumerated" /\ Enqueue(NextState(Att))
        /\ UNCHANGED <<lost, deviceHandle>>
    BY <1>6 DEF UsbEnumerationDone, Att
  <2>2. NextState(Att) \in Request /\ NextState(Att).type = Att
    BY RequestTypes DEF Att, NextState, NextStates
  <2>3. L3 = None => Fits' /\ Inserted(Att)
    BY <1>1, <1>2, <1>4, <2>1, <2>2, LineEnqueue DEF Inserted
  <2>4. L3 = None /\ SendsInv' /\ Handles' /\ Lines'
    BY <1>1, <1>2, <1>3, <1>4, <2>1, <2>3, LinesEnumerated DEF DeviceInv
  <2>5. QED
    BY <1>3, <2>3, <2>4 DEF Unsettled
<1>7. CASE UsbDetach
  <2>1. /\ port = "enumerated" /\ port' = "none" /\ Enqueue(NextState(Una))
        /\ lost /\ ~lost' /\ UNCHANGED deviceHandle
    BY <1>7 DEF UsbDetach, Una
  <2>2. NextState(Una) \in Request /\ NextState(Una).type = Una
    BY RequestTypes DEF Una, NextState, NextStates
  <2>3. L3 = None => Fits' /\ Inserted(Una)
    BY <1>1, <1>2, <1>4, <2>1, <2>2, LineEnqueue DEF Inserted
  <2>4. SendsEnd
    BY <1>1, <1>4, LineEnd
  <2>5. L3 = None /\ SendsInv' /\ Handles' /\ Lines'
    BY <1>1, <1>2, <1>3, <1>4, <2>1, <2>3, <2>4, LinesDetached
  <2>6. QED
    BY <1>3, <2>3, <2>5 DEF Unsettled
<1>8. CASE UsbForget \/ UsbFault
  BY <1>8 DEF UsbForget, UsbFault, UsbEnumerationFail, UsbSilent, UsbLoss, UsbOtherEvent, Fault, Sharing, DeviceInv
<1>9. QED
  BY <1>5, <1>6, <1>7, <1>8 DEF Usb

\* What the queue of a settled device may hold.
Quiet(q) ==
  /\ \A i \in 1..Len(q) : q[i].type \in {Sta, On, Off}
  /\ \A i, j \in 1..Len(q) : q[i].type = Sta /\ q[j].type = Sta => i = j

\* A power request may be enqueued to a settled device.
LEMMA QuietAppend ==
  ASSUME NEW q \in Seq(Request), NEW r \in Request, r.type \in {On, Off}, Quiet(q)
  PROVE  Quiet(Append(q, r))
<1>1. PICK p \in Seq(Request) : p = Append(q, r)
  BY AppendProperties
<1>2. PICK n \in Nat : n = Len(q)
  BY LenProperties
<1>3. Len(p) = n + 1 /\ p[n + 1] = r /\ \A i \in 1..n : p[i] = q[i]
  BY <1>1, <1>2
<1>4. \A i \in 1..(n + 1) : i \in 1..n \/ i = n + 1
  BY <1>2
<1>5. r.type # Sta
  BY DEF On, Off, Sta
<1>6. Quiet(p)
  BY <1>2, <1>3, <1>4, <1>5 DEF Quiet
<1>7. QED
  BY <1>1, <1>6

\* What is received of a settled device, and what is left.
LEMMA QuietReceive ==
  ASSUME TypeOK, NEW t, Receive(t), Quiet(queue)
  PROVE  Quiet(queue') /\ t \in {Sta, On, Off}
<1>1. PICK n \in Nat : n = Len(queue) /\ n > 0
  BY LenProperties, EmptySeq DEF TypeOK, Receive
<1>2. /\ Len(queue') = n - 1
      /\ \A i \in 1..n-1 : queue'[i] = queue[i + 1]
      /\ queue[1].type = t
  BY <1>1, HeadTailProperties DEF TypeOK, Receive
<1>3. 1 \in 1..n /\ \A i \in 1..n-1 : i + 1 \in 1..n
  BY <1>1
<1>4. \A i, j \in 1..n-1 : i + 1 = j + 1 => i = j
  BY <1>1
<1>5. QED
  BY <1>1, <1>2, <1>3, <1>4 DEF Quiet

\* The clients leave a settled device settled.
LEMMA SettledClient ==
  ASSUME Sharing, TypeOK, DeviceInv, Settled, NEW c \in Clients, Client(c) \/ Choose(c)
  PROVE  Settled'
<1>1. UNCHANGED DeviceSide
  BY ClientFrame
<1>2. Quiet(queue) => Quiet(queue')
  <2>1. CASE queue' = queue
    BY <2>1
  <2>2. CASE OpenSend(c) \/ DropSend(c)
    <3>1. PICK t \in {On, Off} : queue' = Append(queue, [type |-> t, from |-> c])
      BY <2>2 DEF OpenSend, DropSend, SendRequest, Enqueue, On, Off
    <3>2. [type |-> t, from |-> c] \in Request /\ [type |-> t, from |-> c].type = t
      BY RequestTypes DEF On, Off, PowerRequests
    <3>3. queue \in Seq(Request)
      BY DEF TypeOK
    <3>4. QED
      BY <3>1, <3>2, <3>3, QuietAppend
  <2>3. CASE GetPowerSend(c)
    BY <2>3 DEF GetPowerSend, SendRequest, DeviceInv
  <2>4. CASE queue' # queue
    BY <2>2, <2>3, <2>4 DEF Client, Choose, OpenLock, OpenPowered, OpenFound, OpenError, OpenInit,
       OpenRun, DropTaken, DropDone, TempLock, ReadTemp, InvokeLock, InvokeDone, GetPowerTaken,
       TakeResponse, OpenDevice, Close, GetTemperature, Invoke, GetPower, Call
  <2>5. QED
    BY <2>1, <2>4
<1>3. QED
  BY <1>1, <1>2 DEF Settled, Quiet, DeviceSide

\* The power count is zero only when nobody uses the device.
LEMMA UncountedMeansNone == TypeOK /\ CountBalances /\ enabledCount = 0 => Contexts = {}
<1> SUFFICES ASSUME TypeOK, CountBalances, enabledCount = 0
             PROVE  Contexts = {}
  OBVIOUS
<1>1. IsFiniteSet(Contexts)
  BY ContextsFinite
<1>2. QED
  BY <1>1, FS_EmptySet DEF CountBalances

\* The last power-off request of a settled device: all that is left in the queue is
\* a GetStatus and the power-on request of who makes the next context.
LEMMA SwitchedOff ==
  ASSUME IInv', DeviceInv', ~Live', Contexts' = {}, (toSend = <<>> /\ ~toNotify)', Quiet(queue)',
         (lost /\ ~pmic /\ port = "enumerated" /\ classHandle = deviceHandle)',
         (usbInstance = deviceHandle)'
  PROVE  Unsettled'
<1>1. /\ TypeOK' /\ QueueInv' /\ DeviceInv' /\ Quiet(queue)' /\ ~Live' /\ MutexInv'
      /\ Contexts' = {}
  BY DEF IInv
<1>2. DropsHeld'
  BY <1>1 DEF DropsHeld, Contexts
<1>3. PowerSent'
  <2>1. (IInv /\ DeviceInv /\ DropsHeld => PowerSent)'
    BY SentByHolder, PTL
  <2>2. QED
    BY <2>1, <1>2
<1>4. PICK q \in Seq(Request), n \in Nat : q = queue' /\ n = Len(q)
  BY <1>1, LenProperties DEF TypeOK
<1>5. ASSUME NEW i \in 1..n PROVE q[i].type \in {Sta, On} /\ (q[i].type = On => Asking')
  BY <1>1, <1>3, <1>4 DEF Quiet, PowerSent, Contexts
<1>6. ASSUME NEW i \in 1..n, NEW j \in 1..n, q[i].type = q[j].type PROVE i = j
  <2>1. CASE q[i].type = Sta
    BY <1>1, <1>4, <1>6, <2>1 DEF Quiet
  <2>2. CASE q[i].type = On
    <3>1. q[i] \in Request /\ q[j] \in Request /\ On \in PowerRequests
      BY <1>4, ElementOfSeq DEF On, PowerRequests
    <3>2. q[i].from \in Clients /\ q[j].from \in Clients
      BY <1>6, <2>2, <3>1, RequestTypes
    <3>3. pc'[q[i].from] = "openWait" /\ pc'[q[j].from] = "openWait"
      BY <1>1, <1>4, <1>6, <2>2, <3>1 DEF QueueInv, AwaitedBy, On
    <3>4. q[i].from = q[j].from
      BY <1>1, <3>2, <3>3 DEF MutexInv, Opening
    <3>5. QED
      BY <1>1, <1>4, <1>6, <2>2, <3>1, <3>4 DEF QueueInv
  <2>3. QED
    BY <1>5, <2>1, <2>2
<1>7. n <= 2
  <2>1. SUFFICES ASSUME n >= 3 PROVE FALSE
    BY <1>4
  <2>2. 1 \in 1..n /\ 2 \in 1..n /\ 3 \in 1..n
    BY <1>4, <2>1
  <2>3. q[1].type # q[2].type /\ q[1].type # q[3].type /\ q[2].type # q[3].type
    BY <1>6, <2>2
  <2>4. QED
    BY <1>5, <2>2, <2>3
<1>8. Len(toSend') = 0 /\ (T1 = None)' /\ (T2 = None)'
  BY DEF T1, T2
<1>9. Fits' /\ SendsInv'
  BY <1>4, <1>7, <1>8 DEF Fits, SendsInv
<1>10. /\ L1' = IF 1 <= n THEN q[1].type ELSE None
       /\ L2' = IF 2 <= n THEN q[2].type ELSE None
       /\ L3' = None
  <2>1. TypeOK' => Placed'
    BY Letters, PTL
  <2>2. PICK m \in Nat : m = 0
    OBVIOUS
  <2>3. n = Len(queue') /\ m = Len(toSend')
    BY <1>4, <1>8, <2>2
  <2>4. /\ L1' = IF 1 <= n THEN queue'[1].type ELSE IF 1 <= n + m THEN toSend'[1 - n] ELSE None
        /\ L2' = IF 2 <= n THEN queue'[2].type ELSE IF 2 <= n + m THEN toSend'[2 - n] ELSE None
        /\ L3' = IF 3 <= n THEN queue'[3].type ELSE IF 3 <= n + m THEN toSend'[3 - n] ELSE None
    BY <1>1, <2>1, <2>3 DEF Placed
  <2>5. QED
    BY <1>4, <1>7, <2>2, <2>4
<1>11. /\ \/ (One(None) \/ One(Sta) \/ One(On))'
          \/ (Two(Sta, On) \/ Two(On, Sta))'
       /\ (L1 = On \/ L2 = On)' => Asking'
  <2>1. /\ 1 <= n => 1 \in 1..n
        /\ 2 <= n => 2 \in 1..n /\ 1 \in 1..n
    BY <1>4
  <2>2. 2 <= n => q[1].type # q[2].type
    BY <1>6, <2>1
  <2>3. None # On
    BY DEF None, On
  <2>4. (n = 0 \/ n = 1) \/ n = 2
    BY <1>4, <1>7
  <2>5. QED
    BY <1>5, <1>10, <2>1, <2>2, <2>3, <2>4 DEF One, Two
<1>12. Asking' => ~Departing'
  <2>1. Phases'
    BY PhasesHold, PTL
  <2>2. QED
    BY <2>1 DEF Phases, Asking
<1>13. (usbInstance # NULL)'
  BY <1>1 DEF DeviceInv
<1>14. Handles'
  BY <1>11 DEF Handles, One, Two, None, On, Sta, Itf, Att
<1>15. LostLine'
  BY <1>11, <1>12, <1>13 DEF LostLine, Fresh, One, Two
<1>16. QED
  BY <1>1, <1>2, <1>9, <1>14, <1>15 DEF Unsettled, Lines

\* The handler leaves a settled device settled, unless it switches off its power
\* for the last context.
LEMMA SettledTask ==
  ASSUME IInv, IInv', DeviceInv, Settled, Task
  PROVE  /\ UNCHANGED <<pc, port, usbInstance, driverInst, classHandle, deviceHandle, allocated>>
         /\ \/ Settled' /\ pmic'
            \/ /\ (lost /\ ~pmic /\ port = "enumerated" /\ classHandle = deviceHandle)'
               /\ DeviceInv' => Unsettled'
<1>1. /\ TypeOK /\ TypeOK' /\ CountBalances' /\ PowerInv /\ PowerInv'
      /\ port = "enumerated" /\ ~lost /\ toSend = <<>> /\ ~toNotify /\ Quiet(queue)
      /\ usbInstance = deviceHandle /\ classHandle = deviceHandle /\ pmic
  BY DEF IInv, Settled, Quiet, DeviceInv
<1>2. Usable(classHandle)
  BY <1>1 DEF DeviceInv, Usable
<1>3. ASSUME NEW t, Receive(t),
             UNCHANGED <<pc, port, lost, usbInstance, driverInst, deviceHandle, classHandle,
                         allocated, toSend, toNotify>>, pmic'
      PROVE  /\ UNCHANGED <<pc, port, usbInstance, driverInst, classHandle, deviceHandle, allocated>>
             /\ Settled' /\ pmic'
  <2>1. Quiet(queue')
    BY <1>1, <1>3, QuietReceive
  <2>2. QED
    BY <1>1, <1>3, <2>1 DEF Settled, Quiet
<1>4. CASE HandlePowerOn
  BY <1>1, <1>3, <1>4 DEF HandlePowerOn, mgrVars, usbVars
<1>5. CASE PowerGood
  BY <1>1, <1>5 DEF PowerGood, Settled, mgrVars, usbVars
<1>6. CASE HandlePowerOff
  <2>1. /\ Receive("SetPowerOff")
        /\ UNCHANGED <<pc, port, usbInstance, driverInst, deviceHandle, classHandle, toSend,
                       toNotify, allocated>>
    BY <1>6 DEF HandlePowerOff, mgrVars
  <2>2. CASE enabledCount' > 0
    <3>1. ~(enabledCount' = 0)
      BY <2>2
    <3>2. lost' = lost /\ pmic' = pmic
      BY <1>6, <3>1 DEF HandlePowerOff
    <3>3. QED
      BY <1>1, <1>3, <2>1, <3>2
  <2>3. CASE ~(enabledCount' > 0)
    <3>1. enabledCount' = 0
      BY <1>1, <2>3 DEF TypeOK
    <3>2. pmic' = FALSE /\ lost' = (port # "none")
      BY <1>6, <2>3, Zenon DEF HandlePowerOff
    <3>3. Contexts' = {}
      <4>1. (TypeOK /\ CountBalances /\ enabledCount = 0 => Contexts = {})'
        BY UncountedMeansNone, PTL
      <4>2. QED
        BY <1>1, <3>1, <4>1
    <3>4. ~Live'
      BY <3>3 DEF Contexts
    <3>5. Quiet(queue)'
      <4>1. Quiet(queue')
        BY <1>1, <2>1, QuietReceive
      <4>2. QED
        BY <4>1 DEF Quiet
    <3>6. (lost /\ ~pmic /\ port = "enumerated" /\ classHandle = deviceHandle)'
      BY <1>1, <2>1, <3>2
    <3>7. (toSend = <<>> /\ ~toNotify)' /\ (usbInstance = deviceHandle)'
      BY <1>1, <2>1
    <3>8. DeviceInv' => Unsettled'
      BY <3>3, <3>4, <3>5, <3>6, <3>7, SwitchedOff
    <3>9. QED
      BY <2>1, <3>6, <3>8
  <2>4. QED
    BY <2>2, <2>3
<1>7. CASE HandleGetStatus
  <2>1. toSend' = toSend
    BY <1>1, <1>2, <1>7 DEF HandleGetStatus
  <2>2. QED
    BY <1>1, <1>3, <1>7, <2>1 DEF HandleGetStatus, mgrVars, usbVars
<1>8. CASE (HandleUnattached \/ HandleAttached \/ HandleSetInterface) \/ (HandleError \/ HandleGetPower)
  <2>1. PICK t \in {"Unattached", "Attached", "SetInterface", "EnumerationFailed", "Error", "GetPower"} :
          Receive(t)
    BY <1>8 DEF HandleUnattached, HandleAttached, HandleSetInterface, HandleError, HandleGetPower
  <2>2. QED
    BY <1>1, <2>1, QuietReceive DEF Sta, On, Off
<1>9. CASE SelfSend \/ NotifyConnected
  BY <1>1, <1>9 DEF SelfSend, NotifyConnected
<1>10. QED
  BY <1>4, <1>5, <1>6, <1>7, <1>8, <1>9 DEF Task

\* A settled device keeps its place: without faults the USB host has no step.
LEMMA SettledUsb ==
  ASSUME Sharing, Settled, Usb \/ UsbFault
  PROVE  FALSE
BY DEF Settled, Sharing, Usb, UsbFault, UsbAttach, UsbEnumerationDone, UsbDetach, UsbForget,
   UsbEnumerationFail, UsbSilent, UsbLoss, UsbOtherEvent, Fault

\* There are no faults to come.
LEMMA NoFaults ==
  ASSUME Sharing, [Next]_vars
  PROVE  faults' = faults
BY DEF Sharing, Next, Running, Halted, vars, Client, Choose, OpenLock, OpenSend, OpenPowered,
   OpenFound, OpenError, OpenInit, OpenRun, DropSend, DropTaken, DropDone, TempLock, ReadTemp,
   InvokeLock, InvokeDone, GetPowerSend, GetPowerTaken, OpenDevice, Close, GetTemperature, Invoke,
   GetPower, Call, SendRequest, TakeResponse, Task, HandlePowerOn, PowerGood, HandlePowerOff,
   HandleGetPower, HandleUnattached, HandleAttached, HandleSetInterface, HandleGetStatus,
   HandleError, SelfSend, NotifyConnected, Usb, UsbFault, UsbAttach, UsbEnumerationDone,
   UsbEnumerationFail, UsbSilent, UsbLoss, UsbOtherEvent, UsbDetach, UsbForget, Fault

\* DeviceInv is kept by the clients,
LEMMA DeviceClient ==
  ASSUME Sharing, TypeOK, DeviceInv, NEW c \in Clients, Client(c) \/ Choose(c)
  PROVE  DeviceInv'
<1>1. UNCHANGED DeviceSide
  BY ClientFrame
<1>2. Settled => Settled'
  BY SettledClient
<1>3. driverInst' = driverInst \/ driverInst' = usbInstance
  BY DEF Client, Choose, OpenLock, OpenSend, OpenPowered, OpenFound, OpenError, OpenInit,
     OpenRun, DropSend, DropTaken, DropDone, TempLock, ReadTemp, InvokeLock, InvokeDone,
     GetPowerSend, GetPowerTaken, SendRequest, TakeResponse, OpenDevice, Close, GetTemperature,
     Invoke, GetPower, Call, mgrVars
<1>4. \A d \in Clients : pc'[d] \notin {"getSend", "getWait"}
  <2>1. ~GetPower(c) /\ ~GetPowerSend(c)
    BY DEF GetPower, GetPowerSend, SendRequest, Sharing, DeviceInv
  <2>2. PICK l \in PCs \ {"getSend", "getWait"} : pc' = [pc EXCEPT ![c] = l] \/ pc' = pc
    BY <2>1 DEF Client, Choose, OpenLock, OpenSend, OpenPowered, OpenFound, OpenError, OpenInit,
       OpenRun, DropSend, DropTaken, DropDone, TempLock, ReadTemp, InvokeLock, InvokeDone,
       GetPowerTaken, SendRequest, TakeResponse, OpenDevice, Close, GetTemperature,
       Invoke, Call, Goto, PCs
  <2>3. QED
    BY <2>2 DEF DeviceInv, TypeOK
<1>5. QED
  BY <1>1, <1>2, <1>3, <1>4 DEF DeviceInv, DeviceSide

\* by the USB host,
LEMMA DeviceUsb ==
  ASSUME Sharing, TypeOK, DeviceInv, ~Settled, Usb \/ UsbFault, NULL \notin Devices,
         faults = 0
  PROVE  DeviceInv'
<1>1. /\ pc' = pc /\ UNCHANGED <<pmic, usbInstance, driverInst, classHandle>>
  BY DEF Usb, UsbFault, UsbAttach, UsbEnumerationDone, UsbEnumerationFail, UsbSilent, UsbLoss, UsbOtherEvent,
     UsbDetach, UsbForget, mgrVars, taskVars, usbVars
<1>2. CASE UsbAttach
  BY <1>1, <1>2 DEF UsbAttach, DeviceInv
<1>3. CASE UsbEnumerationDone
  BY <1>1, <1>3 DEF UsbEnumerationDone, DeviceInv
<1>4. CASE UsbDetach
  BY <1>1, <1>4 DEF UsbDetach, DeviceInv
<1>5. CASE UsbForget \/ UsbFault
  BY <1>5 DEF UsbForget, UsbFault, UsbEnumerationFail, UsbSilent, UsbLoss, UsbOtherEvent, Fault, Sharing, DeviceInv
<1>6. QED
  BY <1>2, <1>3, <1>4, <1>5 DEF Usb

\* and by the handler.
LEMMA DeviceTask ==
  ASSUME Sharing, IInv, IInv', DeviceInv, ~Settled => Unsettled, Task
  PROVE  DeviceInv'
<1>1. TypeOK /\ TypeOK'
  BY DEF IInv
<1>2. CASE Settled
  BY <1>2, SettledTask DEF DeviceInv, Settled
<1>3. CASE ~Settled
  <2>1. /\ Fits /\ SendsInv /\ Handles /\ Lines
        /\ pc' = pc
        /\ (usbInstance = deviceHandle \/ driverInst = deviceHandle) => port = "none" \/ lost
    BY <1>3, EnvironmentFrame DEF DeviceInv, Unsettled
  <2>2. CASE HandlePowerOn
    BY <2>1, <2>2 DEF HandlePowerOn, DeviceInv, mgrVars, usbVars
  <2>3. CASE HandlePowerOff
    <3>1. UNCHANGED <<port, usbInstance, deviceHandle, classHandle, driverInst, allocated>>
      BY <2>3 DEF HandlePowerOff, mgrVars
    <3>2. CASE enabledCount' > 0
      <4>1. ~(enabledCount' = 0)
        BY <3>2
      <4>2. lost' = lost /\ pmic' = pmic
        BY <2>3, <4>1 DEF HandlePowerOff
      <4>3. QED
        BY <2>1, <3>1, <4>2 DEF DeviceInv
    <3>3. CASE ~(enabledCount' > 0)
      <4>1. pmic' = FALSE /\ lost' = (port # "none")
        BY <2>3, <3>3, Zenon DEF HandlePowerOff
      <4>2. QED
        BY <2>1, <3>1, <4>1 DEF DeviceInv
    <3>4. QED
      BY <3>2, <3>3
  <2>4. CASE HandleAttached
    <3>1. Receive(Att) /\ toSend' = <<Itf>>
      BY <2>4 DEF HandleAttached, Att, Itf, Sharing, Fault
    <3>2. Len(toSend') <= 2
      BY <3>1
    <3>3. L1 = Att
      BY <1>1, <2>1, <3>1, <3>2, LineReceive
    <3>4. port # "attached" /\ deviceHandle # NULL
      BY <2>1, <3>3 DEF Handles, DeviceInv, Lines, LostLine, AwaitLine, SetupLine, One, Two, Three,
         Att, Itf, Sta, Err, Una, On, Off, None
    <3>5. /\ classHandle' = deviceHandle /\ allocated' = allocated \cup {deviceHandle}
          /\ UNCHANGED <<port, lost, pmic, deviceHandle, usbInstance, driverInst>>
      BY <2>4 DEF HandleAttached, Sharing, Fault, mgrVars
    <3>6. QED
      BY <2>1, <3>4, <3>5 DEF DeviceInv
  <2>5. CASE NotifyConnected
    <3>1. port # "none" /\ ~lost /\ classHandle = deviceHandle => Settled'
      BY <1>1, <1>3, <2>5, NotifySettles
    <3>2. /\ usbInstance' = classHandle
          /\ UNCHANGED <<port, lost, pmic, deviceHandle, classHandle, driverInst, allocated>>
      BY <2>5 DEF NotifyConnected, usbVars
    <3>3. QED
      BY <2>1, <3>1, <3>2 DEF DeviceInv
  <2>6. CASE HandleUnattached
    BY <2>1, <2>6 DEF HandleUnattached, DeviceInv, taskVars, usbVars
  <2>7. CASE ((PowerGood \/ HandleGetPower) \/ HandleSetInterface) \/ (HandleGetStatus \/ HandleError)
             \/ SelfSend
    <3>1. UNCHANGED <<port, lost, pmic, usbInstance, deviceHandle, classHandle, driverInst, allocated>>
      BY <2>7 DEF PowerGood, HandleGetPower, HandleSetInterface, HandleGetStatus, HandleError,
         SelfSend, mgrVars, taskVars, usbVars
    <3>2. QED
      BY <2>1, <3>1 DEF DeviceInv
  <2>8. QED
    BY <2>2, <2>3, <2>4, <2>5, <2>6, <2>7 DEF Task
<1>4. QED
  BY <1>2, <1>3

\* The invariant of the line is inductive.
LEMMA SharingInit == Init => SharingLine
<1> SUFFICES ASSUME Init PROVE SharingLine
  OBVIOUS
<1>1. /\ port = "none" /\ ~lost /\ ~pmic /\ ~toNotify /\ usbInstance = NULL
      /\ queue = <<>> /\ toSend = <<>> /\ holds = {}
      /\ \A c \in Clients : pc[c] = "idle"
  BY DEF Init
<1>2. Len(queue) = 0 /\ Len(toSend) = 0
  BY <1>1
<1>3. L1 = None /\ L2 = None /\ L3 = None /\ T1 = None /\ T2 = None
  BY <1>2 DEF L1, L2, L3, T1, T2, Letter
<1>4. ~Live /\ DropsHeld /\ Fits /\ SendsInv
  BY <1>1, <1>2, <1>3 DEF Live, DropsHeld, Fits, SendsInv
<1>5. Handles
  BY <1>1, <1>3 DEF Handles, None, Itf, Att
<1>6. Lines
  BY <1>1, <1>3 DEF Lines, GoneLine, One
<1>7. DeviceInv
  BY <1>1 DEF DeviceInv
<1>8. QED
  BY <1>4, <1>5, <1>6, <1>7 DEF SharingLine, Unsettled

\* Every step keeps the invariant, whoever takes it.
LEMMA SharingNext ==
  ASSUME Sharing, NULL \notin Devices
  PROVE  IInv /\ IInv' /\ SharingLine /\ faults = 0 /\ [Next]_vars => SharingLine'
<1> SUFFICES ASSUME IInv, IInv', SharingLine, faults = 0, [Next]_vars
             PROVE  SharingLine'
  OBVIOUS
<1>1. TypeOK /\ DeviceInv /\ (~Settled => Unsettled)
  BY DEF IInv, SharingLine
<1>2. CASE UNCHANGED vars
  <2>1. /\ L1' = L1 /\ L2' = L2 /\ L3' = L3 /\ T1' = T1 /\ T2' = T2
        /\ Fits' <=> Fits
    BY <1>2, LineSame DEF vars, taskVars, Fits
  <2>2. /\ Departing' <=> Departing
        /\ Dropping' <=> Dropping
        /\ Settled' <=> Settled
        /\ ~Live => ~Live'
        /\ DropsHeld => DropsHeld'
    BY <1>2 DEF vars, mgrVars, taskVars, usbVars, Departing, Dropping, Settled, Live, DropsHeld
  <2>3. UNCHANGED DeviceSide
    BY <1>2 DEF vars, mgrVars, taskVars, usbVars, DeviceSide
  <2>4. SendsInv /\ Handles /\ Lines => SendsInv' /\ Handles' /\ Lines'
    BY <2>1, <2>2, <2>3, LinesSame
  <2>5. DeviceInv'
    BY <1>1, <1>2, <2>2, <2>3 DEF vars, mgrVars, DeviceInv, DeviceSide
  <2>6. QED
    BY <1>1, <2>1, <2>2, <2>4, <2>5 DEF SharingLine, Unsettled
<1>3. CASE \E c \in Clients : Client(c) \/ Choose(c)
  BY <1>1, <1>3, DeviceClient, SettledClient, UnsettledClient DEF SharingLine
<1>4. CASE Task
  BY <1>1, <1>4, DeviceTask, SettledTask, UnsettledTask DEF SharingLine
<1>5. CASE Usb \/ UsbFault
  BY <1>1, <1>5, DeviceUsb, SettledUsb, UnsettledUsb DEF SharingLine
<1>6. QED
  BY <1>2, <1>3, <1>4, <1>5 DEF Next, Running, Halted

\* The handler of the EdgeTpuTask never waits for a slot of the queue that only it
\* empties, however many clients share the device: three slots are enough.
THEOREM NeverBlocksItself ==
  ASSUME Sharing, NULL \notin Devices, QueueLength >= 3
  PROVE  Spec => []NoSelfBlock
<1>1. IInv /\ SharingLine => NoSelfBlock
  <2> SUFFICES ASSUME IInv, SharingLine, toSend # <<>>
               PROVE  Len(queue) < QueueLength
    BY DEF NoSelfBlock
  <2>1. TypeOK /\ Fits
    BY DEF IInv, SharingLine, Unsettled, Settled
  <2>2. Len(queue) \in Nat /\ Len(toSend) \in Nat /\ Len(toSend) # 0
    BY <2>1, EmptySeq, LenProperties DEF TypeOK
  <2>3. QED
    BY <2>1, <2>2, QueueAssumption DEF Fits
<1>2. Spec => []IInv
  BY Inductive
<1>3. IInv /\ IInv' /\ SharingLine /\ faults = 0 /\ [Next]_vars => SharingLine'
  BY SharingNext
<1>4. /\ Init => faults = 0
      /\ faults = 0 /\ [Next]_vars => (faults = 0)'
  BY NoFaults DEF Init
<1>5. QED
  BY <1>1, <1>2, <1>3, <1>4, SharingInit, PTL DEF Spec

=============================================================================
