------------------------------ MODULE EdgeTpu ------------------------------
(***************************************************************************)
(* Bring-up, sharing and power-down of the Edge TPU.                       *)
(*                                                                         *)
(* Three kinds of tasks meet here:                                         *)
(*   - application tasks (Clients) call EdgeTpuManager: OpenDevice,        *)
(*     GetTemperature, Invoke, and drop their shared_ptr<EdgeTpuContext>;  *)
(*   - the EdgeTpuTask (a QueueTask) counts power requests, drives the     *)
(*     power GPIOs and walks the USB class driver through its states;      *)
(*   - the USB host task delivers attach, enumeration and detach events.   *)
(*                                                                         *)
(* Sources: libs/tpu/edgetpu_task.{h,cc}, libs/tpu/edgetpu_manager.{h,cc}, *)
(* libs/base/queue_task.h and the parts of libs/tpu/usb_host_edgetpu.c     *)
(* they call.  The USB host stack and the device itself are external.      *)
(***************************************************************************)
EXTENDS Naturals, Sequences, FiniteSets

CONSTANTS Clients,       \* application tasks that use the Edge TPU
          Devices,       \* names for successive attachments of the device
          NULL,          \* null pointer, free mutex, no client
          Calls,         \* other calls the clients make: a subset of
                         \* {"GetTemperature", "Invoke", "GetPower"}
          QueueLength,   \* slots of the EdgeTpuTask request queue
          Faults,        \* kinds of USB fault that may occur
          MaxFaults,     \* bound: number of faults in a behaviour
          DelaySuffices  \* TRUE: 30 ms without power is enough for the host
                         \* to notice that the device has gone

ASSUME ClientsAssumption == IsFiniteSet(Clients) /\ NULL \notin Clients
ASSUME QueueAssumption   == QueueLength \in Nat \ {0}
ASSUME FaultAssumption   == MaxFaults \in Nat /\ DelaySuffices \in BOOLEAN

VARIABLES
  pc,            \* pc[c]: where client c is in its call
  holds,         \* clients holding a shared_ptr to the published context
  mutex,         \* EdgeTpuManager::mutex_ : its holder, or NULL
  usbInstance,   \* EdgeTpuManager::usb_instance_
  usbError,      \* EdgeTpuManager::usb_error_
  driverInst,    \* TpuDriver::usb_instance_ as Initialize last set it
  queue,         \* request_queue_ of the EdgeTpuTask
  given,         \* clients whose SendRequest semaphore has been given
  powering,      \* client whose power-on request is waiting for power good
  toSend,        \* states the handler has still to enqueue on its own queue
  toNotify,      \* the handler has still to call NotifyConnected
  enabledCount,  \* EdgeTpuTask::enabled_count_
  pmic, reset,   \* GPIOs kEdgeTpuPmic and kEdgeTpuReset
  classHandle,   \* EdgeTpuTask::class_handle_
  deviceHandle,  \* EdgeTpuTask::device_handle_
  allocated,     \* class instances allocated and not yet freed
  port,          \* what the USB host has told the task about the device
  lost,          \* the device has left the bus and the host has not noticed yet
  faults,        \* faults so far
  halted         \* a CHECK failed: the scheduler is suspended for good

mgrVars  == <<holds, mutex, usbInstance, usbError, driverInst>>
taskVars == <<powering, toSend, toNotify, enabledCount, pmic, reset>>
usbVars  == <<classHandle, deviceHandle, allocated, port, lost>>
vars == <<pc, given, queue, mgrVars, taskVars, usbVars, faults, halted>>

PowerRequests == {"SetPowerOn", "SetPowerOff", "GetPower"}
NextStates    == {"Unattached", "Attached", "SetInterface", "GetStatus",
                  "EnumerationFailed", "Error"}
Request == [type: PowerRequests, from: Clients] \cup [type: NextStates, from: {NULL}]

NextState(s)  == [type |-> s, from |-> NULL]

PCs == {"idle",
        "openLock", "openSend", "openWait", "openPoll", "openInit", "openRun",
        "dropSend", "dropWait", "dropDelay",
        "tempLock", "readTemp", "invokeLock", "invoke",
        "getSend", "getWait"}

TypeOK ==
  /\ pc \in [Clients -> PCs]
  /\ holds \subseteq Clients
  /\ mutex \in Clients \cup {NULL}
  /\ usbInstance \in Devices \cup {NULL} /\ driverInst \in Devices \cup {NULL}
  /\ classHandle \in Devices \cup {NULL} /\ deviceHandle \in Devices \cup {NULL}
  /\ usbError \in BOOLEAN
  /\ queue \in Seq(Request)
  /\ given \subseteq Clients
  /\ powering \in Clients \cup {NULL}
  /\ toSend \in Seq(NextStates)
  /\ toNotify \in BOOLEAN
  /\ enabledCount \in Nat
  /\ pmic \in BOOLEAN /\ reset \in BOOLEAN
  /\ allocated \subseteq Devices \cup {NULL}
  /\ port \in {"none", "attached", "enumerated", "failed", "silent"}
  /\ lost \in BOOLEAN
  /\ faults \in 0..MaxFaults
  /\ halted \in BOOLEAN

Init ==
  /\ pc = [c \in Clients |-> "idle"]
  /\ holds = {} /\ mutex = NULL
  /\ usbInstance = NULL /\ usbError = FALSE /\ driverInst = NULL
  /\ queue = <<>> /\ given = {}
  /\ powering = NULL /\ toSend = <<>> /\ toNotify = FALSE
  /\ enabledCount = 0 /\ pmic = FALSE /\ reset = FALSE
  /\ classHandle = NULL /\ deviceHandle = NULL /\ allocated = {}
  /\ port = "none" /\ lost = FALSE
  /\ faults = 0 /\ halted = FALSE

----------------------------------------------------------------------------
(* Shared helpers *)

Goto(c, l) == pc' = [pc EXCEPT ![c] = l]

\* xQueueSend(..., portMAX_DELAY) blocks the sender until there is a slot.
Enqueue(r) == /\ Len(queue) < QueueLength
              /\ queue' = Append(queue, r)

\* The weak_ptr context_ can still be locked.
Live == holds # {} \/ \E c \in Clients : pc[c] = "readTemp"

\* Mutant: the temporary reference of a GetTemperature is not counted.
LastRefIgnoringReaders(c) == holds \ {c} = {}

\* No reference other than those of c's current step keeps the context alive.
LastRef(c) == /\ holds \ {c} = {}
              /\ \A d \in Clients \ {c} : pc[d] # "readTemp"

\* The device answers transfers made through instance i.
Usable(i) == /\ port = "enumerated" /\ ~lost
             /\ i = deviceHandle /\ i \in allocated

Fault(kind) == /\ kind \in Faults
               /\ faults < MaxFaults
               /\ faults' = faults + 1

TaskIdle == powering = NULL /\ toSend = <<>> /\ ~toNotify

----------------------------------------------------------------------------
(* EdgeTpuManager::OpenDevice, called by an application task               *)

OpenDevice(c) ==
  /\ pc[c] = "idle" /\ c \notin holds
  /\ Goto(c, "openLock")
  /\ UNCHANGED <<given, queue, mgrVars, taskVars, usbVars, faults, halted>>

\* MutexLock, then context_.lock(): share the live context, or make a new one.
OpenLock(c) ==
  /\ pc[c] = "openLock" /\ mutex = NULL
  /\ \/ /\ Live
        /\ holds' = holds \cup {c}
        /\ Goto(c, "idle")
        /\ UNCHANGED mutex
     \/ /\ ~Live
        /\ mutex' = c
        /\ Goto(c, "openSend")
        /\ UNCHANGED holds
  /\ UNCHANGED <<usbInstance, usbError, driverInst,
                 given, queue, taskVars, usbVars, faults, halted>>

\* SendRequest enqueues and then waits for the callback to give its semaphore.
SendRequest(c, from, type, to) ==
  /\ pc[c] = from
  /\ Enqueue([type |-> type, from |-> c])
  /\ Goto(c, to)
  /\ UNCHANGED <<given, mgrVars, taskVars, usbVars, faults, halted>>

TakeResponse(c, from, to) ==
  /\ pc[c] = from /\ c \in given
  /\ given' = given \ {c}
  /\ Goto(c, to)
  /\ UNCHANGED <<queue, mgrVars, taskVars, usbVars, faults, halted>>

\* EdgeTpuContext::EdgeTpuContext
OpenSend(c)    == SendRequest(c, "openSend", "SetPowerOn", "openWait")
OpenPowered(c) == TakeResponse(c, "openWait", "openPoll")

\* The polling loop: usb_instance_ is seen, or an error is seen and consumed.
OpenFound(c) ==
  /\ pc[c] = "openPoll" /\ usbInstance # NULL
  /\ Goto(c, "openInit")
  /\ UNCHANGED <<given, queue, mgrVars, taskVars, usbVars, faults, halted>>

OpenError(c) ==
  /\ pc[c] = "openPoll" /\ usbInstance = NULL /\ usbError
  /\ usbError' = FALSE
  /\ Goto(c, "dropSend")
  /\ UNCHANGED <<holds, mutex, usbInstance, driverInst,
                 given, queue, taskVars, usbVars, faults, halted>>

\* usb_instance_ is read a second time to be passed to TpuDriver::Initialize.
OpenInit(c) ==
  /\ pc[c] = "openInit"
  /\ \/ /\ usbInstance = NULL
        /\ Goto(c, "dropSend")
        /\ UNCHANGED driverInst
     \/ /\ usbInstance # NULL
        /\ driverInst' = usbInstance
        /\ Goto(c, "openRun")
  /\ UNCHANGED <<holds, mutex, usbInstance, usbError,
                 given, queue, taskVars, usbVars, faults, halted>>

\* Mutant: the register accesses of Initialize are not checked.
OpenRunUnchecked(c) ==
  /\ pc[c] = "openRun"
  /\ holds' = {c} /\ mutex' = NULL
  /\ Goto(c, "idle")
  /\ UNCHANGED <<usbInstance, usbError, driverInst,
                 given, queue, taskVars, usbVars, faults, halted>>

\* Initialize CHECKs every register access; on success the context is published.
OpenRun(c) ==
  /\ pc[c] = "openRun"
  /\ \/ /\ Usable(driverInst)
        /\ holds' = {c} /\ mutex' = NULL
        /\ Goto(c, "idle")
        /\ UNCHANGED halted
     \/ /\ ~Usable(driverInst)
        /\ halted' = TRUE
        /\ UNCHANGED <<pc, holds, mutex>>
  /\ UNCHANGED <<usbInstance, usbError, driverInst,
                 given, queue, taskVars, usbVars, faults>>

----------------------------------------------------------------------------
(* Dropping references: EdgeTpuContext::~EdgeTpuContext                    *)

\* The weak_ptr expires with the last shared_ptr, before the destructor runs.
Close(c) ==
  /\ pc[c] = "idle" /\ c \in holds
  /\ holds' = holds \ {c}
  /\ Goto(c, IF LastRef(c) THEN "dropSend" ELSE "idle")
  /\ UNCHANGED <<mutex, usbInstance, usbError, driverInst,
                 given, queue, taskVars, usbVars, faults, halted>>

DropSend(c)  == SendRequest(c, "dropSend", "SetPowerOff", "dropWait")
DropTaken(c) == TakeResponse(c, "dropWait", "dropDelay")

\* The host has noticed that the device is gone and the task has been told.
DetachSeen == ~lost /\ \A i \in 1..Len(queue) : queue[i].type # "Unattached"

\* Mutant: the destructor does not delay.
DropDoneAtOnce(c) ==
  /\ pc[c] = "dropDelay"
  /\ mutex' = IF mutex = c THEN NULL ELSE mutex
  /\ Goto(c, "idle")
  /\ UNCHANGED <<holds, usbInstance, usbError, driverInst,
                 given, queue, taskVars, usbVars, faults, halted>>

\* vTaskDelay(30 ms); a failed OpenDevice still holds the mutex here.
DropDone(c) ==
  /\ pc[c] = "dropDelay"
  /\ DelaySuffices => pmic \/ DetachSeen
  /\ mutex' = IF mutex = c THEN NULL ELSE mutex
  /\ Goto(c, "idle")
  /\ UNCHANGED <<holds, usbInstance, usbError, driverInst,
                 given, queue, taskVars, usbVars, faults, halted>>

----------------------------------------------------------------------------
(* EdgeTpuManager::GetTemperature, Invoke, and EdgeTpuTask::GetPower       *)

Call(c, to) ==
  /\ pc[c] = "idle"
  /\ Goto(c, to)
  /\ UNCHANGED <<given, queue, mgrVars, taskVars, usbVars, faults, halted>>

GetTemperature(c) == "GetTemperature" \in Calls /\ Call(c, "tempLock")
Invoke(c)         == "Invoke" \in Calls /\ c \in holds /\ Call(c, "invokeLock")
GetPower(c)       == "GetPower" \in Calls /\ Call(c, "getSend")

TempLock(c) ==
  /\ pc[c] = "tempLock" /\ mutex = NULL
  /\ mutex' = IF Live THEN c ELSE NULL
  /\ Goto(c, IF Live THEN "readTemp" ELSE "idle")
  /\ UNCHANGED <<holds, usbInstance, usbError, driverInst,
                 given, queue, taskVars, usbVars, faults, halted>>

\* TpuDriver::GetTemperature CHECKs its register access.  The local shared_ptr may
\* have become the last one: then its destructor runs here, with the mutex still
\* held.
ReadTemp(c) ==
  /\ pc[c] = "readTemp"
  /\ \/ /\ Usable(driverInst)
        /\ LET last == holds = {}
           IN  /\ mutex' = IF last THEN c ELSE NULL
               /\ Goto(c, IF last THEN "dropSend" ELSE "idle")
        /\ UNCHANGED halted
     \/ /\ ~Usable(driverInst)
        /\ halted' = TRUE
        /\ UNCHANGED <<pc, mutex>>
  /\ UNCHANGED <<holds, usbInstance, usbError, driverInst,
                 given, queue, taskVars, usbVars, faults>>

InvokeLock(c) ==
  /\ pc[c] = "invokeLock" /\ mutex = NULL
  /\ mutex' = c
  /\ Goto(c, "invoke")
  /\ UNCHANGED <<holds, usbInstance, usbError, driverInst,
                 given, queue, taskVars, usbVars, faults, halted>>

\* A transfer that fails makes Invoke return an error; nothing is CHECKed.
InvokeDone(c) ==
  /\ pc[c] = "invoke"
  /\ mutex' = NULL
  /\ Goto(c, "idle")
  /\ UNCHANGED <<holds, usbInstance, usbError, driverInst,
                 given, queue, taskVars, usbVars, faults, halted>>

GetPowerSend(c)  == SendRequest(c, "getSend", "GetPower", "getWait")
GetPowerTaken(c) == TakeResponse(c, "getWait", "idle")

Client(c) ==
  \/ OpenLock(c) \/ OpenSend(c) \/ OpenPowered(c) \/ OpenFound(c)
  \/ OpenError(c) \/ OpenInit(c) \/ OpenRun(c)
  \/ DropSend(c) \/ DropTaken(c) \/ DropDone(c)
  \/ TempLock(c) \/ ReadTemp(c) \/ InvokeLock(c) \/ InvokeDone(c)
  \/ GetPowerSend(c) \/ GetPowerTaken(c)

Choose(c) ==
  OpenDevice(c) \/ Close(c) \/ GetTemperature(c) \/ Invoke(c) \/ GetPower(c)

----------------------------------------------------------------------------
(* EdgeTpuTask: QueueTask::TaskMain calls RequestHandler for each request  *)

Receive(type) ==
  /\ TaskIdle
  /\ queue # <<>> /\ Head(queue).type = type
  /\ queue' = Tail(queue)

Requester == Head(queue).from

\* Mutant: the first user's request is answered before power good.
HandlePowerOnEarly ==
  /\ Receive("SetPowerOn")
  /\ enabledCount' = enabledCount + 1
  /\ given' = given \cup {Requester}
  /\ pmic' = TRUE
  /\ powering' = IF enabledCount = 0 THEN Requester ELSE NULL
  /\ UNCHANGED <<pc, mgrVars, toSend, toNotify, reset, usbVars, faults, halted>>

\* HandleSetPowerRequest(true); only the first user switches the PMIC on, and
\* the reply waits for power good and a 10 ms delay.
HandlePowerOn ==
  /\ Receive("SetPowerOn")
  /\ enabledCount' = enabledCount + 1
  /\ \/ /\ enabledCount' > 1
        /\ given' = given \cup {Requester}
        /\ UNCHANGED <<pmic, powering>>
     \/ /\ enabledCount' = 1
        /\ pmic' = TRUE
        /\ powering' = Requester
        /\ UNCHANGED given
  /\ UNCHANGED <<pc, mgrVars, toSend, toNotify, reset, usbVars, faults, halted>>

\* Mutant: the power-good branch runs whether or not a request waits for it.
PowerGoodUnasked ==
  /\ reset' = TRUE
  /\ given' = given \cup {powering}
  /\ powering' = NULL
  /\ UNCHANGED <<pc, queue, mgrVars, toSend, toNotify, enabledCount, pmic,
                 usbVars, faults, halted>>

PowerGood ==
  /\ powering # NULL
  /\ reset' = TRUE
  /\ given' = given \cup {powering}
  /\ powering' = NULL
  /\ UNCHANGED <<pc, queue, mgrVars, toSend, toNotify, enabledCount, pmic,
                 usbVars, faults, halted>>

\* Mutant: every power-off request switches the power off.
HandlePowerOffAlways ==
  /\ Receive("SetPowerOff")
  /\ enabledCount' = IF enabledCount = 0 THEN 0 ELSE enabledCount - 1
  /\ pmic' = FALSE /\ reset' = FALSE
  /\ lost' = (port # "none")
  /\ given' = given \cup {Requester}
  /\ UNCHANGED <<pc, mgrVars, powering, toSend, toNotify, classHandle,
                 deviceHandle, allocated, port, faults, halted>>

\* Mutant: a power-off request is answered but not counted.
HandlePowerOffUncounted ==
  /\ Receive("SetPowerOff")
  /\ given' = given \cup {Requester}
  /\ UNCHANGED <<pc, mgrVars, powering, toSend, toNotify, enabledCount, pmic,
                 reset, usbVars, faults, halted>>

\* HandleSetPowerRequest(false); only the last user switches the power off.
HandlePowerOff ==
  /\ Receive("SetPowerOff")
  /\ enabledCount' = IF enabledCount = 0 THEN 0 ELSE enabledCount - 1
  /\ \/ /\ enabledCount' > 0
        /\ UNCHANGED <<pmic, reset, lost>>
     \/ /\ enabledCount' = 0
        /\ pmic' = FALSE /\ reset' = FALSE
        /\ lost' = (port # "none")
  /\ given' = given \cup {Requester}
  /\ UNCHANGED <<pc, mgrVars, powering, toSend, toNotify, classHandle,
                 deviceHandle, allocated, port, faults, halted>>

HandleGetPower ==
  /\ Receive("GetPower")
  /\ given' = given \cup {Requester}
  /\ UNCHANGED <<pc, mgrVars, taskVars, usbVars, faults, halted>>

HandleUnattached ==
  /\ Receive("Unattached")
  /\ usbInstance' = NULL
  /\ UNCHANGED <<pc, given, holds, mutex, usbError, driverInst, taskVars,
                 usbVars, faults, halted>>

\* USB_HostEdgeTpuInit allocates a class instance for device_handle.
HandleAttached ==
  /\ Receive("Attached")
  /\ \/ /\ classHandle' = deviceHandle
        /\ allocated' = allocated \cup {deviceHandle}
        /\ toSend' = <<"SetInterface">>
        /\ UNCHANGED faults
     \/ /\ Fault("alloc")
        /\ toSend' = <<"Error">>
        /\ UNCHANGED <<classHandle, allocated>>
  /\ UNCHANGED <<pc, given, mgrVars, powering, toNotify, enabledCount, pmic,
                 reset, deviceHandle, port, lost, halted>>

\* USB_HostEdgeTpuSetInterface(altsetting 0) runs its callback before it
\* returns.  It fails before the callback (one error), or the callback gets the
\* error and the call returns it too (two).  A dead device or a freed instance
\* may do either or appear to succeed.  NotifyConnected follows in every case.
HandleSetInterface ==
  /\ Receive("SetInterface")
  /\ toNotify' = TRUE
  /\ \/ /\ classHandle # NULL
        /\ toSend' = <<"GetStatus">>
        /\ UNCHANGED faults
     \/ /\ toSend' \in {<<"Error">>, <<"Error", "Error">>}
        /\ IF Usable(classHandle) THEN Fault("iface") ELSE UNCHANGED faults
  /\ UNCHANGED <<pc, given, mgrVars, powering, enabledCount, pmic, reset,
                 usbVars, halted>>

\* USB_HostEdgeTpuGetStatus never calls back; it fails if a pipe is closed.
HandleGetStatus ==
  /\ Receive("GetStatus")
  /\ toSend' \in IF Usable(classHandle) THEN {<<>>} ELSE {<<>>, <<"Error">>}
  /\ UNCHANGED <<pc, given, mgrVars, powering, toNotify, enabledCount, pmic,
                 reset, usbVars, faults, halted>>

\* Mutant: errors are not reported to the manager.
HandleErrorSilent ==
  /\ Receive("EnumerationFailed") \/ Receive("Error")
  /\ UNCHANGED <<pc, given, mgrVars, taskVars, usbVars, faults, halted>>

HandleError ==
  /\ Receive("EnumerationFailed") \/ Receive("Error")
  /\ usbError' = TRUE
  /\ UNCHANGED <<pc, given, holds, mutex, usbInstance, driverInst, taskVars,
                 usbVars, faults, halted>>

\* SetNextState from the handler: it blocks on its own queue when that is full.
SelfSend ==
  /\ toSend # <<>>
  /\ Enqueue(NextState(Head(toSend)))
  /\ toSend' = Tail(toSend)
  /\ UNCHANGED <<pc, given, mgrVars, powering, toNotify, enabledCount, pmic,
                 reset, usbVars, faults, halted>>

\* EdgeTpuManager::NotifyConnected(class_handle()), without the manager's mutex.
NotifyConnected ==
  /\ toSend = <<>> /\ toNotify
  /\ usbInstance' = classHandle
  /\ toNotify' = FALSE
  /\ UNCHANGED <<pc, given, queue, holds, mutex, usbError, driverInst, powering,
                 toSend, enabledCount, pmic, reset, usbVars, faults, halted>>

Task ==
  \/ HandlePowerOn \/ PowerGood \/ HandlePowerOff \/ HandleGetPower
  \/ HandleUnattached \/ HandleAttached \/ HandleSetInterface
  \/ HandleGetStatus \/ HandleError \/ SelfSend \/ NotifyConnected

----------------------------------------------------------------------------
(* USB host task: EdgeTpuTask::USBHostEvent.  The task has the higher       *)
(* priority, so a callback runs to its end once its queue send succeeds.    *)

\* A powered device enumerates (as an application, after its firmware download)
\* and the host stack delivers kUSB_HostEventAttach with a new device handle.
\* The name may be that of a leaked instance which nothing points to any more.
UsbAttach ==
  /\ port = "none" /\ pmic /\ reset
  /\ \E d \in Devices \ {usbInstance, driverInst, classHandle, deviceHandle} :
       /\ deviceHandle' = d
       /\ allocated' = allocated \ {d}
  /\ port' = "attached"
  /\ UNCHANGED <<pc, given, queue, mgrVars, taskVars, classHandle,
                 lost, faults, halted>>

UsbEnumerationDone ==
  /\ port = "attached"
  /\ Enqueue(NextState("Attached"))
  /\ port' = "enumerated"
  /\ UNCHANGED <<pc, given, mgrVars, taskVars, classHandle, deviceHandle,
                 allocated, lost, faults, halted>>

\* The host knows the device's VID and PID by then, so that HostEvent finds the
\* task's callback.
UsbEnumerationFail ==
  /\ port = "attached" \/ (port = "none" /\ pmic /\ reset)
  /\ Fault("enum")
  /\ Enqueue(NextState("EnumerationFailed"))
  /\ port' = "failed"
  /\ UNCHANGED <<pc, given, mgrVars, taskVars, classHandle, deviceHandle,
                 allocated, lost, halted>>

\* A powered device is not heard of again: it does not attach, or its enumeration
\* fails before the host has read its VID and PID, and HostEvent drops the event.
UsbSilent ==
  /\ port = "none" /\ pmic /\ reset
  /\ Fault("silent")
  /\ port' = "silent"
  /\ UNCHANGED <<pc, given, queue, mgrVars, taskVars, classHandle, deviceHandle,
                 allocated, lost, halted>>

\* The device drops off the bus although it has power; UsbDetach follows.
UsbLoss ==
  /\ port = "enumerated" /\ ~lost
  /\ Fault("loss")
  /\ lost' = TRUE
  /\ UNCHANGED <<pc, given, queue, mgrVars, taskVars, classHandle, deviceHandle,
                 allocated, port, halted>>

\* The default branch: an event with an error status.
UsbOtherEvent ==
  /\ port = "enumerated"
  /\ Fault("event")
  /\ Enqueue(NextState("Error"))
  /\ UNCHANGED <<pc, given, mgrVars, taskVars, usbVars, halted>>

\* kUSB_HostEventDetach: announce, then free the class instance at once.  A device
\* that has failed with its power on attaches again or stays away.
UsbDetach ==
  /\ lost /\ port = "enumerated"
  /\ Enqueue(NextState("Unattached"))
  /\ allocated' = allocated \ {classHandle}
  /\ \/ port' = "none"
     \/ port' = "silent" /\ pmic /\ reset /\ faults > 0
  /\ lost' = FALSE
  /\ UNCHANGED <<pc, given, mgrVars, taskVars, classHandle, deviceHandle,
                 faults, halted>>

\* A device that was never enumerated goes away without an event.
UsbForget ==
  /\ lost /\ port \in {"failed", "silent"}
  /\ port' = "none" /\ lost' = FALSE
  /\ UNCHANGED <<pc, given, queue, mgrVars, taskVars, classHandle,
                 deviceHandle, allocated, faults, halted>>

Usb == UsbAttach \/ UsbEnumerationDone \/ UsbDetach \/ UsbForget
UsbFault == UsbEnumerationFail \/ UsbSilent \/ UsbLoss \/ UsbOtherEvent

----------------------------------------------------------------------------
\* A failed CHECK suspends the scheduler: nothing else runs.
Halted == halted /\ UNCHANGED vars

Running ==
  \/ \E c \in Clients : Client(c) \/ Choose(c)
  \/ Task \/ Usb \/ UsbFault

Next == (~halted /\ Running) \/ Halted

(***************************************************************************)
(* Every task is scheduled: no task of these keeps the processor (each     *)
(* loop blocks or delays), and the USB host and the device act in their    *)
(* own time.  Blocked senders and lockers are queued by the kernel, hence  *)
(* strong fairness for a client's steps.  What a client decides to call is *)
(* never forced, and neither are faults.                                   *)
(***************************************************************************)
Fairness ==
  /\ \A c \in Clients : SF_vars(~halted /\ Client(c))
  /\ WF_vars(~halted /\ Task)
  /\ SF_vars(~halted /\ Usb)

Spec     == Init /\ [][Next]_vars
FairSpec == Spec /\ Fairness

----------------------------------------------------------------------------
(* Properties                                                              *)

\* Clients that have a constructed context at their disposal: they hold it,
\* use it, or are bringing it up with their power request answered.
Users == holds \cup
         {c \in Clients : \/ pc[c] \in {"openPoll", "openInit", "openRun", "readTemp"}
                          \/ pc[c] = "openWait" /\ c \in given}

PoweredUp == pmic /\ reset

\* Whoever has a context finds the device powered and out of reset, however the
\* power requests of contexts being made and destroyed by different tasks are
\* interleaved in the queue of HandleSetPowerRequest.
PowerWhileInUse == Users # {} => PoweredUp

\* The contexts whose power-on request has been handled and whose power-off
\* request has not: one for each client that is making or destroying one, and
\* one (named NULL) for the published context, however many clients share it.
Contexts ==
  {c \in Clients :
     \/ pc[c] \in {"openPoll", "openInit", "openRun", "dropSend"}
     \/ pc[c] = "openWait" /\ (c \in given \/ powering = c)
     \/ pc[c] = "dropWait" /\ c \notin given}
  \cup {d \in {NULL} : Live}

\* enabled_count_ never drifts from the contexts it stands for, so that its
\* clamp at zero (edgetpu_task.cc:135) never hides an unbalanced power-off.
CountBalances == enabledCount = Cardinality(Contexts)

\* The handler never waits for a slot in the queue that only it empties: a
\* state in which SetNextState blocks the EdgeTpuTask is a deadlock.
NoSelfBlock == toSend # <<>> => Len(queue) < QueueLength

\* The handler is never about to pass a freed class instance to the class
\* driver, and a detach never frees one that is already free (class_handle_ is
\* not cleared by a detach), as long as the USB side has not failed.
NoUseAfterFree == faults = 0 =>
  /\ TaskIdle /\ queue # <<>> /\ Head(queue).type \in {"SetInterface", "GetStatus"}
       => classHandle \in allocated
  /\ toNotify => classHandle \in allocated
  /\ lost /\ port = "enumerated" => classHandle \in allocated \cup {NULL}

\* OpenDevice never runs TpuDriver::Initialize against a device that has been
\* powered down: "Small delay ensuring usb instance is released"
\* (edgetpu_manager.cc:42) is there to exclude it, as long as the USB side works.
OpensLiveDevice ==
  faults = 0 => \A c \in Clients : pc[c] = "openRun" => Usable(driverInst)

\* The device leaves the bus of its own accord.
DropsOff == ~lost /\ lost' /\ PoweredUp'

\* Nothing the tasks do takes the device away from those who share a context: a
\* context is published for the device that is attached and answering, and it
\* stays so until the device itself drops off the bus.  From then on OpenDevice
\* shares the dead context (edgetpu_manager.cc:66-67) until its last reference is
\* dropped.
ContextOnLiveDevice ==
  [][Live' => Usable(driverInst)' \/ (Live /\ ~Usable(driverInst)) \/ DropsOff]_vars

\* OpenDevice returns, with or without a context (or a CHECK stopped the board),
\* unless the device stays silent for ever: nothing ends the polling loop then
\* (edgetpu_manager.cc:71-78).
OpenReturns ==
  (\A c \in Clients : pc[c] = "openLock" ~> pc[c] = "idle" \/ halted)
    \/ <>[](port = "silent")

\* The Edge TPU powers down after the last context reference leaves scope
\* (edgetpu_manager.h:40-42), unless somebody starts using it again.
PowersDown == Users = {} /\ PoweredUp ~> ~PoweredUp \/ Users # {} \/ halted

\* The sharing, queueing and counting above implements PowerLease.
Lease == INSTANCE PowerLease WITH users <- Users, on <- PoweredUp
RefinesLease == Lease!Spec
----------------------------------------------------------------------------
(* The inductive invariant behind PowerWhileInUse and CountBalances.        *)

\* The steps of OpenDevice that run under the mutex with no context published.
Opening == {"openSend", "openWait", "openPoll", "openInit", "openRun"}

\* The mutex is held by whoever is in a critical section.
MutexInv ==
  \A c \in Clients : pc[c] \in Opening \cup {"readTemp", "invoke"} => mutex = c

\* While a new context is being made none is published, and a holder is only
\* ever inside calls that presuppose its reference.
SharingInv ==
  /\ \A c \in Clients : pc[c] \in Opening => holds = {}
  /\ \A c \in holds :
       pc[c] \in {"idle", "tempLock", "readTemp", "invokeLock", "invoke",
                  "getSend", "getWait"}

\* What a queued or answered request says about the client that sent it.
AwaitedBy(type) == CASE type = "SetPowerOn"  -> "openWait"
                     [] type = "SetPowerOff" -> "dropWait"
                     [] OTHER                -> "getWait"

\* Every client request in the queue has a waiting sender of its own.
QueueInv ==
  /\ \A i \in 1..Len(queue) : queue[i].type \in PowerRequests =>
       /\ pc[queue[i].from] = AwaitedBy(queue[i].type)
       /\ queue[i].from \notin given
       /\ queue[i].from # powering
  /\ \A i, j \in 1..Len(queue) :
       /\ queue[i].type \in PowerRequests
       /\ queue[j].type \in PowerRequests
       /\ queue[i].from = queue[j].from
       => i = j
  /\ \A c \in given : pc[c] \in {"openWait", "dropWait", "getWait"}

\* The GPIOs follow the count, except while the handler waits for power good on
\* behalf of the one and only context.
PowerInv ==
  /\ powering = NULL => (pmic <=> enabledCount > 0) /\ (reset <=> enabledCount > 0)
  /\ powering # NULL => /\ enabledCount = 1
                        /\ pmic /\ ~reset
                        /\ pc[powering] = "openWait" /\ powering \notin given

IInv == /\ TypeOK
        /\ MutexInv
        /\ SharingInv
        /\ QueueInv
        /\ CountBalances
        /\ PowerInv
============================================================================
