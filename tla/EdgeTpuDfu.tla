----------------------------- MODULE EdgeTpuDfu -----------------------------
(***************************************************************************)
(* Firmware download to the Edge TPU.                                      *)
(*                                                                         *)
(* After power-on the Edge TPU is a USB DFU device without firmware.  The  *)
(* EdgeTpuDfuTask, a QueueTask that sends itself its next state, downloads *)
(* the image block by block, reads it back, compares it, and tells the     *)
(* device to start it; the device then comes back as the Edge TPU proper.  *)
(* An application task is in EdgeTpuManager::OpenDevice meanwhile: it      *)
(* polls for the device or for an error, and may try again after an error. *)
(*                                                                         *)
(* Sources: libs/tpu/edgetpu_dfu_task.{h,cc}, libs/usb/usb_host_task.cc,   *)
(* libs/tpu/edgetpu_manager.cc.  The USB host stack and the device are     *)
(* external; what EdgeTpuTask adds is in module EdgeTpu.                   *)
(***************************************************************************)
EXTENDS Naturals, Sequences

CONSTANTS Blocks,        \* blocks of 256 bytes in the firmware image
          DfuQueue,      \* slots of the EdgeTpuDfuTask request queue
          DfuFaults      \* bound: transfers and calls of the stack that fail

ASSUME DfuAssumption == /\ Blocks \in Nat \ {0}
                        /\ DfuQueue \in Nat \ {0}
                        /\ DfuFaults \in Nat

VARIABLES
  opener,       \* where the application task is in OpenDevice
  requests,     \* request_queue_: the next states the task has been sent
  pending,      \* transfer under way, named after the state that began it
  block,        \* current_block_number_; bytes_transferred_ is in step
  readBack,     \* read_back_data_: blocks in it that match the image
  dfuClass,     \* class_handle_: "null", or whose class instance it is
  dfuDevice,    \* device_handle_ and interface_handle_, likewise
  device,       \* the device itself: power, reset, firmware
  announced,    \* what the host has announced of the device in DFU mode;
                \* "unheard": its enumeration failed and nobody was told
  memory,       \* blocks of the image in the device's memory
  connected,    \* EdgeTpuManager::usb_instance_ is set
  dfuError,     \* EdgeTpuManager::usb_error_
  dfuFaults,    \* faults so far
  failedOpens   \* calls of OpenDevice that have returned nullptr

taskVars == <<requests, pending, block, readBack, dfuClass, dfuDevice>>
usbVars  == <<device, announced, memory>>
mgrVars  == <<opener, connected, dfuError, failedOpens>>
dfuVars  == <<taskVars, usbVars, mgrVars, dfuFaults>>

DfuStates == {"Unattached", "Attached", "SetInterface", "GetStatus", "Transfer",
              "ZeroLengthTransfer", "ReadBack", "GetStatusRead", "Detach",
              "Complete", "Error"}
Transfers == {"SetInterface", "GetStatus", "Transfer", "ZeroLengthTransfer",
              "ReadBack", "GetStatusRead", "Detach"}
Image     == 0..(Blocks - 1)

DfuTypeOK ==
  /\ opener \in {"idle", "polling", "open", "dropping", "halted"}
  /\ requests \in Seq(DfuStates) /\ Len(requests) <= DfuQueue
  /\ pending \in Transfers \cup {"none"}
  /\ block \in 0..Blocks
  /\ readBack \subseteq Image
  /\ dfuClass \in {"null", "current", "stale"}
  /\ dfuDevice \in {"null", "current", "stale"}
  /\ device \in {"off", "dfu", "reset", "told", "starting", "tpu", "lost"}
  /\ announced \in {"none", "attached", "enumerated", "unheard"}
  /\ memory \subseteq Image
  /\ connected \in BOOLEAN /\ dfuError \in BOOLEAN
  /\ dfuFaults \in 0..DfuFaults
  /\ failedOpens \in Nat

DfuInit ==
  /\ opener = "idle" /\ requests = <<>> /\ pending = "none"
  /\ block = 0 /\ readBack = {}
  /\ dfuClass = "null" /\ dfuDevice = "null"
  /\ device = "off" /\ announced = "none" /\ memory = {}
  /\ connected = FALSE /\ dfuError = FALSE
  /\ dfuFaults = 0 /\ failedOpens = 0

\* Bound on the failures counted; FewFailures says that it is not reached.
MaxFailures == 3 * DfuFaults

\* The device is on the bus in DFU mode; "told" to start what it was sent.
Present == device \in {"dfu", "told"}

DfuFault == dfuFaults < DfuFaults /\ dfuFaults' = dfuFaults + 1

----------------------------------------------------------------------------
(* EdgeTpuManager::OpenDevice and the context it makes                     *)

PowerOff == device' = "off" /\ memory' = {} /\ UNCHANGED announced

\* usb_error_ is reset, the new context destroyed, nullptr returned.
FailOpen ==
  /\ failedOpens <= MaxFailures
  /\ dfuError' = FALSE
  /\ failedOpens' = failedOpens + 1
  /\ opener' = "dropping"

\* The context's constructor switches the device on.  The first look at
\* usb_error_ follows at once, before the host has noticed the device.
OpenDevice ==
  /\ opener = "idle" /\ ~dfuError
  /\ opener' = "polling"
  /\ device' = "dfu"
  /\ UNCHANGED <<taskVars, announced, memory, connected, dfuError, failedOpens, dfuFaults>>

\* An error that came after the last call had returned ends this one.
OpenStaleError ==
  /\ opener = "idle" /\ dfuError
  /\ FailOpen
  /\ UNCHANGED <<taskVars, usbVars, connected, dfuFaults>>

OpenFound ==
  /\ opener = "polling" /\ connected /\ device = "tpu"
  /\ opener' = "open"
  /\ UNCHANGED <<taskVars, usbVars, connected, dfuError, failedOpens, dfuFaults>>

\* TpuDriver::Initialize of a device that has just gone: its CHECKs fail.
OpenHalts ==
  /\ opener = "polling" /\ connected /\ device = "lost"
  /\ opener' = "halted"
  /\ UNCHANGED <<taskVars, usbVars, connected, dfuError, failedOpens, dfuFaults>>

OpenError ==
  /\ opener = "polling" /\ ~connected /\ dfuError
  /\ FailOpen
  /\ PowerOff
  /\ UNCHANGED <<taskVars, connected, dfuFaults>>

Close ==
  /\ opener = "open"
  /\ opener' = "dropping"
  /\ PowerOff
  /\ UNCHANGED <<taskVars, connected, dfuError, failedOpens, dfuFaults>>

\* The destructor waits 30 ms, in which the host and the
\* tasks notice that the device has gone.
Dropped ==
  /\ opener = "dropping"
  /\ announced = "none" /\ ~connected /\ pending = "none" /\ requests = <<>>
  /\ opener' = "idle"
  /\ UNCHANGED <<taskVars, usbVars, connected, dfuError, failedOpens, dfuFaults>>

----------------------------------------------------------------------------
(* USB_DFUHostEvent, called by the USB host task through HostEvent         *)

\* SetNextState: the queue must have room.
SetNextState(q, s) == /\ Len(q) < DfuQueue
                      /\ requests' = Append(q, s)

\* The host debounces a new device for longer than the task needs to empty its
\* queue, and cancels the transfers of one that has gone.
UsbAttach ==
  /\ device = "dfu" /\ announced = "none" /\ pending = "none" /\ requests = <<>>
  /\ announced' = "attached"
  /\ dfuDevice' = "current"
  /\ UNCHANGED <<requests, pending, block, readBack, dfuClass, device, memory,
                 mgrVars, dfuFaults>>

UsbEnumerationDone ==
  /\ device = "dfu" /\ announced = "attached"
  /\ announced' = "enumerated"
  /\ SetNextState(requests, "Attached")
  /\ UNCHANGED <<pending, block, readBack, dfuClass, dfuDevice, device, memory,
                 mgrVars, dfuFaults>>

\* The enumeration fails with kStatus_USB_TransferFailed: the default branch of
\* USB_DFUHostEvent.
UsbEnumerationFailed ==
  /\ device = "dfu" /\ announced = "attached"
  /\ DfuFault
  /\ announced' = "enumerated"
  /\ SetNextState(requests, "Error")
  /\ UNCHANGED <<pending, block, readBack, dfuClass, dfuDevice, device, memory, mgrVars>>

\* The enumeration fails in another way, or before the host has read the identity of
\* the device, so that HostEvent finds no handler for it: nothing is posted.
UsbEnumerationUnheard ==
  /\ device = "dfu" /\ announced \in {"none", "attached"}
  /\ pending = "none" /\ requests = <<>>
  /\ DfuFault
  /\ announced' = "unheard"
  /\ UNCHANGED <<taskVars, device, memory, mgrVars>>

\* The device in DFU mode has gone: it is without power, has started, or was
\* reset and is about to come back.
UsbDetach ==
  /\ ~Present /\ announced \in {"attached", "enumerated"}
  /\ announced' = "none"
  /\ SetNextState(requests, "Unattached")
  /\ dfuClass' = IF dfuClass = "current" THEN "stale" ELSE dfuClass
  /\ dfuDevice' = "stale"
  /\ device' = IF device = "reset" THEN "dfu" ELSE device
  /\ UNCHANGED <<pending, block, readBack, memory, mgrVars, dfuFaults>>

\* One that was never announced goes without an event.
UsbForget ==
  /\ ~Present /\ announced = "unheard"
  /\ announced' = "none"
  /\ dfuDevice' = IF dfuDevice = "current" THEN "stale" ELSE dfuDevice
  /\ UNCHANGED <<requests, pending, block, readBack, dfuClass, device, memory, mgrVars, dfuFaults>>

\* The device falls off the bus in the middle of the download.
DeviceReset ==
  /\ Present /\ announced = "enumerated"
  /\ DfuFault
  /\ device' = "reset" /\ memory' = {}
  /\ UNCHANGED <<taskVars, announced, mgrVars>>

\* The started device is announced to EdgeTpuTask, which calls NotifyConnected;
\* when it has gone NotifyConnected(nullptr) follows.
TpuConnected ==
  /\ device = "starting" /\ announced = "none"
  /\ device' = "tpu"
  /\ connected' = TRUE
  /\ UNCHANGED <<taskVars, announced, memory, opener, dfuError, failedOpens, dfuFaults>>

TpuDisconnected ==
  /\ device \in {"off", "lost"} /\ connected
  /\ connected' = FALSE
  /\ UNCHANGED <<taskVars, usbVars, opener, dfuError, failedOpens, dfuFaults>>

\* The Edge TPU falls off the bus, in use or before OpenDevice has seen it, until its
\* power is cycled.
TpuLost ==
  /\ device = "tpu"
  /\ DfuFault
  /\ device' = "lost" /\ memory' = {}
  /\ UNCHANGED <<taskVars, announced, mgrVars>>

----------------------------------------------------------------------------
(* EdgeTpuDfuTask::HandleNextState                                         *)

Handle(s) == requests # <<>> /\ Head(requests) = s

\* The transfer can be started and answered.
Reachable == dfuClass = "current" /\ Present

\* kUnattached only leaves the switch.
HandleUnattached ==
  /\ Handle("Unattached")
  /\ requests' = Tail(requests)
  /\ UNCHANGED <<pending, block, readBack, dfuClass, dfuDevice, usbVars, mgrVars, dfuFaults>>

\* USB_HostDfuInit allocates a class instance for the device.
HandleAttached ==
  /\ Handle("Attached")
  /\ \/ /\ dfuClass' = dfuDevice
        /\ SetNextState(Tail(requests), "SetInterface")
        /\ UNCHANGED dfuFaults
     \/ /\ DfuFault
        /\ SetNextState(Tail(requests), "Error")
        /\ UNCHANGED dfuClass
  /\ UNCHANGED <<pending, block, readBack, dfuDevice, usbVars, mgrVars>>

\* The states that start a transfer.
HandleTransfer ==
  /\ requests # <<>> /\ Head(requests) \in Transfers
  /\ \/ /\ Reachable
        /\ pending' = Head(requests)
        /\ requests' = Tail(requests)
        /\ UNCHANGED dfuFaults
     \/ /\ IF Reachable THEN DfuFault ELSE UNCHANGED dfuFaults
        /\ SetNextState(Tail(requests), "Error")
        /\ UNCHANGED pending
  /\ UNCHANGED <<block, readBack, dfuClass, dfuDevice, usbVars, mgrVars>>

\* kComplete: bus reset, USB_HostDfuDeinit, re-enumeration; the device starts.
HandleComplete ==
  /\ Handle("Complete")
  /\ \/ /\ requests' = Tail(requests)
        /\ UNCHANGED dfuFaults
     \/ /\ IF Reachable THEN DfuFault ELSE UNCHANGED dfuFaults
        /\ SetNextState(Tail(requests), "Error")
  /\ dfuClass' = "null"
  /\ device' = IF device = "told" THEN "starting" ELSE device
  /\ UNCHANGED <<pending, block, readBack, dfuDevice, announced, memory, mgrVars>>

\* Mutant of HandleError: EdgeTpuManager is not told.
HandleErrorUnreported ==
  /\ Handle("Error")
  /\ requests' = Tail(requests)
  /\ UNCHANGED <<pending, block, readBack, dfuClass, dfuDevice, usbVars, mgrVars, dfuFaults>>

HandleError ==
  /\ Handle("Error")
  /\ requests' = Tail(requests)
  /\ dfuError' = TRUE
  /\ UNCHANGED <<pending, block, readBack, dfuClass, dfuDevice, usbVars,
                 opener, connected, failedOpens, dfuFaults>>

----------------------------------------------------------------------------
(* The callbacks of the transfers, called by the USB host task             *)

Callback(t, s) ==
  /\ pending = t /\ Reachable
  /\ pending' = "none"
  /\ SetNextState(requests, s)
  /\ UNCHANGED <<dfuClass, dfuDevice, announced, mgrVars, dfuFaults>>

\* Any transfer may end with an error, and it does when the device has gone.
CallbackFailed ==
  /\ pending # "none"
  /\ pending' = "none"
  /\ IF Reachable THEN DfuFault ELSE UNCHANGED dfuFaults
  /\ SetNextState(requests, "Error")
  /\ UNCHANGED <<block, readBack, dfuClass, dfuDevice, usbVars, mgrVars>>

SetInterfaceCallback ==
  /\ Callback("SetInterface", "GetStatus")
  /\ UNCHANGED <<block, readBack, device, memory>>

GetStatusCallback ==
  /\ Callback("GetStatus", IF block < Blocks THEN "Transfer" ELSE "ZeroLengthTransfer")
  /\ UNCHANGED <<block, readBack, device, memory>>

TransferCallback ==
  /\ Callback("Transfer", "GetStatus")
  /\ memory' = memory \cup {block}
  /\ block' = block + 1
  /\ UNCHANGED <<readBack, device>>

ZeroLengthTransferCallback ==
  /\ Callback("ZeroLengthTransfer", "ReadBack")
  /\ block' = 0
  /\ UNCHANGED <<readBack, device, memory>>

\* The block read overwrites what the buffer held at its place.
ReadBackCallback ==
  /\ Callback("ReadBack", "GetStatusRead")
  /\ readBack' = (readBack \ {block}) \cup (memory \cap {block})
  /\ block' = block + 1
  /\ UNCHANGED <<device, memory>>

\* Mutant of GetStatusReadCallback: what was read back is not compared.
GetStatusReadUncompared ==
  /\ \/ /\ block < Blocks
        /\ Callback("GetStatusRead", "ReadBack")
        /\ UNCHANGED <<block, readBack>>
     \/ /\ block = Blocks
        /\ Callback("GetStatusRead", "Detach")
        /\ readBack' = {}
        /\ block' = 0
  /\ UNCHANGED <<device, memory>>

\* Mutant of GetStatusReadCallback: the counters are not reset.
GetStatusReadUnreset ==
  /\ \/ /\ block < Blocks
        /\ Callback("GetStatusRead", "ReadBack")
     \/ /\ block = Blocks
        /\ Callback("GetStatusRead", IF readBack = Image THEN "Detach" ELSE "Error")
  /\ UNCHANGED <<block, readBack, device, memory>>

GetStatusReadCallback ==
  /\ \/ /\ block < Blocks
        /\ Callback("GetStatusRead", "ReadBack")
        /\ UNCHANGED <<block, readBack>>
     \/ /\ block = Blocks
        /\ Callback("GetStatusRead", IF readBack = Image THEN "Detach" ELSE "Error")
        /\ readBack' = {}
        /\ block' = 0
  /\ UNCHANGED <<device, memory>>

DetachCallback ==
  /\ Callback("Detach", "Complete")
  /\ device' = "told"
  /\ UNCHANGED <<block, readBack, memory>>

----------------------------------------------------------------------------

DfuTask == HandleUnattached \/ HandleAttached \/ HandleTransfer \/ HandleComplete \/ HandleError

DfuCallback == \/ SetInterfaceCallback \/ GetStatusCallback \/ TransferCallback
               \/ ZeroLengthTransferCallback \/ ReadBackCallback
               \/ GetStatusReadCallback \/ DetachCallback

UsbHost == \/ UsbAttach \/ UsbEnumerationDone \/ UsbDetach \/ UsbForget
           \/ TpuConnected \/ TpuDisconnected

UsbFault == UsbEnumerationFailed \/ UsbEnumerationUnheard \/ DeviceReset \/ TpuLost

Manager == \/ OpenDevice \/ OpenStaleError \/ OpenFound \/ OpenHalts \/ OpenError
           \/ Close \/ Dropped

\* A CHECK that failed has suspended the scheduler for good.
Awake == opener # "halted"

DfuNext == /\ Awake
           /\ Manager \/ UsbHost \/ UsbFault \/ DfuTask \/ DfuCallback \/ CallbackFailed

\* The tasks are scheduled, and the stack ends every transfer; nobody has to
\* call OpenDevice again.
DfuFairness ==
  /\ WF_dfuVars(Awake /\ DfuTask) /\ WF_dfuVars(Awake /\ UsbHost)
  /\ WF_dfuVars(Awake /\ (DfuCallback \/ CallbackFailed))
  /\ WF_dfuVars(Awake /\ (OpenFound \/ OpenHalts \/ OpenError \/ Dropped))

DfuSpec == DfuInit /\ [][DfuNext]_dfuVars /\ DfuFairness

----------------------------------------------------------------------------

\* A device that is told to start what it was sent holds the whole image, as it was
\* read back and compared: whatever failed in earlier downloads, and although their
\* counters and buffer may be left in the middle (edgetpu_dfu_task.cc:72-78,
\* 157-205, 230-232).
BootsWholeImage == device \in {"told", "starting", "tpu"} => memory = Image

\* What goes wrong once makes OpenDevice fail three times at most: the failed
\* transfer itself, the error of the transfer that was cut short by switching the
\* device off, which is only found by the next call (edgetpu_manager.cc:72-76), and
\* the comparison of a read-back that began in the middle.
FewFailures == failedOpens <= 3 * dfuFaults

\* An application that calls OpenDevice again after every nullptr gets its context:
\* no error leaves a state behind that later calls cannot leave.  Unless OpenDevice
\* polls for ever (edgetpu_manager.cc:71-78), or halts, because of a failure of which it
\* is told nothing: an enumeration that failed with another status than
\* kStatus_USB_TransferFailed or before the device was known (edgetpu_dfu_task.cc:72-80,
\* usb_host_task.cc:69-71), or an Edge TPU that went before OpenDevice saw it.
RetriesSucceed ==
  ([]<>(opener = "idle") => []<><<OpenDevice \/ OpenStaleError>>_dfuVars)
     => []<>(opener = "open") \/ <>[](announced = "unheard" \/ device = "lost")

====
