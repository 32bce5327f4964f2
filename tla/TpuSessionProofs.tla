-------------------------- MODULE TpuSessionProofs --------------------------
(***************************************************************************)
(* Theorems about TpuSession and the bring-up of EdgeTpuDfu in it, for     *)
(* firmware images of any size, request queues of any length, any number   *)
(* of faults and any set of models: what the Edge TPU starts is the whole  *)
(* image, an inference runs with the parameters of its own model, and a    *)
(* fault makes three calls of OpenDevice fail at most.                     *)
(***************************************************************************)
EXTENDS TpuSession, SequenceTheorems, TLAPS

----------------------------------------------------------------------------
(* The queue of states                                                     *)

\* The state s is queued, or the transfer it began is under way.
InStage(s) == pending = s \/ \E i \in 1..Len(requests) : requests[i] = s

OnlyUnattached(q) == \A i \in 1..Len(q) : q[i] = "Unattached"

\* The task works on one state at a time, apart from news that the device has gone.
OneStage ==
  /\ pending # "none" => OnlyUnattached(requests)
  /\ \A i, j \in 1..Len(requests) :
       requests[i] # "Unattached" /\ requests[j] # "Unattached" => i = j

LEMMA TailOfRequests ==
  ASSUME DfuTypeOK, requests # <<>>
  PROVE  /\ Head(requests) \in DfuStates /\ Tail(requests) \in Seq(DfuStates)
         /\ Len(requests) \in Nat \ {0} /\ Len(Tail(requests)) = Len(requests) - 1
         /\ \A i \in 1..Len(Tail(requests)) : Tail(requests)[i] = requests[i + 1]
         /\ Head(requests) = requests[1]
         /\ Len(Tail(requests)) <= DfuQueue
<1>1. /\ requests \in Seq(DfuStates) /\ Len(requests) <= DfuQueue /\ DfuQueue \in Nat
  BY DfuAssumption DEF DfuTypeOK
<1>2. Len(requests) \in Nat \ {0}
  BY <1>1, EmptySeq, LenProperties
<1>3. QED
  BY <1>1, <1>2, HeadTailProperties

LEMMA AppendedRequest ==
  ASSUME DfuTypeOK, NEW q \in Seq(DfuStates), NEW s \in DfuStates, SetNextState(q, s)
  PROVE  /\ requests' \in Seq(DfuStates) /\ Len(requests') <= DfuQueue
         /\ Len(q) \in Nat /\ Len(requests') = Len(q) + 1
         /\ \A i \in 1..Len(q) : requests'[i] = q[i]
         /\ requests'[Len(q) + 1] = s
BY AppendProperties, LenProperties, DfuAssumption DEF SetNextState

\* A transfer under way ends and the next state is queued, or the state at the front
\* is followed by the next one.
LEMMA StageHead ==
  ASSUME DfuTypeOK, OneStage, requests # <<>>, Head(requests) # "Unattached"
  PROVE  pending = "none" /\ OnlyUnattached(Tail(requests))
<1>1. 1 \in 1..Len(requests) /\ requests[1] # "Unattached"
  BY TailOfRequests
<1>2. \A i \in 1..Len(Tail(requests)) : i + 1 \in 1..Len(requests) /\ i + 1 # 1
  BY TailOfRequests
<1>3. QED
  BY <1>1, <1>2, TailOfRequests DEF OneStage, OnlyUnattached

LEMMA StageAppend ==
  ASSUME DfuTypeOK, NEW q \in Seq(DfuStates), OnlyUnattached(q), NEW s \in DfuStates,
         SetNextState(q, s), pending' = "none"
  PROVE  OneStage' /\ \A u \in DfuStates \ {"Unattached"} : InStage(u)' => u = s
<1>0. /\ Len(q) \in Nat /\ Len(requests') = Len(q) + 1
      /\ \A i \in 1..Len(q) : requests'[i] = q[i]
      /\ requests'[Len(q) + 1] = s
  BY AppendedRequest
<1>1. \A i \in 1..Len(requests') :
        \/ i \in 1..Len(q) /\ requests'[i] = "Unattached"
        \/ i = Len(q) + 1 /\ requests'[i] = s
  <2>1. \A i \in 1..(Len(q) + 1) : i \in 1..Len(q) \/ i = Len(q) + 1
    BY <1>0
  <2>2. QED
    BY <1>0, <2>1 DEF OnlyUnattached
<1>2. OneStage'
  BY <1>1 DEF OneStage
<1>3. ASSUME NEW u \in DfuStates \ {"Unattached"}, InStage(u)' PROVE u = s
  BY <1>1, <1>3 DEF InStage, DfuStates
<1>4. QED
  BY <1>2, <1>3

\* Taking a state off the queue leaves those behind it.
LEMMA StageTail ==
  ASSUME DfuTypeOK, OneStage, requests # <<>>, requests' = Tail(requests),
         \/ pending' = pending
         \/ /\ pending' = Head(requests) /\ Head(requests) # "Unattached"
            /\ pending = "none"
  PROVE  OneStage' /\ \A s \in DfuStates : InStage(s)' => InStage(s)
<1>1. \A i \in 1..Len(requests') : i + 1 \in 1..Len(requests) /\ requests'[i] = requests[i + 1]
  BY TailOfRequests
<1>2. ASSUME NEW s \in DfuStates, InStage(s)' PROVE InStage(s)
  <2>1. CASE pending' = s
    BY <2>1, TailOfRequests DEF InStage, DfuStates
  <2>2. CASE \E i \in 1..Len(requests') : requests'[i] = s
    BY <1>1, <2>2 DEF InStage
  <2>3. QED
    BY <1>2, <2>1, <2>2 DEF InStage
<1>3. OneStage'
  <2>1. \A i, j \in 1..Len(requests') :
          requests'[i] # "Unattached" /\ requests'[j] # "Unattached" => i = j
    <3>1. SUFFICES ASSUME NEW i \in 1..Len(requests'), NEW j \in 1..Len(requests'),
                          requests'[i] # "Unattached", requests'[j] # "Unattached"
                   PROVE  i = j
      OBVIOUS
    <3>2. i + 1 = j + 1
      BY <1>1, <3>1 DEF OneStage
    <3>3. QED
      BY <3>2
  <2>2. pending' # "none" => OnlyUnattached(requests')
    <3>1. CASE Head(requests) # "Unattached"
      BY <3>1, StageHead
    <3>2. CASE Head(requests) = "Unattached"
      BY <1>1, <3>2 DEF OneStage, OnlyUnattached
    <3>3. QED
      BY <3>1, <3>2
  <2>3. QED
    BY <2>1, <2>2 DEF OneStage
<1>4. QED
  BY <1>2, <1>3

\* The news that the device has gone goes to the end of the queue.
LEMMA StageGone ==
  ASSUME DfuTypeOK, OneStage, SetNextState(requests, "Unattached"), pending' = pending
  PROVE  OneStage' /\ \A s \in DfuStates \ {"Unattached"} : InStage(s)' => InStage(s)
<1>1. requests \in Seq(DfuStates) /\ "Unattached" \in DfuStates
  BY DEF DfuTypeOK, DfuStates
<1>2. \A i \in 1..Len(requests') :
        \/ i \in 1..Len(requests) /\ requests'[i] = requests[i]
        \/ i = Len(requests) + 1 /\ requests'[i] = "Unattached"
  BY <1>1, AppendedRequest
<1>3. QED
  BY <1>2 DEF OneStage, OnlyUnattached, InStage

----------------------------------------------------------------------------
(* The bring-up: types                                                     *)

\* The task transfers and reads back blocks of the image only.
BlockInImage == InStage("Transfer") \/ InStage("ReadBack") => block < Blocks

LEMMA DfuTypeInit == DfuInit => DfuTypeOK
<1>1. <<>> \in Seq(DfuStates) /\ Len(<<>>) = 0
  BY EmptySeq
<1>2. DfuInit => connected \in BOOLEAN /\ dfuError \in BOOLEAN
  BY DEF DfuInit
<1>3. QED
  BY <1>1, <1>2, DfuAssumption DEF DfuInit, DfuTypeOK, Image

LEMMA DfuTypeManager ==
  ASSUME DfuTypeOK,
         Manager
  PROVE  DfuTypeOK'
<1>1. UNCHANGED <<requests, pending, block, readBack, dfuClass, dfuDevice, announced,
                  connected, dfuFaults>>
  BY DEF Manager, OpenDevice, OpenStaleError, OpenFound, OpenHalts, OpenError, Close,
         Dropped, FailOpen, PowerOff, taskVars, usbVars
<1>2. dfuError' \in BOOLEAN
  <2>1. dfuError' = dfuError \/ dfuError' = FALSE
    BY DEF Manager, OpenDevice, OpenStaleError, OpenFound, OpenHalts, OpenError, Close, Dropped, FailOpen
  <2>2. QED
    BY <2>1 DEF DfuTypeOK
<1>3. /\ opener' \in {"polling", "open", "dropping", "idle", "halted"}
      /\ device' \in {device, "dfu", "off"} /\ memory' \in {memory, {}}
      /\ failedOpens' \in {failedOpens, failedOpens + 1}
  BY DEF Manager, OpenDevice, OpenStaleError, OpenFound, OpenHalts, OpenError, Close,
         Dropped, FailOpen, PowerOff, usbVars
<1>4. QED
  BY <1>1, <1>2, <1>3 DEF DfuTypeOK

LEMMA DfuTypeUsb ==
  ASSUME DfuTypeOK, UsbHost \/ UsbFault
  PROVE  DfuTypeOK'
<1>1. requests \in Seq(DfuStates)
  BY DEF DfuTypeOK
<1>2. CASE UsbAttach \/ UsbForget \/ UsbEnumerationUnheard \/ DeviceReset \/ TpuLost
  BY <1>2, DfuAssumption DEF UsbAttach, UsbForget, UsbEnumerationUnheard, DeviceReset,
     TpuLost, DfuFault, DfuTypeOK, taskVars, mgrVars
<1>3. CASE UsbEnumerationDone
  <2>1. requests' \in Seq(DfuStates) /\ Len(requests') <= DfuQueue
    BY <1>1, <1>3, AppendedRequest DEF UsbEnumerationDone, DfuStates
  <2>2. QED
    BY <1>3, <2>1 DEF UsbEnumerationDone, DfuTypeOK, mgrVars
<1>4. CASE UsbEnumerationFailed
  <2>1. requests' \in Seq(DfuStates) /\ Len(requests') <= DfuQueue
    BY <1>1, <1>4, AppendedRequest DEF UsbEnumerationFailed, DfuStates
  <2>2. QED
    BY <1>4, <2>1, DfuAssumption DEF UsbEnumerationFailed, DfuTypeOK, mgrVars, DfuFault
<1>5. CASE UsbDetach
  <2>1. requests' \in Seq(DfuStates) /\ Len(requests') <= DfuQueue
    BY <1>1, <1>5, AppendedRequest DEF UsbDetach, DfuStates
  <2>2. QED
    BY <1>5, <2>1 DEF UsbDetach, DfuTypeOK, mgrVars
<1>6. CASE TpuConnected \/ TpuDisconnected
  <2>1. connected' \in BOOLEAN
    BY <1>6 DEF TpuConnected, TpuDisconnected
  <2>2. QED
    BY <1>6, <2>1 DEF TpuConnected, TpuDisconnected, DfuTypeOK, taskVars, usbVars
<1>7. QED
  BY <1>2, <1>3, <1>4, <1>5, <1>6 DEF UsbHost, UsbFault

LEMMA DfuTypeTask ==
  ASSUME DfuTypeOK, DfuTask
  PROVE  DfuTypeOK'
<1>1. requests # <<>>
  BY DEF DfuTask, HandleUnattached, HandleAttached, HandleTransfer, HandleComplete,
         HandleError, Handle
<1>2. Tail(requests) \in Seq(DfuStates) /\ Len(Tail(requests)) <= DfuQueue
  BY <1>1, TailOfRequests
<1>3. ASSUME NEW s \in DfuStates, SetNextState(Tail(requests), s)
      PROVE  requests' \in Seq(DfuStates) /\ Len(requests') <= DfuQueue
  BY <1>2, <1>3, AppendedRequest
<1>4. requests' \in Seq(DfuStates) /\ Len(requests') <= DfuQueue
  <2>1. \/ requests' = Tail(requests)
        \/ SetNextState(Tail(requests), "SetInterface")
        \/ SetNextState(Tail(requests), "Error")
    BY DEF DfuTask, HandleUnattached, HandleAttached, HandleTransfer, HandleComplete, HandleError
  <2>2. QED
    BY <1>2, <1>3, <2>1 DEF DfuStates
<1>5. CASE HandleUnattached \/ HandleError
  BY <1>4, <1>5 DEF HandleUnattached, HandleError, DfuTypeOK, usbVars, mgrVars
<1>6. CASE HandleAttached
  BY <1>4, <1>6, DfuAssumption DEF HandleAttached, DfuFault, DfuTypeOK, usbVars, mgrVars
<1>7. CASE HandleTransfer
  BY <1>4, <1>7, DfuAssumption DEF HandleTransfer, DfuFault, DfuTypeOK, usbVars, mgrVars
<1>8. CASE HandleComplete
  BY <1>4, <1>8, DfuAssumption DEF HandleComplete, DfuFault, DfuTypeOK, usbVars, mgrVars
<1>9. QED
  BY <1>5, <1>6, <1>7, <1>8 DEF DfuTask

LEMMA DfuTypeCallback ==
  ASSUME DfuTypeOK, BlockInImage, DfuCallback \/ CallbackFailed
  PROVE  DfuTypeOK'
<1>1. requests \in Seq(DfuStates) /\ Blocks \in Nat \ {0} /\ block \in 0..Blocks
  BY DfuAssumption DEF DfuTypeOK
<1>2. ASSUME NEW t, NEW s \in DfuStates, Callback(t, s)
      PROVE  /\ requests' \in Seq(DfuStates) /\ Len(requests') <= DfuQueue
             /\ pending' = "none" /\ pending = t
             /\ UNCHANGED <<dfuClass, dfuDevice, announced, opener, connected, dfuError,
                            failedOpens, dfuFaults>>
  BY <1>1, <1>2, AppendedRequest DEF Callback, mgrVars
<1>3. CASE SetInterfaceCallback \/ GetStatusCallback \/ ZeroLengthTransferCallback \/ DetachCallback
  BY <1>1, <1>2, <1>3 DEF SetInterfaceCallback, GetStatusCallback,
     ZeroLengthTransferCallback, DetachCallback, DfuTypeOK, DfuStates
<1>4. CASE TransferCallback \/ ReadBackCallback
  <2>1. block < Blocks
    BY <1>4 DEF BlockInImage, InStage, TransferCallback, ReadBackCallback, Callback
  <2>2. block \in Image /\ block + 1 \in 0..Blocks
    BY <1>1, <2>1 DEF Image
  <2>3. /\ requests' \in Seq(DfuStates) /\ Len(requests') <= DfuQueue /\ pending' = "none"
        /\ UNCHANGED <<dfuClass, dfuDevice, announced, opener, connected, dfuError,
                       failedOpens, dfuFaults>>
    BY <1>2, <1>4 DEF TransferCallback, ReadBackCallback, DfuStates
  <2>4. block' = block + 1 /\ UNCHANGED device
    BY <1>4 DEF TransferCallback, ReadBackCallback
  <2>5. memory' \subseteq Image /\ readBack' \subseteq Image
    BY <1>4, <2>2 DEF TransferCallback, ReadBackCallback, DfuTypeOK
  <2>6. QED
    BY <2>2, <2>3, <2>4, <2>5 DEF DfuTypeOK
<1>5. CASE GetStatusReadCallback
  BY <1>1, <1>2, <1>5 DEF GetStatusReadCallback, DfuTypeOK, DfuStates
<1>6. CASE CallbackFailed
  <2>1. requests' \in Seq(DfuStates) /\ Len(requests') <= DfuQueue
    BY <1>1, <1>6, AppendedRequest DEF CallbackFailed, DfuStates
  <2>2. QED
    BY <1>6, <2>1, DfuAssumption DEF CallbackFailed, DfuFault, DfuTypeOK, usbVars, mgrVars
<1>7. QED
  BY <1>3, <1>4, <1>5, <1>6 DEF DfuCallback

LEMMA DfuTypeNext ==
  ASSUME DfuTypeOK, BlockInImage, DfuNext
  PROVE  DfuTypeOK'
BY DfuTypeManager, DfuTypeUsb, DfuTypeTask, DfuTypeCallback DEF DfuNext

----------------------------------------------------------------------------
(* The bring-up: what the device starts                                    *)

\* The device is without power unless a context is in use, and the context finds the
\* Edge TPU only where it has been announced.
OpenerInv ==
  /\ opener \in {"idle", "dropping"} => device = "off"
  /\ opener = "idle" => announced = "none" /\ pending = "none" /\ requests = <<>> /\ ~connected
  /\ opener = "polling" => device # "off"
  /\ opener \in {"open", "halted"} => device \in {"tpu", "lost"}
  /\ connected => device \in {"tpu", "off", "lost"}
  /\ device = "tpu" => connected

\* The handles are those of a device that is announced.
HandleInv ==
  /\ dfuClass = "current" => announced = "enumerated"
  /\ dfuDevice = "current" => announced # "none"
  /\ announced \in {"attached", "unheard"} => requests = <<>> /\ pending = "none"

\* While the device is read back the blocks read so far agree with it, whatever an
\* earlier download has left in the buffer.
ComparedInv ==
  Reachable =>
    /\ InStage("ReadBack") \/ InStage("GetStatusRead")
         => \A i \in readBack : i < block => i \in memory
    /\ InStage("Detach") => memory = Image

BringUpInv == /\ DfuTypeOK /\ OpenerInv /\ HandleInv /\ OneStage
              /\ BlockInImage /\ ComparedInv /\ BootsWholeImage

LEMMA BringUpInit == DfuInit => BringUpInv
<1> SUFFICES ASSUME DfuInit PROVE BringUpInv
  OBVIOUS
<1>1. DfuTypeOK
  BY DfuTypeInit
<1>2. Len(requests) = 0
  BY DEF DfuInit
<1>3. QED
  BY <1>1, <1>2 DEF DfuInit, BringUpInv, OpenerInv, HandleInv, OneStage, InStage,
     BlockInImage, ComparedInv, Reachable, BootsWholeImage

\* A step that leaves the task alone and does not bring the device back.
LEMMA TaskFrame ==
  ASSUME OneStage, BlockInImage, ComparedInv,
         UNCHANGED <<requests, pending, block, readBack>>,
         Reachable' => Reachable /\ memory' = memory
  PROVE  OneStage' /\ BlockInImage' /\ ComparedInv'
BY DEF OneStage, OnlyUnattached, BlockInImage, ComparedInv, InStage

LEMMA BringUpManager ==
  ASSUME BringUpInv,
         Manager
  PROVE  BringUpInv'
<1> USE DEF BringUpInv
<1>1. DfuTypeOK'
  BY DfuTypeManager
<1>2. UNCHANGED <<requests, pending, block, readBack, dfuClass, dfuDevice, announced,
                  connected>>
  BY DEF Manager, OpenDevice, OpenStaleError, OpenFound, OpenHalts, OpenError, Close,
         Dropped, FailOpen, PowerOff, taskVars, usbVars
<1>3. \/ UNCHANGED <<device, memory>>
      \/ device' = "off" /\ memory' = {}
      \/ opener = "idle" /\ device' = "dfu"
  BY DEF Manager, OpenDevice, OpenStaleError, OpenFound, OpenHalts, OpenError, Close,
         Dropped, FailOpen, PowerOff, usbVars
<1>4. OpenerInv'
  BY <1>2 DEF Manager, OpenDevice, OpenStaleError, OpenFound, OpenHalts, OpenError, Close,
     Dropped, FailOpen, PowerOff, usbVars, OpenerInv
<1>5. HandleInv'
  BY <1>2 DEF HandleInv
<1>6. Reachable' => Reachable /\ memory' = memory
  BY <1>2, <1>3 DEF Reachable, Present, OpenerInv, HandleInv
<1>7. OneStage' /\ BlockInImage' /\ ComparedInv'
  BY <1>2, <1>6, TaskFrame
<1>8. BootsWholeImage'
  BY <1>3 DEF BootsWholeImage, Image
<1>9. QED
  BY <1>1, <1>4, <1>5, <1>7, <1>8

LEMMA BringUpUsb ==
  ASSUME BringUpInv, UsbHost \/ UsbFault
  PROVE  BringUpInv'
<1> USE DEF BringUpInv
<1>1. DfuTypeOK'
  BY DfuTypeUsb
<1>2. CASE UsbAttach
  <2>1. UNCHANGED <<requests, pending, block, readBack, dfuClass, device, memory, opener,
                    connected>> /\ announced' = "attached" /\ dfuDevice' = "current"
        /\ announced = "none" /\ pending = "none" /\ requests = <<>>
    BY <1>2 DEF UsbAttach, mgrVars
  <2>2. Reachable' => Reachable /\ memory' = memory
    BY <2>1 DEF Reachable, Present
  <2>3. OpenerInv' /\ HandleInv' /\ BootsWholeImage'
    BY <1>2, <2>1 DEF OpenerInv, HandleInv, BootsWholeImage, Image, UsbAttach
  <2>4. QED
    BY <1>1, <2>1, <2>2, <2>3, TaskFrame
<1>3. CASE DeviceReset \/ TpuLost \/ TpuConnected \/ TpuDisconnected
  <2>1. UNCHANGED <<requests, pending, block, readBack, dfuClass, dfuDevice, announced, opener>>
    BY <1>3 DEF DeviceReset, TpuLost, TpuConnected, TpuDisconnected, taskVars, usbVars, mgrVars
  <2>2. Reachable' => Reachable /\ memory' = memory
    BY <1>3, <2>1 DEF Reachable, Present, DeviceReset, TpuLost, TpuConnected,
       TpuDisconnected, usbVars
  <2>3. HandleInv'
    BY <2>1 DEF HandleInv
  <2>4. OpenerInv' /\ BootsWholeImage'
    BY <1>3, <2>1 DEF OpenerInv, BootsWholeImage, Image, DeviceReset, TpuLost, TpuConnected,
       TpuDisconnected, usbVars, mgrVars, Present
  <2>5. QED
    BY <1>1, <2>1, <2>2, <2>3, <2>4, TaskFrame
<1>4. CASE UsbEnumerationDone \/ UsbEnumerationFailed
  <2>1. PICK s \in {"Attached", "Error"} : SetNextState(requests, s)
    BY <1>4 DEF UsbEnumerationDone, UsbEnumerationFailed
  <2>2. /\ announced = "attached" /\ announced' = "enumerated" /\ device = "dfu"
        /\ UNCHANGED <<pending, block, readBack, dfuClass, dfuDevice, device, memory, opener,
                       connected>>
    BY <1>4 DEF UsbEnumerationDone, UsbEnumerationFailed, mgrVars
  <2>3. requests = <<>> /\ pending = "none" /\ OnlyUnattached(requests)
    BY <2>2 DEF HandleInv, OnlyUnattached
  <2>4. OneStage' /\ \A u \in DfuStates \ {"Unattached"} : InStage(u)' => u = s
    BY <2>1, <2>2, <2>3, StageAppend DEF DfuTypeOK, DfuStates
  <2>5. BlockInImage' /\ ComparedInv'
    BY <2>4 DEF BlockInImage, ComparedInv, DfuStates
  <2>6. OpenerInv' /\ HandleInv' /\ BootsWholeImage'
    BY <2>2 DEF OpenerInv, HandleInv, BootsWholeImage, Image
  <2>7. QED
    BY <1>1, <2>4, <2>5, <2>6
<1>5. CASE UsbDetach
  <2>1. /\ announced # "none" /\ announced' = "none" /\ ~Present
        /\ SetNextState(requests, "Unattached")
        /\ dfuClass' # "current" /\ dfuDevice' = "stale"
        /\ device' = IF device = "reset" THEN "dfu" ELSE device
        /\ UNCHANGED <<pending, block, readBack, memory, opener, connected>>
    BY <1>5 DEF UsbDetach, mgrVars
  <2>2. OneStage' /\ \A s \in DfuStates \ {"Unattached"} : InStage(s)' => InStage(s)
    BY <2>1, StageGone
  <2>3. BlockInImage' /\ ComparedInv'
    BY <2>1, <2>2 DEF BlockInImage, ComparedInv, Reachable, DfuStates
  <2>4. OpenerInv' /\ HandleInv' /\ BootsWholeImage'
    BY <2>1 DEF OpenerInv, HandleInv, BootsWholeImage, Image
  <2>5. QED
    BY <1>1, <2>2, <2>3, <2>4
<1>6. CASE UsbEnumerationUnheard \/ UsbForget
  <2>1. /\ UNCHANGED <<requests, pending, block, readBack, dfuClass, device, memory, opener,
                       connected>>
        /\ announced # "enumerated"
        /\ \/ /\ announced' = "unheard" /\ dfuDevice' = dfuDevice /\ opener # "idle"
              /\ requests = <<>> /\ pending = "none"
           \/ announced' = "none" /\ dfuDevice' # "current"
    BY <1>6 DEF UsbEnumerationUnheard, UsbForget, OpenerInv, taskVars, mgrVars
  <2>2. Reachable' => Reachable /\ memory' = memory
    BY <2>1 DEF Reachable, Present
  <2>3. OpenerInv' /\ HandleInv' /\ BootsWholeImage'
    BY <2>1 DEF OpenerInv, HandleInv, BootsWholeImage, Image
  <2>4. QED
    BY <1>1, <2>1, <2>2, <2>3, TaskFrame
<1>7. QED
  BY <1>2, <1>3, <1>4, <1>5, <1>6 DEF UsbHost, UsbFault

LEMMA BringUpTask ==
  ASSUME BringUpInv, DfuTask
  PROVE  BringUpInv'
<1> USE DEF BringUpInv
<1>1. DfuTypeOK'
  BY DfuTypeTask
<1>2. requests # <<>>
  BY DEF DfuTask, HandleUnattached, HandleAttached, HandleTransfer, HandleComplete,
         HandleError, Handle
<1>3. announced \notin {"attached", "unheard"} /\ Tail(requests) \in Seq(DfuStates)
  BY <1>2, TailOfRequests DEF HandleInv
<1>4. /\ UNCHANGED <<block, readBack, dfuDevice, announced, memory, opener, connected>>
      /\ \/ device' = device
         \/ device = "told" /\ device' = "starting"
  BY DEF DfuTask, HandleUnattached, HandleAttached, HandleTransfer, HandleComplete,
         HandleError, usbVars, mgrVars
<1>5. OpenerInv' /\ BootsWholeImage'
  <2>1. opener # "idle"
    BY <1>2 DEF OpenerInv
  <2>2. device' \in {"told", "starting", "tpu"} => device \in {"told", "starting", "tpu"}
    BY <1>4
  <2>3. OpenerInv'
    BY <1>2, <1>4, <2>1 DEF OpenerInv
  <2>4. BootsWholeImage'
    BY <1>4, <2>2 DEF BootsWholeImage, Image
  <2>5. QED
    BY <2>3, <2>4
<1>6. HandleInv'
  <2>1. dfuClass' \in {dfuClass, dfuDevice, "null"}
    BY DEF DfuTask, HandleUnattached, HandleAttached, HandleTransfer, HandleComplete, HandleError
  <2>2. announced \in {"none", "attached", "enumerated", "unheard"}
    BY DEF DfuTypeOK
  <2>3. QED
    BY <1>3, <1>4, <2>1, <2>2 DEF HandleInv
<1>7. ASSUME NEW s \in {"SetInterface", "Error"}, Head(requests) # "Unattached",
             SetNextState(Tail(requests), s), pending' = pending
      PROVE  OneStage' /\ BlockInImage' /\ ComparedInv'
  <2>1. pending = "none" /\ OnlyUnattached(Tail(requests))
    BY <1>2, <1>7, StageHead
  <2>2. OneStage' /\ \A u \in DfuStates \ {"Unattached"} : InStage(u)' => u = s
    BY <1>3, <1>7, <2>1, StageAppend DEF DfuStates
  <2>3. QED
    BY <2>2 DEF BlockInImage, ComparedInv, DfuStates
<1>8. ASSUME requests' = Tail(requests),
             \/ pending' = pending
             \/ /\ pending' = Head(requests) /\ Head(requests) # "Unattached"
                /\ pending = "none",
             Reachable' => Reachable
      PROVE  OneStage' /\ BlockInImage' /\ ComparedInv'
  <2>1. OneStage' /\ \A s \in DfuStates : InStage(s)' => InStage(s)
    BY <1>2, <1>8, StageTail
  <2>2. BlockInImage'
    BY <1>4, <2>1 DEF BlockInImage, DfuStates
  <2>3. ComparedInv'
    BY <1>4, <1>8, <2>1 DEF ComparedInv, DfuStates, Image
  <2>4. QED
    BY <2>1, <2>2, <2>3
<1>9. OneStage' /\ BlockInImage' /\ ComparedInv'
  <2>1. CASE HandleUnattached \/ HandleError
    <3>1. requests' = Tail(requests) /\ pending' = pending /\ (Reachable' => Reachable)
      BY <2>1 DEF HandleUnattached, HandleError, Reachable, Present, usbVars
    <3>2. QED
      BY <1>8, <3>1
  <2>2. CASE HandleAttached
    <3>1. Head(requests) = "Attached" /\ pending' = pending
          /\ \E s \in {"SetInterface", "Error"} : SetNextState(Tail(requests), s)
      BY <2>2 DEF HandleAttached, Handle
    <3>2. QED
      BY <1>7, <3>1
  <2>3. CASE HandleTransfer
    <3>1. Head(requests) \in Transfers /\ (Reachable' <=> Reachable)
      BY <2>3 DEF HandleTransfer, Reachable, Present, usbVars
    <3>2. Head(requests) # "Unattached"
      BY <3>1 DEF Transfers
    <3>3. pending = "none"
      BY <1>2, <3>2, StageHead
    <3>4. \/ requests' = Tail(requests) /\ pending' = Head(requests)
          \/ SetNextState(Tail(requests), "Error") /\ pending' = pending
      BY <2>3 DEF HandleTransfer
    <3>5. QED
      BY <1>7, <1>8, <3>1, <3>2, <3>3, <3>4
  <2>4. CASE HandleComplete
    <3>1. Head(requests) = "Complete" /\ pending' = pending /\ ~Reachable'
      BY <2>4 DEF HandleComplete, Handle, Reachable
    <3>2. \/ requests' = Tail(requests)
          \/ SetNextState(Tail(requests), "Error")
      BY <2>4 DEF HandleComplete
    <3>3. QED
      BY <1>7, <1>8, <3>1, <3>2
  <2>5. QED
    BY <2>1, <2>2, <2>3, <2>4 DEF DfuTask
<1>10. QED
  BY <1>1, <1>5, <1>6, <1>9

\* A transfer under way ends, and s is the only state left.
LEMMA StageEnds ==
  ASSUME DfuTypeOK, OneStage, NEW s \in DfuStates, SetNextState(requests, s),
         pending # "none", pending' = "none"
  PROVE  OneStage' /\ \A u \in DfuStates \ {"Unattached"} : InStage(u)' => u = s
<1>1. OnlyUnattached(requests) /\ requests \in Seq(DfuStates)
  BY DEF OneStage, DfuTypeOK
<1>2. QED
  BY <1>1, StageAppend

LEMMA BringUpCallback ==
  ASSUME BringUpInv, DfuCallback \/ CallbackFailed
  PROVE  BringUpInv'
<1> USE DEF BringUpInv
<1>1. DfuTypeOK'
  BY DfuTypeCallback
<1>2. /\ pending # "none" /\ pending' = "none"
      /\ UNCHANGED <<dfuClass, dfuDevice, announced, opener, connected>>
  BY DEF DfuCallback, SetInterfaceCallback, GetStatusCallback, TransferCallback,
         ZeroLengthTransferCallback, ReadBackCallback, GetStatusReadCallback,
         DetachCallback, CallbackFailed, Callback, usbVars, mgrVars
<1>3. HandleInv'
  BY <1>2 DEF HandleInv
<1>4. ASSUME NEW s \in DfuStates, SetNextState(requests, s)
      PROVE  OneStage' /\ \A u \in DfuStates \ {"Unattached"} : InStage(u)' => u = s
  BY <1>2, <1>4, StageEnds
<1>5. ASSUME NEW s \in DfuStates, SetNextState(requests, s),
             s \notin {"Transfer", "ReadBack", "GetStatusRead", "Detach"}
      PROVE  OneStage' /\ BlockInImage' /\ ComparedInv'
  BY <1>4, <1>5 DEF BlockInImage, ComparedInv, DfuStates
<1>6. ASSUME UNCHANGED device, memory = Image => memory' = Image
      PROVE  OpenerInv' /\ BootsWholeImage'
  <2>1. opener # "idle"
    BY <1>2 DEF OpenerInv
  <2>2. OpenerInv'
    BY <1>2, <1>6, <2>1 DEF OpenerInv
  <2>3. QED
    BY <1>6, <2>2 DEF BootsWholeImage, Image
<1>7. CASE CallbackFailed
  <2>1. SetNextState(requests, "Error") /\ UNCHANGED <<device, memory>>
    BY <1>7 DEF CallbackFailed, usbVars
  <2>2. QED
    BY <1>1, <1>3, <1>5, <1>6, <2>1 DEF DfuStates
<1>8. CASE SetInterfaceCallback
  <2>1. SetNextState(requests, "GetStatus") /\ UNCHANGED <<device, memory>>
    BY <1>8 DEF SetInterfaceCallback, Callback
  <2>2. QED
    BY <1>1, <1>3, <1>5, <1>6, <2>1 DEF DfuStates
<1>9. CASE GetStatusCallback
  <2>1. UNCHANGED <<block, readBack, device, memory>>
    BY <1>9 DEF GetStatusCallback
  <2>2. CASE block < Blocks
    <3>1. SetNextState(requests, "Transfer")
      BY <1>9, <2>2 DEF GetStatusCallback, Callback
    <3>2. OneStage' /\ BlockInImage' /\ ComparedInv'
      BY <1>4, <2>1, <2>2, <3>1 DEF BlockInImage, ComparedInv, DfuStates
    <3>3. QED
      BY <1>1, <1>3, <1>6, <2>1, <3>2
  <2>3. CASE ~(block < Blocks)
    <3>1. SetNextState(requests, "ZeroLengthTransfer")
      BY <1>9, <2>3 DEF GetStatusCallback, Callback
    <3>2. QED
      BY <1>1, <1>3, <1>5, <1>6, <2>1, <3>1 DEF DfuStates
  <2>4. QED
    BY <2>2, <2>3
<1>10. CASE TransferCallback
  <2>1. /\ SetNextState(requests, "GetStatus") /\ UNCHANGED device
        /\ pending = "Transfer" /\ memory' = memory \cup {block}
    BY <1>10 DEF TransferCallback, Callback
  <2>2. block \in Image
    BY <2>1, DfuAssumption DEF BlockInImage, InStage, DfuTypeOK, Image
  <2>3. QED
    BY <1>1, <1>3, <1>5, <1>6, <2>1, <2>2 DEF DfuStates
<1>11. CASE ZeroLengthTransferCallback
  <2>1. SetNextState(requests, "ReadBack") /\ UNCHANGED <<readBack, device, memory>> /\ block' = 0
    BY <1>11 DEF ZeroLengthTransferCallback, Callback
  <2>2. \A i \in readBack : ~(i < 0)
    BY DEF DfuTypeOK, Image
  <2>3. OneStage' /\ BlockInImage' /\ ComparedInv'
    BY <1>4, <2>1, <2>2, DfuAssumption DEF BlockInImage, ComparedInv, DfuStates
  <2>4. QED
    BY <1>1, <1>3, <1>6, <2>1, <2>3
<1>12. CASE ReadBackCallback
  <2>1. /\ SetNextState(requests, "GetStatusRead") /\ UNCHANGED <<device, memory>>
        /\ pending = "ReadBack" /\ Reachable
        /\ readBack' = (readBack \ {block}) \cup (memory \cap {block})
        /\ block' = block + 1
    BY <1>12 DEF ReadBackCallback, Callback
  <2>2. \A i \in readBack : i < block => i \in memory
    BY <2>1 DEF ComparedInv, InStage
  <2>3. block \in Nat /\ \A i \in readBack : i \in Nat /\ (i < block + 1 => i < block \/ i = block)
    BY DfuAssumption DEF DfuTypeOK, Image
  <2>4. \A i \in readBack' : i < block' => i \in memory
    BY <2>1, <2>2, <2>3
  <2>5. OneStage' /\ BlockInImage' /\ ComparedInv'
    BY <1>4, <2>1, <2>4 DEF BlockInImage, ComparedInv, DfuStates
  <2>6. QED
    BY <1>1, <1>3, <1>6, <2>1, <2>5
<1>13. CASE GetStatusReadCallback
  <2>1. UNCHANGED <<device, memory>> /\ pending = "GetStatusRead" /\ Reachable
    BY <1>13 DEF GetStatusReadCallback, Callback
  <2>2. \A i \in readBack : i < block => i \in memory
    BY <2>1 DEF ComparedInv, InStage
  <2>3. CASE block < Blocks
    <3>1. SetNextState(requests, "ReadBack") /\ UNCHANGED <<block, readBack>>
      BY <1>13, <2>3, DfuAssumption DEF GetStatusReadCallback, Callback
    <3>2. OneStage' /\ BlockInImage' /\ ComparedInv'
      BY <1>4, <2>1, <2>2, <2>3, <3>1 DEF BlockInImage, ComparedInv, DfuStates
    <3>3. QED
      BY <1>1, <1>3, <1>6, <2>1, <3>2
  <2>4. CASE block = Blocks /\ readBack = Image
    <3>1. SetNextState(requests, "Detach")
      BY <1>13, <2>4, DfuAssumption DEF GetStatusReadCallback, Callback
    <3>2. memory = Image
      <4>1. \A i \in Image : i < Blocks
        BY DfuAssumption DEF Image
      <4>2. memory \subseteq Image
        BY DEF DfuTypeOK
      <4>3. QED
        BY <2>2, <2>4, <4>1, <4>2
    <3>3. OneStage' /\ BlockInImage' /\ ComparedInv'
      BY <1>4, <2>1, <3>1, <3>2 DEF BlockInImage, ComparedInv, DfuStates, Image
    <3>4. QED
      BY <1>1, <1>3, <1>6, <2>1, <3>3
  <2>5. CASE block = Blocks /\ readBack # Image
    <3>1. SetNextState(requests, "Error")
      BY <1>13, <2>5, DfuAssumption DEF GetStatusReadCallback, Callback
    <3>2. QED
      BY <1>1, <1>3, <1>5, <1>6, <2>1, <3>1 DEF DfuStates
  <2>6. QED
    BY <1>13, <2>3, <2>4, <2>5 DEF GetStatusReadCallback
<1>14. CASE DetachCallback
  <2>1. /\ SetNextState(requests, "Complete") /\ device' = "told" /\ UNCHANGED memory
        /\ pending = "Detach" /\ Reachable
    BY <1>14 DEF DetachCallback, Callback
  <2>2. memory = Image
    BY <2>1 DEF ComparedInv, InStage
  <2>3. OneStage' /\ BlockInImage' /\ ComparedInv'
    BY <1>5, <2>1 DEF DfuStates
  <2>4. OpenerInv' /\ BootsWholeImage'
    BY <1>2, <2>1, <2>2 DEF OpenerInv, BootsWholeImage, Image, Reachable, Present
  <2>5. QED
    BY <1>1, <1>3, <2>3, <2>4
<1>15. QED
  BY <1>7, <1>8, <1>9, <1>10, <1>11, <1>12, <1>13, <1>14 DEF DfuCallback

LEMMA BringUpNext == BringUpInv /\ [DfuNext]_dfuVars => BringUpInv'
<1>1. BringUpInv /\ DfuNext => BringUpInv'
  BY BringUpManager, BringUpUsb, BringUpTask, BringUpCallback DEF DfuNext
<1>2. BringUpInv /\ UNCHANGED dfuVars => BringUpInv'
  BY DEF BringUpInv, DfuTypeOK, OpenerInv, HandleInv, OneStage, OnlyUnattached, InStage,
     BlockInImage, ComparedInv, Reachable, Present, BootsWholeImage, Image,
     dfuVars, taskVars, usbVars, mgrVars
<1>3. QED
  BY <1>1, <1>2

----------------------------------------------------------------------------
(* Sessions: types                                                         *)

LEMMA BringUpFrame ==
  ASSUME BringUpInv, UNCHANGED <<taskVars, usbVars, mgrVars>>, dfuFaults' \in 0..DfuFaults
  PROVE  BringUpInv'
BY DEF BringUpInv, DfuTypeOK, OpenerInv, HandleInv, OneStage, OnlyUnattached, InStage,
   BlockInImage, ComparedInv, Reachable, Present, BootsWholeImage, Image,
   taskVars, usbVars, mgrVars

\* An inference touches the bring-up only by a transfer that fails.
LEMMA InferenceFrame ==
  ASSUME Inference, DfuTypeOK
  PROVE  UNCHANGED <<taskVars, usbVars, mgrVars>> /\ dfuFaults' \in 0..DfuFaults
<1>1. CASE TransferFailed
  <2>1. dfuFaults' = dfuFaults \/ (dfuFaults < DfuFaults /\ dfuFaults' = dfuFaults + 1)
    BY <1>1 DEF TransferFailed, DfuFault
  <2>2. QED
    BY <1>1, <2>1, DfuAssumption DEF TransferFailed, DfuTypeOK
<1>2. CASE UNCHANGED dfuVars
  BY <1>2 DEF dfuVars, DfuTypeOK
<1>3. QED
  BY <1>1, <1>2 DEF Inference, RegisterPackage, Invoke, Search, FirstLoaded, MoreLoaded,
     Inferred, Transferred

LEMMA BringUpSession == BringUpInv /\ [SessionNext]_vars => BringUpInv'
<1>1. BringUpInv /\ BringUp => BringUpInv'
  BY BringUpNext DEF BringUp
<1>2. BringUpInv /\ Inference => BringUpInv'
  BY InferenceFrame, BringUpFrame DEF BringUpInv
<1>3. BringUpInv /\ UNCHANGED vars => BringUpInv'
  BY BringUpNext DEF vars
<1>4. QED
  BY <1>1, <1>2, <1>3 DEF SessionNext

\* The device that is told to start, and the Edge TPU it becomes, hold the whole firmware
\* image, whatever failed in this download and in those before it.
THEOREM WholeImage == SessionSpec => []BootsWholeImage
<1>1. SessionInit => BringUpInv
  BY BringUpInit DEF SessionInit
<1>2. BringUpInv => BootsWholeImage
  BY DEF BringUpInv
<1>3. QED
  BY <1>1, <1>2, BringUpSession, PTL DEF SessionSpec

SessionTypes ==
  /\ registered \subseteq Packages
  /\ token \in {0} \cup {TokenOf[p] : p \in Packages}
  /\ cached \in [Slots -> Packages \cup {NoPackage}]
  /\ phase \in {"idle", "load", "search", "loadMore", "infer"}
  /\ package \in Packages \cup {NoPackage}
  /\ slot \in 1..3
  /\ hints \in Seq(Hints)
  /\ held \subseteq Packages
  /\ stream \in {"clean", "broken"}
  /\ unloaded \subseteq Packages

LEMMA HintTypes == {LoadHints, InferHints, <<>>} \subseteq Seq(Hints)
<1>1. LoadHints \in Seq(Hints) /\ InferHints \in Seq(Hints) /\ <<>> \in Seq(Hints)
  BY EmptySeq DEF LoadHints, InferHints, Hints
<1>2. QED
  BY <1>1

\* An Invoke runs only while its context is open.
PhaseInv ==
  /\ phase # "idle" => opener = "open" /\ package \in Packages
  /\ phase = "loadMore" => slot \in Slots

LEMMA SessionTypesNext ==
  ASSUME SessionTypes, PhaseInv, SessionNext
  PROVE  SessionTypes' /\ PhaseInv'
<1> USE SessionAssumption
<1>1. CASE BringUp
  <2>1. UNCHANGED <<registered, cached, invokeVars>> /\ token' \in {0, token}
        /\ held' \in {held, {}} /\ stream' \in {stream, "clean"}
        /\ unloaded' \in {unloaded, {}}
    BY <1>1 DEF BringUp, ResetToken, ResetDevice
  <2>2. phase # "idle" => opener' = opener
    BY <1>1 DEF BringUp
  <2>3. QED
    BY <2>1, <2>2 DEF SessionTypes, PhaseInv, invokeVars
<1>2. ASSUME NEW p \in Packages, RegisterPackage(p) PROVE SessionTypes' /\ PhaseInv'
  BY <1>2 DEF RegisterPackage, SessionTypes, PhaseInv, invokeVars, deviceVars, dfuVars, mgrVars
<1>3. ASSUME NEW p \in Packages, Invoke(p) PROVE SessionTypes' /\ PhaseInv'
  <2>1. opener' = "open" /\ package' = p /\ UNCHANGED deviceVars
    BY <1>3 DEF Invoke, dfuVars, mgrVars
  <2>2. hints' \in Seq(Hints)
    BY <1>3, HintTypes DEF Invoke, InvokeAlone, InvokeOther, InvokeSame, Infer, Load, SessionTypes
  <2>3. /\ registered' = registered /\ token' \in {0, token}
        /\ cached' \in [Slots -> Packages \cup {NoPackage}]
        /\ phase' \in {"infer", "load", "search"} /\ slot' \in {slot, 1}
        /\ unloaded' \in {unloaded, {}}
    BY <1>3 DEF Invoke, InvokeAlone, InvokeOther, InvokeSame, Infer, Load, managerVars, SessionTypes
  <2>4. QED
    BY <2>1, <2>2, <2>3 DEF SessionTypes, PhaseInv, deviceVars
<1>4. CASE Search
  <2>1. UNCHANGED <<managerVars, package, deviceVars, unloaded, opener>> /\ phase = "search"
    BY <1>4 DEF Search, dfuVars, mgrVars
  <2>2. hints' \in Seq(Hints)
    BY <1>4, HintTypes DEF Search, Infer, Load, SessionTypes
  <2>3. \/ slot \in Slots /\ slot' = slot + 1 /\ phase' = phase
        \/ slot \in Slots /\ slot' = slot /\ phase' = "loadMore"
        \/ slot' = slot /\ phase' = "infer"
    BY <1>4 DEF Search, Infer, Load
  <2>4. QED
    BY <2>1, <2>2, <2>3 DEF SessionTypes, PhaseInv, managerVars, deviceVars, Slots
<1>5. CASE FirstLoaded \/ MoreLoaded
  <2>1. package \in Packages /\ UNCHANGED <<registered, package, stream, opener>>
        /\ (MoreLoaded => slot \in Slots)
    BY <1>5 DEF FirstLoaded, MoreLoaded, PhaseInv, dfuVars, mgrVars
  <2>2. hints' \in Seq(Hints)
    BY <1>5, HintTypes DEF FirstLoaded, MoreLoaded, Infer, SessionTypes
  <2>3. held' \subseteq Packages /\ unloaded' \subseteq Packages
    BY <1>5, <2>1 DEF FirstLoaded, MoreLoaded, Alongside, SessionTypes
  <2>4. token' \in {token, TokenOf[package]}
    BY <1>5 DEF FirstLoaded, MoreLoaded
  <2>5. cached' \in [Slots -> Packages \cup {NoPackage}]
    BY <1>5, <2>1 DEF FirstLoaded, MoreLoaded, SessionTypes, Slots
  <2>6. phase' \in {"search", "infer"} /\ slot' \in 1..3 /\ phase # "idle"
    BY <1>5, <2>1 DEF FirstLoaded, MoreLoaded, Infer, SessionTypes, Slots
  <2>7. QED
    BY <2>1, <2>2, <2>3, <2>4, <2>5, <2>6 DEF SessionTypes, PhaseInv
<1>6. CASE Inferred
  BY <1>6 DEF Inferred, SessionTypes, PhaseInv, managerVars, dfuVars, mgrVars
<1>7. CASE Transferred
  <2>1. hints' \in Seq(Hints)
    BY <1>7, HeadTailProperties DEF Transferred, SessionTypes
  <2>2. QED
    BY <1>7, <2>1 DEF Transferred, SessionTypes, PhaseInv, managerVars, deviceVars, dfuVars, mgrVars
<1>8. CASE TransferFailed
  <2>1. hints' \in Seq(Hints)
    BY <1>8, HintTypes DEF TransferFailed
  <2>2. /\ stream' \in {stream, "broken"} /\ UNCHANGED <<managerVars, slot, held, unloaded, opener>>
        /\ \/ UNCHANGED <<phase, package>>
           \/ phase' = "idle" /\ package' = NoPackage
    BY <1>8 DEF TransferFailed, mgrVars
  <2>3. QED
    BY <2>1, <2>2 DEF SessionTypes, PhaseInv, managerVars
<1>9. QED
  BY <1>1, <1>2, <1>3, <1>4, <1>5, <1>6, <1>7, <1>8 DEF SessionNext, Inference

----------------------------------------------------------------------------
(* Sessions: the parameters in the device                                  *)

\* No more than two models are compiled together, which is what cached_packages_ has
\* room for.
TwoPerToken ==
  \A p, q, r \in Packages :
    TokenOf[p] # 0 /\ TokenOf[p] = TokenOf[q] /\ TokenOf[q] = TokenOf[r]
      => p = q \/ q = r \/ p = r

\* A device that is off holds nothing, and of the one that has gone the manager remembers
\* nothing but packages for which nothing was loaded.
DeviceInv ==
  /\ device # "tpu" => held = {} /\ stream = "clean"
  /\ ~connected /\ token # 0 =>
       \A s \in Slots : cached[s] # NoPackage => cached[s] \in unloaded

\* The token is that of the package while parameters are looked for, or the device has
\* gone since.
InvokeInv ==
  /\ phase = "load" => cached = [s \in Slots |-> NoPackage]
  /\ phase \in {"load", "search", "loadMore"} => TokenOf[package] # 0
  /\ phase = "infer" /\ TokenOf[package] = 0 => token = 0
  /\ phase \in {"search", "loadMore"} => token \in {0, TokenOf[package]}
  /\ phase \in {"search", "loadMore"} /\ token = 0 => device # "tpu"

\* What is cached is of one token and not cached twice, and the search goes on behind
\* what it has seen.
CacheInv ==
  token # 0 /\ phase # "load" =>
    /\ cached[1] # NoPackage /\ cached[1] # cached[2]
    /\ \A s \in Slots : cached[s] # NoPackage => TokenOf[cached[s]] = token
    /\ phase = "loadMore" => slot = 2 /\ cached[1] # package
    /\ phase = "search" => /\ slot > 1 => cached[1] # package
                           /\ slot > 2 => cached[2] # NoPackage

\* The device holds what is cached, unless its load came to nothing.
HeldInv ==
  device = "tpu" =>
    /\ token # 0 /\ phase # "load" =>
         \A s \in Slots : cached[s] # NoPackage => cached[s] \in held \cup unloaded
    /\ phase = "infer" /\ TokenOf[package] # 0 => package \in held \cup unloaded

ParameterInv == DeviceInv /\ InvokeInv /\ CacheInv /\ HeldInv

LEMMA ParameterInit == SessionInit => SessionTypes /\ PhaseInv /\ ParameterInv
<1>1. <<>> \in Seq(Hints)
  BY EmptySeq
<1>2. QED
  BY <1>1, SessionAssumption DEF SessionInit, DfuInit, SessionTypes, PhaseInv, ParameterInv,
     DeviceInv, InvokeInv, CacheInv, HeldInv

\* Only a device that is starting becomes the Edge TPU.
LEMMA StartOnly == DfuNext /\ device' = "tpu" => device \in {"tpu", "starting"}
BY DEF DfuNext, Manager, OpenDevice, OpenStaleError, OpenFound, OpenHalts, OpenError, Close,
   Dropped, FailOpen, PowerOff, UsbHost, UsbFault, UsbAttach, UsbEnumerationDone, UsbDetach,
   UsbForget, TpuConnected, TpuDisconnected, UsbEnumerationFailed, UsbEnumerationUnheard,
   DeviceReset, TpuLost, usbVars, DfuTask,
   HandleUnattached, HandleAttached, HandleTransfer, HandleComplete, HandleError,
   DfuCallback, SetInterfaceCallback, GetStatusCallback, TransferCallback,
   ZeroLengthTransferCallback, ReadBackCallback, GetStatusReadCallback, DetachCallback,
   CallbackFailed

LEMMA ParameterBringUp ==
  ASSUME SessionTypes, PhaseInv, ParameterInv, OpenerInv, OpenerInv', BringUp
  PROVE  ParameterInv'
<1> USE DEF ParameterInv
<1>1. /\ UNCHANGED <<cached, phase, package, slot>>
      /\ token' = IF connected /\ ~connected' THEN 0 ELSE token
      /\ unloaded' = IF connected /\ ~connected' THEN {} ELSE unloaded
      /\ held' = IF device' = "tpu" THEN held ELSE {}
      /\ stream' = IF device' = "tpu" THEN stream ELSE "clean"
      /\ phase # "idle" => opener' = opener
  BY DEF BringUp, ResetToken, ResetDevice, invokeVars
<1>2. device' = "tpu" => connected'
  BY DEF OpenerInv
<1>3. \/ token' = token /\ unloaded' = unloaded /\ (~connected' => ~connected)
      \/ token' = 0 /\ unloaded' = {} /\ device' # "tpu"
  <2>1. CASE connected /\ ~connected'
    BY <1>1, <1>2, <2>1
  <2>2. CASE ~(connected /\ ~connected')
    BY <1>1, <2>2
  <2>3. QED
    BY <2>1, <2>2
<1>4. phase # "idle" /\ device' = "tpu" => device = "tpu"
  BY StartOnly DEF BringUp, PhaseInv, OpenerInv
<1>5. device' = "tpu" /\ device # "tpu" => ~connected
  BY StartOnly DEF BringUp, OpenerInv
<1>6. DeviceInv'
  BY <1>1, <1>3 DEF DeviceInv
<1>7. InvokeInv'
  BY <1>1, <1>3, <1>4 DEF InvokeInv, DeviceInv
<1>8. CacheInv'
  BY <1>1, <1>3 DEF CacheInv
<1>9. HeldInv'
  BY <1>1, <1>3, <1>4, <1>5 DEF HeldInv, DeviceInv
<1>10. QED
  BY <1>6, <1>7, <1>8, <1>9

LEMMA ParameterInvoke ==
  ASSUME SessionTypes, PhaseInv, ParameterInv, OpenerInv, NEW p \in Packages, Invoke(p)
  PROVE  ParameterInv'
<1> USE SessionAssumption DEF ParameterInv
<1>1. /\ phase = "idle" /\ (device = "tpu" => connected) /\ package' = p
      /\ UNCHANGED <<device, connected, held, stream>>
  BY DEF Invoke, OpenerInv, dfuVars, usbVars, mgrVars, deviceVars
<1>2. CASE InvokeAlone(p)
  <2>1. TokenOf[p] = 0 /\ token' = 0 /\ phase' = "infer"
    BY <1>2 DEF InvokeAlone, Infer
  <2>2. QED
    BY <1>1, <2>1 DEF DeviceInv, InvokeInv, CacheInv, HeldInv
<1>3. CASE InvokeOther(p)
  <2>1. /\ TokenOf[p] # 0 /\ cached' = [s \in Slots |-> NoPackage] /\ phase' = "load"
        /\ UNCHANGED <<token, unloaded>>
    BY <1>3 DEF InvokeOther, Load
  <2>2. QED
    BY <1>1, <2>1 DEF DeviceInv, InvokeInv, CacheInv, HeldInv
<1>4. CASE InvokeSame(p)
  <2>1. /\ TokenOf[p] # 0 /\ TokenOf[p] = token /\ phase' = "search" /\ slot' = 1
        /\ UNCHANGED <<token, cached, unloaded>>
    BY <1>4 DEF InvokeSame, managerVars
  <2>2. QED
    BY <1>1, <2>1 DEF DeviceInv, InvokeInv, CacheInv, HeldInv
<1>5. QED
  BY <1>2, <1>3, <1>4 DEF Invoke

\* With two models of a token at most, a search that ends has found the package.
LEMMA ParameterSearch ==
  ASSUME TwoPerToken, SessionTypes, PhaseInv, ParameterInv, Search
  PROVE  ParameterInv'
<1> USE SessionAssumption DEF ParameterInv
<1>1. /\ phase = "search" /\ package \in Packages /\ TokenOf[package] # 0
      /\ UNCHANGED <<device, connected, held, stream, token, cached, package, unloaded>>
  BY DEF Search, PhaseInv, InvokeInv, dfuVars, usbVars, mgrVars, deviceVars, managerVars
<1>2. DeviceInv'
  BY <1>1 DEF DeviceInv
<1>3. slot \in 1..3 /\ \A s \in Slots : cached[s] \in Packages \cup {NoPackage}
      /\ 1 \in Slots /\ 2 \in Slots
  BY DEF SessionTypes, Slots
<1>4. CASE /\ slot \in Slots /\ cached[slot] \notin {package, NoPackage}
           /\ slot' = slot + 1 /\ phase' = phase
  <2>1. (slot = 1 /\ slot' = 2) \/ (slot = 2 /\ slot' = 3)
    BY <1>4 DEF Slots
  <2>2. QED
    BY <1>1, <1>2, <1>4, <2>1 DEF InvokeInv, CacheInv, HeldInv
<1>5. CASE slot \in Slots /\ cached[slot] = NoPackage /\ phase' = "loadMore" /\ slot' = slot
  <2>1. token # 0 => slot = 2 /\ cached[1] # package
    BY <1>1, <1>3, <1>5 DEF CacheInv, Slots
  <2>2. QED
    BY <1>1, <1>2, <1>5, <2>1 DEF InvokeInv, CacheInv, HeldInv
<1>6. CASE (slot \in Slots => cached[slot] = package) /\ phase' = "infer"
  <2>1. InvokeInv' /\ CacheInv'
    BY <1>1, <1>6 DEF InvokeInv, CacheInv
  <2>2. ASSUME device = "tpu" PROVE package \in held \cup unloaded
    <3>1. token = TokenOf[package] /\ token # 0
      BY <1>1, <2>2 DEF InvokeInv
    <3>2. PICK s \in Slots : cached[s] = package
      <4>1. CASE slot \in Slots
        BY <1>6, <4>1
      <4>2. CASE slot \notin Slots
        <5>1. /\ cached[1] \in Packages /\ cached[2] \in Packages
              /\ cached[1] # cached[2] /\ cached[1] # package
              /\ TokenOf[cached[1]] = token /\ TokenOf[cached[2]] = token
          BY <1>1, <1>3, <3>1, <4>2 DEF CacheInv, Slots
        <5>2. cached[2] = package
          BY <1>1, <3>1, <5>1 DEF TwoPerToken
        <5>3. QED
          BY <5>2 DEF Slots
      <4>3. QED
        BY <4>1, <4>2
    <3>3. QED
      BY <1>1, <2>2, <3>1, <3>2 DEF HeldInv
  <2>3. HeldInv'
    BY <1>1, <1>6, <2>2 DEF HeldInv
  <2>4. QED
    BY <1>2, <2>1, <2>3
<1>7. QED
  BY <1>1, <1>4, <1>5, <1>6 DEF Search, Infer, Load

LEMMA ParameterLoaded ==
  ASSUME SessionTypes, PhaseInv, ParameterInv, OpenerInv, FirstLoaded \/ MoreLoaded
  PROVE  ParameterInv'
<1> USE SessionAssumption DEF ParameterInv
<1>1. /\ package \in Packages /\ TokenOf[package] # 0
      /\ UNCHANGED <<device, connected, stream, package>>
      /\ held' = IF Loaded THEN Alongside(package) ELSE held
      /\ (Loaded => device = "tpu")
  BY DEF Loaded, FirstLoaded, MoreLoaded, PhaseInv, InvokeInv, dfuVars, usbVars, mgrVars
<1>2. device = "tpu" => connected
  BY DEF OpenerInv
<1>3. Alongside(package) = {q \in held : TokenOf[q] = TokenOf[package]} \cup {package}
  BY DEF Alongside
<1>4. CASE FirstLoaded
  <2>1. /\ phase = "load" /\ phase' = "infer" /\ token' = TokenOf[package]
        /\ cached' = [cached EXCEPT ![1] = package]
        /\ unloaded' = IF Loaded THEN {} ELSE {package}
    BY <1>4 DEF FirstLoaded, Infer
  <2>2. cached'[1] = package /\ cached'[2] = NoPackage /\ 1 \in Slots /\ 2 \in Slots
        /\ \A s \in Slots : s = 1 \/ s = 2
    BY <2>1 DEF InvokeInv, Slots
  <2>3. package \in held' \cup unloaded'
    BY <1>1, <1>3, <2>1
  <2>4. DeviceInv'
    BY <1>1, <1>2, <2>1, <2>2 DEF DeviceInv, OpenerInv
  <2>5. InvokeInv' /\ CacheInv'
    BY <1>1, <2>1, <2>2 DEF InvokeInv, CacheInv
  <2>6. HeldInv'
    BY <1>1, <2>1, <2>2, <2>3 DEF HeldInv
  <2>7. QED
    BY <2>4, <2>5, <2>6
<1>5. CASE MoreLoaded
  <2>1. /\ phase = "loadMore" /\ phase' = "search" /\ token' = token
        /\ cached' = [cached EXCEPT ![slot] = package] /\ slot' = slot + 1
        /\ unloaded' = IF Loaded THEN unloaded ELSE unloaded \cup {package}
    BY <1>5 DEF MoreLoaded
  <2>2. slot \in Slots /\ cached \in [Slots -> Packages \cup {NoPackage}]
    BY <2>1 DEF PhaseInv, SessionTypes
  <2>3. cached'[slot] = package /\ \A s \in Slots \ {slot} : cached'[s] = cached[s]
    BY <2>1, <2>2
  <2>4. token \in {0, TokenOf[package]} /\ (token = 0 => device # "tpu")
    BY <2>1 DEF InvokeInv
  <2>5. DeviceInv'
    BY <1>1, <1>2, <2>1, <2>3 DEF DeviceInv
  <2>6. InvokeInv'
    BY <1>1, <2>1, <2>4 DEF InvokeInv
  <2>7. CacheInv'
    <3>1. SUFFICES ASSUME token # 0 PROVE CacheInv'
      BY <2>1 DEF CacheInv
    <3>2. slot = 2 /\ cached[1] # package /\ cached[1] # NoPackage
          /\ \A s \in Slots : cached[s] # NoPackage => TokenOf[cached[s]] = token
      BY <2>1, <3>1 DEF CacheInv
    <3>3. cached'[1] = cached[1] /\ cached'[2] = package /\ \A s \in Slots : s = 1 \/ s = 2
      BY <2>3, <3>2 DEF Slots
    <3>4. QED
      BY <1>1, <2>1, <2>4, <3>1, <3>2, <3>3 DEF CacheInv
  <2>8. HeldInv'
    <3>1. SUFFICES ASSUME device = "tpu" PROVE HeldInv'
      BY <1>1 DEF HeldInv
    <3>2. token = TokenOf[package] /\ token # 0
      BY <2>1, <2>4, <3>1
    <3>3. /\ \A q \in held : TokenOf[q] = TokenOf[package] => q \in held'
          /\ package \in held' \cup unloaded' /\ unloaded \subseteq unloaded'
      BY <1>1, <1>3, <2>1
    <3>4. \A s \in Slots : cached[s] # NoPackage =>
            cached[s] \in held \cup unloaded /\ TokenOf[cached[s]] = token
      BY <2>1, <3>1, <3>2 DEF HeldInv, CacheInv
    <3>5. \A s \in Slots : cached'[s] # NoPackage => cached'[s] \in held' \cup unloaded'
      BY <2>3, <3>2, <3>3, <3>4
    <3>6. QED
      BY <1>1, <2>1, <3>5 DEF HeldInv
  <2>9. QED
    BY <2>5, <2>6, <2>7, <2>8
<1>6. QED
  BY <1>4, <1>5

LEMMA ParameterTransfer ==
  ASSUME SessionTypes, PhaseInv, ParameterInv,
         Inferred \/ Transferred \/ TransferFailed \/ \E p \in Packages : RegisterPackage(p)
  PROVE  ParameterInv'
<1> USE DEF ParameterInv
<1>1. UNCHANGED <<device, connected, token, cached, slot, unloaded>>
  BY DEF Inferred, Transferred, TransferFailed, RegisterPackage, managerVars, invokeVars,
         dfuVars, usbVars, mgrVars
<1>2. CASE Inferred
  <2>1. /\ phase = "infer" /\ phase' = "idle"
        /\ held' = IF TokenOf[package] = 0 THEN {} ELSE held
        /\ UNCHANGED stream
    BY <1>2 DEF Inferred
  <2>2. QED
    BY <1>1, <2>1 DEF DeviceInv, InvokeInv, CacheInv, HeldInv
<1>3. CASE Transferred \/ \E p \in Packages : RegisterPackage(p)
  <2>1. UNCHANGED <<phase, package, held, stream>>
    BY <1>3 DEF Transferred, RegisterPackage, invokeVars, deviceVars
  <2>2. QED
    BY <1>1, <2>1 DEF DeviceInv, InvokeInv, CacheInv, HeldInv
<1>4. CASE TransferFailed
  <2>1. /\ \/ UNCHANGED <<phase, package>>
           \/ phase = "infer" /\ phase' = "idle"
        /\ stream' = stream \/ device = "tpu"
        /\ UNCHANGED held
    BY <1>4 DEF TransferFailed
  <2>2. QED
    BY <1>1, <2>1 DEF DeviceInv, InvokeInv, CacheInv, HeldInv
<1>5. QED
  BY <1>2, <1>3, <1>4

SessionInv == BringUpInv /\ SessionTypes /\ PhaseInv /\ ParameterInv

LEMMA SessionNextInv ==
  ASSUME TwoPerToken
  PROVE  SessionInv /\ [SessionNext]_vars => SessionInv'
<1> SUFFICES ASSUME SessionInv, [SessionNext]_vars PROVE SessionInv'
  OBVIOUS
<1> USE DEF SessionInv
<1>1. BringUpInv'
  BY BringUpSession
<1>2. CASE UNCHANGED vars
  BY <1>1, <1>2 DEF vars, dfuVars, usbVars, mgrVars, sessionVars, managerVars, invokeVars,
     deviceVars, SessionTypes, PhaseInv, ParameterInv, DeviceInv, InvokeInv, CacheInv, HeldInv
<1>3. CASE SessionNext
  <2>1. SessionTypes' /\ PhaseInv'
    BY <1>3, SessionTypesNext
  <2>2. ParameterInv'
    BY <1>1, <1>3, ParameterBringUp, ParameterInvoke, ParameterSearch, ParameterLoaded,
       ParameterTransfer DEF SessionNext, Inference, BringUpInv
  <2>3. QED
    BY <1>1, <2>1, <2>2
<1>4. QED
  BY <1>2, <1>3

\* An inference that is about to succeed has the parameters of its own model in the
\* device, in whatever order models were run, contexts closed and reopened and devices
\* lost, unless Invoke had recorded this model as cached although its load had failed or
\* its device had gone: other models' failed loads and lost devices do it no harm.
THEOREM ParametersAreRight ==
  ASSUME TwoPerToken
  PROVE  SessionSpec => []RightParameters
<1>1. SessionInit => SessionInv
  BY BringUpInit, ParameterInit DEF SessionInit, SessionInv
<1>2. SessionInv => RightParameters
  BY DEF SessionInv, ParameterInv, HeldInv, RightParameters
<1>3. SessionInv /\ [SessionNext]_vars => SessionInv'
  BY SessionNextInv
<1>4. QED
  BY <1>1, <1>2, <1>3, PTL DEF SessionSpec

----------------------------------------------------------------------------
(* The bring-up: how often OpenDevice fails                                *)

\* The states of a download, and whether one goes on.
Working == DfuStates \ {"Unattached", "Error"}
Busy    == \E s \in Working : InStage(s)

\* The device in DFU mode is there and the host has told the task of it.
OnBus == Present /\ announced = "enumerated"

\* The download goes on although its device has gone, so that its next step fails.
Failing == InStage("Error") \/ (Busy /\ ~OnBus)

\* A download is still to come or goes on, which may fail because of what is left of
\* the one before.
Away  == device = "reset" \/ (device = "dfu" /\ announced # "enumerated")
Again == Away \/ (Busy /\ OnBus)

\* A download that goes on succeeds unless another fault comes: what it has sent or
\* compared is all there.
OnCourse ==
  \A s \in DfuStates : InStage(s) =>
    /\ s \in {"Attached", "SetInterface", "GetStatus", "Transfer"}
         => \A i \in Image : i < block => i \in memory
    /\ s = "ZeroLengthTransfer" => memory = Image
    /\ s \in {"ReadBack", "GetStatusRead"}
         => memory = Image /\ \A i \in Image : i < block => i \in readBack
    /\ s \in {"Detach", "Complete"} => block = 0

\* The counters make the comparison at the end of this download, or the next, fail.
Dirty == IF Busy /\ OnBus THEN ~OnCourse ELSE block # 0

\* How many calls of OpenDevice may fail without another fault.
One(b) == IF b THEN 1 ELSE 0
Owed   == IF (dfuError \/ Failing) /\ Again THEN 3
          ELSE One(dfuError) + One(Failing) + One(Dirty)

\* What has failed and what may still fail is paid for by the faults.
Credit == failedOpens + Owed <= 3 * dfuFaults

\* A download that goes on has the handles of the device that is there.
HandlesInv ==
  /\ announced = "attached" => dfuDevice = "current"
  /\ Busy /\ OnBus => IF InStage("Attached") THEN dfuDevice = "current"
                                              ELSE dfuClass = "current"

\* Owed as sums of bits, before and after a step.
LEMMA OwedRange ==
  /\ Owed \in 0..3
  /\ (dfuError \/ Failing) /\ Again => Owed = 3
  /\ ~((dfuError \/ Failing) /\ Again) => Owed = One(dfuError) + One(Failing) + One(Dirty)
<1>1. One(dfuError) \in 0..1 /\ One(Failing) \in 0..1 /\ One(Dirty) \in 0..1
  BY DEF One
<1>2. QED
  BY <1>1 DEF Owed

LEMMA OwedRangeNext ==
  /\ Owed' \in 0..3
  /\ (dfuError' \/ Failing') /\ Again' => Owed' = 3
  /\ ~((dfuError' \/ Failing') /\ Again') => Owed' = One(dfuError') + One(Failing') + One(Dirty')
<1>1. One(dfuError') \in 0..1 /\ One(Failing') \in 0..1 /\ One(Dirty') \in 0..1
  BY DEF One
<1>2. QED
  BY <1>1 DEF Owed

\* Nothing new is owed where nothing of what it depends on comes true.
LEMMA LessOwed ==
  ASSUME dfuError' => dfuError, Failing' => Failing, Dirty' => Dirty, Again' => Again
  PROVE  Owed' <= Owed
<1>1. One(dfuError') <= One(dfuError) /\ One(dfuError') \in 0..1 /\ One(dfuError) \in 0..1
  BY DEF One
<1>2. One(Failing') <= One(Failing) /\ One(Failing') \in 0..1 /\ One(Failing) \in 0..1
  BY DEF One
<1>3. One(Dirty') <= One(Dirty) /\ One(Dirty') \in 0..1 /\ One(Dirty) \in 0..1
  BY DEF One
<1>4. CASE (dfuError \/ Failing) /\ Again
  BY <1>4, OwedRange, OwedRangeNext
<1>5. CASE ~((dfuError \/ Failing) /\ Again)
  <2>1. ~((dfuError' \/ Failing') /\ Again')
    BY <1>5
  <2>2. QED
    BY <1>1, <1>2, <1>3, <1>5, <2>1, OwedRange, OwedRangeNext
<1>6. QED
  BY <1>4, <1>5

\* Stages, handles and counters stay, and the device does not come back.
LEMMA OwedStays ==
  ASSUME \A s \in DfuStates \ {"Unattached"} : InStage(s)' <=> InStage(s),
         UNCHANGED <<block, readBack, dfuError>>,
         OnBus' <=> OnBus, OnBus => memory' = memory, Away' => Away
  PROVE  Owed' <= Owed
<1>1. (Busy' <=> Busy) /\ (Failing' <=> Failing) /\ (Again' => Again)
  BY DEF Busy, Working, Failing, Again, DfuStates
<1>2. OnBus => (OnCourse' <=> OnCourse)
  BY DEF OnCourse, DfuStates, Image
<1>3. Dirty' => Dirty
  BY <1>1, <1>2 DEF Dirty
<1>4. QED
  BY <1>1, <1>3, LessOwed

\* A download whose device has gone takes a step, or ends with an error.
LEMMA OwedDoomed ==
  ASSUME Busy, ~OnBus, ~OnBus', Away' => Away, UNCHANGED <<block, dfuError>>
  PROVE  Owed' <= Owed
<1>1. Failing /\ (Again' => Again) /\ (Dirty' => Dirty)
  BY DEF Failing, Again, Dirty
<1>2. QED
  BY <1>1, LessOwed

\* A download takes a step on its way.
LEMMA OwedOnCourse ==
  ASSUME Busy, OnBus, OnBus', ~InStage("Error")', Busy' => (OnCourse => OnCourse'),
         Busy', UNCHANGED dfuError
  PROVE  Owed' <= Owed
<1>1. ~Failing' /\ Again /\ (Dirty' => Dirty)
  BY DEF Failing, Again, Dirty
<1>2. QED
  BY <1>1, LessOwed

\* No download goes on afterwards, and the device is as far away as before.
LEMMA OwedIdle ==
  ASSUME \A s \in DfuStates \ {"Unattached"} : ~InStage(s)',
         block' # 0 => Dirty, Away' => Again, UNCHANGED dfuError
  PROVE  Owed' <= Owed
<1>1. ~Busy' /\ ~Failing'
  BY DEF Busy, Working, Failing, DfuStates
<1>2. (Again' => Again) /\ (Dirty' => Dirty)
  BY <1>1 DEF Again, Dirty
<1>3. QED
  BY <1>1, <1>2, LessOwed

\* A failure that is owed, or a fault that pays for three, keeps the account.
LEMMA PaidFor ==
  ASSUME NEW failed \in Nat, NEW owed \in 0..3, NEW then \in 0..3, NEW faults \in Nat,
         failed + owed <= 3 * faults
  PROVE  /\ then <= owed => failed + then <= 3 * faults
         /\ failed + then <= 3 * (faults + 1) /\ failed <= 3 * faults
         /\ then + 1 <= owed => (failed + 1) + then <= 3 * faults
OBVIOUS

LEMMA CreditKept ==
  ASSUME DfuTypeOK, Credit, UNCHANGED <<failedOpens, dfuFaults>>, Owed' <= Owed
  PROVE  Credit'
<1>1. failedOpens \in Nat /\ dfuFaults \in Nat /\ Owed \in 0..3 /\ Owed' \in 0..3
  BY OwedRange, OwedRangeNext, DfuAssumption DEF DfuTypeOK
<1>2. failedOpens + Owed <= 3 * dfuFaults
  BY DEF Credit
<1>3. failedOpens + Owed' <= 3 * dfuFaults
  BY <1>1, <1>2, PaidFor
<1>4. QED
  BY <1>3 DEF Credit

\* A fault pays for the three failures that may come of it.
LEMMA CreditFault ==
  ASSUME DfuTypeOK, Credit, UNCHANGED failedOpens, DfuFault
  PROVE  Credit'
<1>1. failedOpens \in Nat /\ dfuFaults \in Nat /\ Owed \in 0..3 /\ Owed' \in 0..3
  BY OwedRange, OwedRangeNext, DfuAssumption DEF DfuTypeOK
<1>2. failedOpens + Owed <= 3 * dfuFaults /\ dfuFaults' = dfuFaults + 1
  BY DEF Credit, DfuFault
<1>3. failedOpens' + Owed' <= 3 * dfuFaults'
  BY <1>1, <1>2, PaidFor
<1>4. QED
  BY <1>3 DEF Credit

\* The next state is begun, or news that is only dropped.
LEMMA StageTaken ==
  ASSUME DfuTypeOK, OneStage, requests # <<>>, requests' = Tail(requests),
         \/ pending' = pending /\ Head(requests) = "Unattached"
         \/ pending' = Head(requests) /\ Head(requests) # "Unattached" /\ pending = "none"
  PROVE  OneStage' /\ \A s \in DfuStates \ {"Unattached"} : InStage(s)' <=> InStage(s)
<1>1. OneStage' /\ \A s \in DfuStates : InStage(s)' => InStage(s)
  BY StageTail
<1>2. ASSUME NEW s \in DfuStates \ {"Unattached"}, InStage(s) PROVE InStage(s)'
  <2>1. CASE pending = s
    <3>1. pending' = pending
      BY <2>1 DEF DfuStates
    <3>2. QED
      BY <2>1, <3>1 DEF InStage
  <2>2. ASSUME NEW i \in 1..Len(requests), requests[i] = s PROVE InStage(s)'
    <3>1. CASE i = 1
      <4>1. Head(requests) = s
        BY <2>2, <3>1, TailOfRequests
      <4>2. QED
        BY <1>2, <4>1 DEF InStage
    <3>2. CASE i # 1
      <4>1. i - 1 \in 1..Len(Tail(requests)) /\ (i - 1) + 1 = i
        BY <3>2, TailOfRequests
      <4>2. requests'[i - 1] = s
        BY <2>2, <4>1, TailOfRequests
      <4>3. QED
        BY <4>1, <4>2 DEF InStage
    <3>3. QED
      BY <3>1, <3>2
  <2>3. QED
    BY <1>2, <2>1, <2>2 DEF InStage
<1>3. QED
  BY <1>1, <1>2

\* The news that the device has gone leaves the stage as it is.
LEMMA StageKept ==
  ASSUME DfuTypeOK, OneStage, SetNextState(requests, "Unattached"), pending' = pending
  PROVE  \A s \in DfuStates \ {"Unattached"} : InStage(s)' <=> InStage(s)
<1>1. \A s \in DfuStates \ {"Unattached"} : InStage(s)' => InStage(s)
  BY StageGone
<1>2. requests \in Seq(DfuStates) /\ "Unattached" \in DfuStates
  BY DEF DfuTypeOK, DfuStates
<1>3. /\ Len(requests) \in Nat /\ Len(requests') = Len(requests) + 1
      /\ \A i \in 1..Len(requests) : requests'[i] = requests[i]
  BY <1>2, AppendedRequest
<1>4. \A i \in 1..Len(requests) : i \in 1..Len(requests')
  BY <1>3
<1>5. ASSUME NEW s \in DfuStates \ {"Unattached"}, InStage(s) PROVE InStage(s)'
  BY <1>3, <1>4, <1>5 DEF InStage
<1>6. QED
  BY <1>1, <1>5

\* The state that is queued last.
LEMMA StageAt ==
  ASSUME DfuTypeOK, NEW q \in Seq(DfuStates), NEW s \in DfuStates, SetNextState(q, s)
  PROVE  InStage(s)'
<1>1. Len(q) + 1 \in 1..Len(requests') /\ requests'[Len(q) + 1] = s
  BY AppendedRequest
<1>2. QED
  BY <1>1 DEF InStage

\* FewFailures is not inductive: what it leaves out is what is owed.
FewInv == BringUpInv /\ HandlesInv /\ Credit

LEMMA FewInit == DfuInit => HandlesInv /\ Credit
<1> SUFFICES ASSUME DfuInit PROVE HandlesInv /\ Credit
  OBVIOUS
<1>1. Len(requests) = 0 /\ pending = "none"
  BY DEF DfuInit
<1>2. \A s \in DfuStates : ~InStage(s)
  BY <1>1 DEF InStage, DfuStates
<1>3. ~Busy /\ ~Failing
  BY <1>2 DEF Busy, Working, Failing, DfuStates
<1>4. ~Dirty /\ ~dfuError
  BY <1>3 DEF Dirty, DfuInit
<1>5. One(dfuError) = 0 /\ One(Failing) = 0 /\ One(Dirty) = 0
  BY <1>3, <1>4 DEF One
<1>6. Owed = 0
  BY <1>3, <1>4, <1>5, OwedRange
<1>7. QED
  BY <1>3, <1>6 DEF HandlesInv, Credit, DfuInit

\* HandlesInv survives where no download goes on, or handles and stages stay.
LEMMA HandlesStay ==
  ASSUME HandlesInv, announced' = announced, UNCHANGED <<dfuClass, dfuDevice>>,
         \A s \in DfuStates \ {"Unattached"} : InStage(s)' <=> InStage(s),
         OnBus' => OnBus
  PROVE  HandlesInv'
<1>1. Busy' <=> Busy
  BY DEF Busy, Working, DfuStates
<1>2. InStage("Attached")' <=> InStage("Attached")
  BY DEF DfuStates
<1>3. QED
  BY <1>1, <1>2 DEF HandlesInv

\* OpenDevice fails: an error is taken back, and the device is off.
LEMMA FewFails ==
  ASSUME FewInv, FailOpen, dfuError, device' = "off",
         UNCHANGED <<requests, pending, block, readBack, announced, dfuFaults>>
  PROVE  Credit'
<1>1. \A s : InStage(s)' <=> InStage(s)
  BY DEF InStage
<1>2. (Busy' <=> Busy) /\ (InStage("Error")' <=> InStage("Error"))
  BY <1>1 DEF Busy
<1>3. ~OnBus' /\ ~Away' /\ ~Again'
  BY DEF OnBus, Present, Away, Again
<1>4. Dirty' <=> block # 0
  BY <1>3 DEF Dirty
<1>5. ~dfuError' /\ failedOpens' = failedOpens + 1
  BY DEF FailOpen
<1>6. One(dfuError') = 0 /\ One(dfuError) = 1
  BY <1>5 DEF One
<1>7. One(Failing) \in 0..1 /\ One(Failing') \in 0..1 /\ One(Dirty) \in 0..1 /\ One(Dirty') \in 0..1
  BY DEF One
<1>8. Owed' = One(Failing') + One(Dirty')
  BY <1>3, <1>6, <1>7, OwedRangeNext
<1>9. Owed' + 1 <= Owed
  <2>1. CASE Again
    <3>1. Owed = 3
      BY <2>1, OwedRange
    <3>2. QED
      BY <1>7, <1>8, <3>1
  <2>2. CASE ~Again
    <3>1. Owed = 1 + One(Failing) + One(Dirty)
      BY <1>6, <2>2, OwedRange
    <3>2. (Failing' <=> Failing) /\ (Dirty' <=> Dirty)
      BY <1>2, <1>3, <1>4, <2>2 DEF Failing, Again, Dirty
    <3>3. One(Failing') = One(Failing) /\ One(Dirty') = One(Dirty)
      BY <3>2 DEF One
    <3>4. QED
      BY <1>7, <1>8, <3>1, <3>3
  <2>3. QED
    BY <2>1, <2>2
<1>10. failedOpens \in Nat /\ dfuFaults \in Nat /\ Owed \in 0..3 /\ Owed' \in 0..3
  BY OwedRange, OwedRangeNext, DfuAssumption DEF FewInv, BringUpInv, DfuTypeOK
<1>11. failedOpens + Owed <= 3 * dfuFaults
  BY DEF FewInv, Credit
<1>12. failedOpens' + Owed' <= 3 * dfuFaults
  <2>1. (failedOpens + 1) + Owed' <= 3 * dfuFaults
    BY <1>9, <1>10, <1>11, PaidFor
  <2>2. QED
    BY <1>5, <2>1
<1>13. QED
  BY <1>12 DEF Credit

LEMMA FewManager ==
  ASSUME FewInv, Manager
  PROVE  HandlesInv' /\ Credit'
<1>1. UNCHANGED <<requests, pending, block, readBack, dfuClass, dfuDevice, announced, dfuFaults>>
  BY DEF Manager, OpenDevice, OpenStaleError, OpenFound, OpenHalts, OpenError, Close,
         Dropped, FailOpen, PowerOff, taskVars, usbVars
<1>2. \A s : InStage(s)' <=> InStage(s)
  BY <1>1 DEF InStage
<1>3. DfuTypeOK /\ HandlesInv /\ OpenerInv /\ Credit
  BY DEF FewInv, BringUpInv
<1>4. CASE OpenDevice
  <2>1. opener = "idle" /\ ~dfuError /\ announced = "none" /\ pending = "none" /\ requests = <<>>
        /\ UNCHANGED <<dfuError, failedOpens, memory>>
    BY <1>3, <1>4 DEF OpenDevice, OpenerInv
  <2>2. \A s \in DfuStates : ~InStage(s)
    BY <2>1 DEF InStage, DfuStates
  <2>3. ~Busy /\ ~Failing /\ ~Busy' /\ ~Failing' /\ ~OnBus /\ ~OnBus'
    BY <1>1, <1>2, <2>1, <2>2 DEF Busy, Working, Failing, DfuStates, OnBus
  <2>4. Dirty' <=> Dirty
    BY <1>1, <2>3 DEF Dirty
  <2>5. One(dfuError') = One(dfuError) /\ One(Failing') = One(Failing) /\ One(Dirty') = One(Dirty)
    BY <2>1, <2>3, <2>4 DEF One
  <2>6. Owed' = Owed
    BY <2>1, <2>3, <2>5, OwedRange, OwedRangeNext
  <2>7. Credit'
    BY <1>1, <1>3, <2>1, <2>6 DEF Credit
  <2>8. QED
    BY <1>1, <2>1, <2>3, <2>7 DEF HandlesInv
<1>5. CASE OpenStaleError
  <2>1. FailOpen /\ dfuError /\ device' = "off" /\ device = "off"
    BY <1>3, <1>5 DEF OpenStaleError, OpenerInv, usbVars
  <2>2. Credit'
    BY <1>1, <2>1, FewFails
  <2>3. ~OnBus'
    BY <2>1 DEF OnBus, Present
  <2>4. QED
    BY <1>1, <1>2, <1>3, <2>2, <2>3, HandlesStay
<1>6. CASE OpenError
  <2>1. FailOpen /\ dfuError /\ device' = "off" /\ memory' = {}
    BY <1>6 DEF OpenError, PowerOff
  <2>2. Credit'
    BY <1>1, <2>1, FewFails
  <2>3. ~OnBus'
    BY <2>1 DEF OnBus, Present
  <2>4. QED
    BY <1>1, <1>2, <1>3, <2>2, <2>3, HandlesStay
<1>7. CASE OpenFound \/ OpenHalts \/ Dropped
  <2>1. UNCHANGED <<device, memory, dfuError, failedOpens>>
    BY <1>7 DEF OpenFound, OpenHalts, Dropped, usbVars
  <2>2. (OnBus' <=> OnBus) /\ (Away' <=> Away)
    BY <1>1, <2>1 DEF OnBus, Present, Away
  <2>3. Owed' <= Owed
    BY <1>1, <1>2, <2>1, <2>2, OwedStays
  <2>4. QED
    BY <1>1, <1>2, <1>3, <2>1, <2>2, <2>3, CreditKept, HandlesStay
<1>8. CASE Close
  <2>1. device' = "off" /\ device \in {"tpu", "lost"} /\ UNCHANGED <<dfuError, failedOpens>>
    BY <1>3, <1>8 DEF Close, PowerOff, OpenerInv
  <2>2. ~OnBus' /\ ~OnBus /\ ~Away'
    BY <1>1, <2>1 DEF OnBus, Present, Away
  <2>3. Owed' <= Owed
    BY <1>1, <1>2, <2>1, <2>2, OwedStays
  <2>4. QED
    BY <1>1, <1>2, <1>3, <2>1, <2>2, <2>3, CreditKept, HandlesStay
<1>9. QED
  BY <1>4, <1>5, <1>6, <1>7, <1>8 DEF Manager

LEMMA FewUsb ==
  ASSUME FewInv, UsbHost \/ UsbFault
  PROVE  HandlesInv' /\ Credit'
<1>1. DfuTypeOK /\ OneStage /\ HandlesInv /\ HandleInv /\ OpenerInv /\ Credit
  BY DEF FewInv, BringUpInv
<1>2. CASE UsbAttach
  <2>1. /\ device = "dfu" /\ announced = "none" /\ announced' = "attached" /\ dfuDevice' = "current"
        /\ pending = "none" /\ requests = <<>>
        /\ UNCHANGED <<requests, pending, block, readBack, device, memory, dfuError,
                       failedOpens, dfuFaults>>
    BY <1>2 DEF UsbAttach, mgrVars
  <2>2. \A s : InStage(s)' <=> InStage(s)
    BY <2>1 DEF InStage
  <2>3. ~OnBus /\ ~OnBus' /\ (Away' => Away)
    BY <2>1 DEF OnBus, Away
  <2>4. Owed' <= Owed
    BY <2>1, <2>2, <2>3, OwedStays
  <2>5. QED
    BY <1>1, <2>1, <2>3, <2>4, CreditKept DEF HandlesInv
<1>3. CASE UsbEnumerationDone \/ UsbEnumerationFailed
  <2>1. /\ device = "dfu" /\ announced = "attached" /\ announced' = "enumerated"
        /\ UNCHANGED <<pending, block, readBack, dfuClass, dfuDevice, device, memory, dfuError,
                       failedOpens>>
    BY <1>3 DEF UsbEnumerationDone, UsbEnumerationFailed, mgrVars
  <2>2. requests = <<>> /\ pending = "none" /\ OnlyUnattached(requests) /\ dfuDevice = "current"
    BY <1>1, <2>1 DEF HandleInv, HandlesInv, OnlyUnattached
  <2>3. \A s \in DfuStates \ {"Unattached"} : ~InStage(s)
    BY <2>2 DEF InStage, DfuStates
  <2>4. ASSUME NEW s \in DfuStates, SetNextState(requests, s)
        PROVE  InStage(s)' /\ \A u \in DfuStates \ {"Unattached"} : InStage(u)' => u = s
    BY <1>1, <2>1, <2>2, <2>4, StageAt, StageAppend DEF DfuTypeOK
  <2>5. CASE UsbEnumerationDone
    <3>1. InStage("Attached")' /\ \A u \in DfuStates \ {"Unattached"} : InStage(u)' => u = "Attached"
      BY <2>4, <2>5 DEF UsbEnumerationDone, DfuStates
    <3>2. ~Busy /\ OnBus' /\ Busy' /\ ~InStage("Error")'
      BY <2>1, <2>3, <3>1 DEF Busy, Working, DfuStates, OnBus, Present
    <3>3. HandlesInv'
      BY <2>1, <2>2, <3>1 DEF HandlesInv
    <3>4. Dirty' => block # 0
      <4>1. ASSUME block = 0 PROVE OnCourse'
        <5>1. \A i \in Image : ~(i < block')
          BY <2>1, <4>1 DEF Image
        <5>2. QED
          BY <3>1, <5>1 DEF OnCourse, DfuStates, Image
      <4>2. QED
        BY <3>2, <4>1 DEF Dirty
    <3>5. Dirty' => Dirty
      BY <3>2, <3>4 DEF Dirty
    <3>6. ~Failing' /\ Again
      BY <2>1, <3>2 DEF Failing, Again, Away
    <3>7. Owed' <= Owed
      BY <2>1, <3>5, <3>6, LessOwed
    <3>8. UNCHANGED dfuFaults
      BY <2>5 DEF UsbEnumerationDone
    <3>9. QED
      BY <1>1, <2>1, <3>3, <3>7, <3>8, CreditKept
  <2>6. CASE UsbEnumerationFailed
    <3>1. DfuFault /\ \A u \in DfuStates \ {"Unattached"} : InStage(u)' => u = "Error"
      BY <2>4, <2>6 DEF UsbEnumerationFailed, DfuStates
    <3>2. ~Busy'
      BY <3>1 DEF Busy, Working, DfuStates
    <3>3. QED
      BY <1>1, <2>1, <3>1, <3>2, CreditFault DEF HandlesInv
  <2>7. QED
    BY <1>3, <2>5, <2>6
<1>4. CASE UsbDetach
  <2>1. /\ announced # "none" /\ announced' = "none" /\ ~Present
        /\ SetNextState(requests, "Unattached")
        /\ device' = IF device = "reset" THEN "dfu" ELSE device
        /\ UNCHANGED <<pending, block, readBack, memory, dfuError, failedOpens, dfuFaults>>
    BY <1>4 DEF UsbDetach, mgrVars
  <2>2. \A s \in DfuStates \ {"Unattached"} : InStage(s)' <=> InStage(s)
    BY <1>1, <2>1, StageKept
  <2>3. ~OnBus /\ ~OnBus' /\ (Away' => Away)
    BY <2>1 DEF OnBus, Present, Away
  <2>4. Owed' <= Owed
    BY <2>1, <2>2, <2>3, OwedStays
  <2>5. QED
    BY <1>1, <2>1, <2>3, <2>4, CreditKept DEF HandlesInv
<1>5. CASE DeviceReset \/ TpuLost
  <2>1. /\ DfuFault /\ UNCHANGED <<requests, pending, dfuDevice, announced, failedOpens>>
        /\ device' \in {"reset", "lost"}
    BY <1>5 DEF DeviceReset, TpuLost, taskVars, mgrVars
  <2>2. ~OnBus'
    BY <2>1 DEF OnBus, Present
  <2>3. QED
    BY <1>1, <2>1, <2>2, CreditFault DEF HandlesInv
<1>6. CASE TpuConnected \/ TpuDisconnected
  <2>1. /\ UNCHANGED <<requests, pending, block, readBack, dfuClass, dfuDevice, announced, memory,
                       dfuError, failedOpens, dfuFaults>>
        /\ device' = device \/ (device = "starting" /\ device' = "tpu")
    BY <1>6 DEF TpuConnected, TpuDisconnected, taskVars, usbVars
  <2>2. \A s : InStage(s)' <=> InStage(s)
    BY <2>1 DEF InStage
  <2>3. (OnBus' <=> OnBus) /\ (Away' => Away)
    BY <2>1 DEF OnBus, Present, Away
  <2>4. Owed' <= Owed
    BY <2>1, <2>2, <2>3, OwedStays
  <2>5. QED
    BY <1>1, <2>1, <2>2, <2>3, <2>4, CreditKept, HandlesStay
<1>7. CASE UsbForget
  <2>1. /\ announced = "unheard" /\ announced' = "none" /\ ~Present
        /\ UNCHANGED <<requests, pending, block, readBack, device, memory, dfuError, failedOpens,
                       dfuFaults>>
    BY <1>7 DEF UsbForget, mgrVars
  <2>2. \A s : InStage(s)' <=> InStage(s)
    BY <2>1 DEF InStage
  <2>3. ~OnBus /\ ~OnBus' /\ (Away' => Away)
    BY <2>1 DEF OnBus, Present, Away
  <2>4. Owed' <= Owed
    BY <2>1, <2>2, <2>3, OwedStays
  <2>5. QED
    BY <1>1, <2>1, <2>3, <2>4, CreditKept DEF HandlesInv
<1>8. CASE UsbEnumerationUnheard
  <2>1. /\ DfuFault /\ announced' = "unheard" /\ UNCHANGED failedOpens
    BY <1>8 DEF UsbEnumerationUnheard, mgrVars
  <2>2. ~OnBus'
    BY <2>1 DEF OnBus
  <2>3. QED
    BY <1>1, <2>1, <2>2, CreditFault DEF HandlesInv
<1>9. QED
  BY <1>2, <1>3, <1>4, <1>5, <1>6, <1>7, <1>8 DEF UsbHost, UsbFault

\* A step of a download ends with an error: another fault, or the device has gone.
LEMMA FewErrors ==
  ASSUME FewInv, Busy,
         \A u \in DfuStates \ {"Unattached"} : InStage(u)' => u = "Error",
         DfuFault \/ (~Reachable /\ ~InStage("Attached") /\ UNCHANGED dfuFaults),
         UNCHANGED <<block, dfuDevice, announced, dfuError, failedOpens>>,
         device' = device \/ device' = "starting"
  PROVE  HandlesInv' /\ Credit'
<1>1. DfuTypeOK /\ HandlesInv /\ Credit
  BY DEF FewInv, BringUpInv
<1>2. ~Busy'
  BY DEF Busy, Working, DfuStates
<1>3. HandlesInv'
  BY <1>1, <1>2 DEF HandlesInv
<1>4. CASE DfuFault
  BY <1>1, <1>3, <1>4, CreditFault
<1>5. CASE ~DfuFault
  <2>1. ~Reachable /\ ~InStage("Attached") /\ UNCHANGED dfuFaults
    BY <1>5
  <2>2. ~OnBus
    BY <1>1, <2>1 DEF HandlesInv, Reachable, OnBus
  <2>3. ~OnBus' /\ (Away' => Away)
    BY <2>2 DEF OnBus, Present, Away
  <2>4. Owed' <= Owed
    BY <2>2, <2>3, OwedDoomed
  <2>5. QED
    BY <1>1, <1>3, <2>1, <2>4, CreditKept
<1>6. QED
  BY <1>4, <1>5

LEMMA FewTask ==
  ASSUME FewInv, DfuTask
  PROVE  HandlesInv' /\ Credit'
<1>1. DfuTypeOK /\ OneStage /\ HandlesInv /\ HandleInv /\ Credit
  BY DEF FewInv, BringUpInv
<1>2. requests # <<>>
  BY DEF DfuTask, HandleUnattached, HandleAttached, HandleTransfer, HandleComplete,
         HandleError, Handle
<1>3. /\ UNCHANGED <<block, readBack, dfuDevice, announced, memory, failedOpens>>
      /\ announced # "attached"
  BY <1>1, <1>2 DEF DfuTask, HandleUnattached, HandleAttached, HandleTransfer, HandleComplete,
     HandleError, HandleInv, usbVars, mgrVars
<1>4. Head(requests) \in DfuStates /\ Tail(requests) \in Seq(DfuStates)
      /\ Len(requests) \in Nat /\ 1 \in 1..Len(requests) /\ requests[1] = Head(requests)
  BY <1>1, <1>2, TailOfRequests
<1>5. InStage(Head(requests))
  BY <1>4 DEF InStage
<1>6. ASSUME Head(requests) # "Unattached"
      PROVE  /\ pending = "none" /\ OnlyUnattached(Tail(requests))
             /\ \A s \in DfuStates \ {"Unattached"} : InStage(s) => s = Head(requests)
  <2>1. pending = "none" /\ OnlyUnattached(Tail(requests))
    BY <1>1, <1>2, <1>6, StageHead
  <2>2. ASSUME NEW s \in DfuStates \ {"Unattached"}, InStage(s) PROVE s = Head(requests)
    <3>1. PICK i \in 1..Len(requests) : requests[i] = s
      BY <2>1, <2>2 DEF InStage, DfuStates
    <3>2. i = 1
      BY <1>1, <1>4, <1>6, <3>1 DEF OneStage
    <3>3. QED
      BY <1>4, <3>1, <3>2
  <2>3. QED
    BY <2>1, <2>2
<1>7. ASSUME Head(requests) # "Unattached", NEW s \in DfuStates,
             SetNextState(Tail(requests), s), pending' = pending
      PROVE  /\ InStage(s)'
             /\ \A u \in DfuStates \ {"Unattached"} : InStage(u)' => u = s
  BY <1>1, <1>4, <1>6, <1>7, StageAt, StageAppend
<1>8. ASSUME Head(requests) # "Unattached", requests' = Tail(requests), pending' = pending
      PROVE  \A u \in DfuStates \ {"Unattached"} : ~InStage(u)'
  BY <1>6, <1>8 DEF InStage, OnlyUnattached, DfuStates
<1>9. ASSUME Head(requests) \in Working, SetNextState(Tail(requests), "Error"), pending' = pending,
             DfuFault \/ (~Reachable /\ Head(requests) # "Attached" /\ UNCHANGED dfuFaults),
             dfuError' = dfuError, device' = device \/ device' = "starting"
      PROVE  HandlesInv' /\ Credit'
  <2>1. Busy /\ Head(requests) # "Unattached"
    BY <1>5, <1>9 DEF Busy, Working
  <2>2. \A u \in DfuStates \ {"Unattached"} : InStage(u)' => u = "Error"
    BY <1>7, <1>9, <2>1 DEF DfuStates
  <2>3. Head(requests) # "Attached" => ~InStage("Attached")
    BY <1>6, <2>1 DEF DfuStates
  <2>4. QED
    BY <1>3, <1>9, <2>1, <2>2, <2>3, FewErrors
<1>10. CASE HandleUnattached
  <2>1. /\ Head(requests) = "Unattached" /\ requests' = Tail(requests)
        /\ UNCHANGED <<pending, dfuClass, device, dfuError, dfuFaults>>
    BY <1>10 DEF HandleUnattached, Handle, usbVars, mgrVars
  <2>2. \A s \in DfuStates \ {"Unattached"} : InStage(s)' <=> InStage(s)
    BY <1>1, <1>2, <2>1, StageTaken
  <2>3. (OnBus' <=> OnBus) /\ (Away' <=> Away)
    BY <1>3, <2>1 DEF OnBus, Present, Away
  <2>4. Owed' <= Owed
    BY <1>3, <2>1, <2>2, <2>3, OwedStays
  <2>5. QED
    BY <1>1, <1>3, <2>1, <2>2, <2>3, <2>4, CreditKept, HandlesStay
<1>11. CASE HandleAttached
  <2>1. Head(requests) = "Attached" /\ UNCHANGED <<pending, device, dfuError>>
    BY <1>11 DEF HandleAttached, Handle, usbVars, mgrVars
  <2>2. CASE dfuClass' = dfuDevice /\ SetNextState(Tail(requests), "SetInterface") /\ UNCHANGED dfuFaults
    <3>1. /\ InStage("SetInterface")'
          /\ \A u \in DfuStates \ {"Unattached"} : InStage(u)' => u = "SetInterface"
      BY <1>7, <2>1, <2>2 DEF DfuStates
    <3>2. Busy /\ Busy' /\ InStage("Attached") /\ ~InStage("Attached")' /\ ~InStage("Error")'
      BY <1>5, <2>1, <3>1 DEF Busy, Working, DfuStates
    <3>3. (OnBus' <=> OnBus) /\ (Away' <=> Away)
      BY <1>3, <2>1 DEF OnBus, Present, Away
    <3>4. HandlesInv'
      BY <1>1, <1>3, <2>2, <3>2, <3>3 DEF HandlesInv
    <3>5. OnCourse => OnCourse'
      BY <1>3, <3>1, <3>2 DEF OnCourse, DfuStates, Image
    <3>6. Owed' <= Owed
      <4>1. CASE OnBus
        BY <2>1, <3>2, <3>3, <3>5, <4>1, OwedOnCourse
      <4>2. CASE ~OnBus
        BY <1>3, <2>1, <3>2, <3>3, <4>2, OwedDoomed
      <4>3. QED
        BY <4>1, <4>2
    <3>7. QED
      BY <1>1, <1>3, <2>2, <3>4, <3>6, CreditKept
  <2>3. CASE DfuFault /\ SetNextState(Tail(requests), "Error")
    <3>1. Head(requests) \in Working
      BY <2>1 DEF Working, DfuStates
    <3>2. QED
      BY <1>9, <2>1, <2>3, <3>1
  <2>4. QED
    BY <1>11, <2>2, <2>3 DEF HandleAttached
<1>12. CASE HandleTransfer
  <2>1. Head(requests) \in Transfers /\ UNCHANGED <<dfuClass, device, dfuError>>
    BY <1>12 DEF HandleTransfer, usbVars, mgrVars
  <2>2. Head(requests) \in Working /\ Head(requests) \notin {"Unattached", "Attached"}
    BY <2>1 DEF Transfers, Working, DfuStates
  <2>3. CASE pending' = Head(requests) /\ requests' = Tail(requests) /\ UNCHANGED dfuFaults
    <3>1. \A s \in DfuStates \ {"Unattached"} : InStage(s)' <=> InStage(s)
      BY <1>1, <1>2, <1>6, <2>2, <2>3, StageTaken
    <3>2. (OnBus' <=> OnBus) /\ (Away' <=> Away)
      BY <1>3, <2>1 DEF OnBus, Present, Away
    <3>3. Owed' <= Owed
      BY <1>3, <2>1, <3>1, <3>2, OwedStays
    <3>4. QED
      BY <1>1, <1>3, <2>1, <2>3, <3>1, <3>2, <3>3, CreditKept, HandlesStay
  <2>4. CASE /\ IF Reachable THEN DfuFault ELSE UNCHANGED dfuFaults
             /\ SetNextState(Tail(requests), "Error") /\ UNCHANGED pending
    BY <1>9, <2>1, <2>2, <2>4
  <2>5. QED
    BY <1>12, <2>3, <2>4 DEF HandleTransfer
<1>13. CASE HandleComplete
  <2>1. /\ Head(requests) = "Complete" /\ UNCHANGED <<pending, dfuError>>
        /\ device' = IF device = "told" THEN "starting" ELSE device
    BY <1>13 DEF HandleComplete, Handle, mgrVars
  <2>2. Head(requests) \in Working
    BY <2>1 DEF Working, DfuStates
  <2>3. CASE requests' = Tail(requests) /\ UNCHANGED dfuFaults
    <3>1. \A u \in DfuStates \ {"Unattached"} : ~InStage(u)'
      BY <1>8, <2>1, <2>3
    <3>2. Busy /\ ~Busy' /\ InStage("Complete")
      BY <1>5, <2>1, <2>2, <3>1 DEF Busy, Working
    <3>3. block' # 0 => Dirty
      <4>1. block # 0 => ~OnCourse
        BY <3>2 DEF OnCourse, DfuStates
      <4>2. QED
        BY <1>3, <4>1 DEF Dirty
    <3>4. Away' => Again
      BY <1>3, <2>1 DEF Away, Again
    <3>5. Owed' <= Owed
      BY <2>1, <3>1, <3>3, <3>4, OwedIdle
    <3>6. HandlesInv'
      BY <1>1, <1>3, <3>2 DEF HandlesInv
    <3>7. QED
      BY <1>1, <1>3, <2>3, <3>5, <3>6, CreditKept
  <2>4. CASE /\ IF Reachable THEN DfuFault ELSE UNCHANGED dfuFaults
             /\ SetNextState(Tail(requests), "Error")
    BY <1>9, <2>1, <2>2, <2>4
  <2>5. QED
    BY <1>13, <2>3, <2>4 DEF HandleComplete
<1>14. CASE HandleError
  <2>1. /\ Head(requests) = "Error" /\ requests' = Tail(requests) /\ dfuError' = TRUE
        /\ UNCHANGED <<pending, dfuClass, device, dfuFaults>>
    BY <1>14 DEF HandleError, Handle, usbVars
  <2>2. \A u \in DfuStates \ {"Unattached"} : ~InStage(u)'
    BY <1>8, <2>1
  <2>3. ~Busy /\ ~Busy' /\ Failing /\ ~Failing'
    BY <1>5, <1>6, <2>1, <2>2 DEF Busy, Working, Failing, DfuStates
  <2>4. (Again' <=> Again) /\ (Dirty' <=> Dirty)
    BY <1>3, <2>1, <2>3 DEF Again, Away, Dirty
  <2>5. /\ One(Failing) = 1 /\ One(Failing') = 0 /\ One(dfuError') = 1 /\ One(dfuError) \in 0..1
        /\ One(Dirty') = One(Dirty) /\ One(Dirty) \in 0..1
    BY <2>1, <2>3, <2>4 DEF One
  <2>6. Owed' <= Owed
    <3>1. CASE Again
      BY <2>3, <3>1, OwedRange, OwedRangeNext
    <3>2. CASE ~Again
      BY <2>4, <2>5, <3>2, OwedRange, OwedRangeNext
    <3>3. QED
      BY <3>1, <3>2
  <2>7. HandlesInv'
    BY <1>1, <1>3, <2>3 DEF HandlesInv
  <2>8. QED
    BY <1>1, <1>3, <2>1, <2>6, <2>7, CreditKept
<1>15. QED
  BY <1>10, <1>11, <1>12, <1>13, <1>14 DEF DfuTask

\* A transfer has ended as it should.
LEMMA FewAnswered ==
  ASSUME FewInv, NEW s \in Working, SetNextState(requests, s), s # "Attached",
         pending # "none", pending' = "none", Reachable, Present',
         UNCHANGED <<dfuClass, announced, dfuError, failedOpens, dfuFaults>>,
         InStage(pending) /\ OnCourse => OnCourse'
  PROVE  HandlesInv' /\ Credit'
<1>1. DfuTypeOK /\ OneStage /\ HandlesInv /\ HandleInv /\ Credit /\ s \in DfuStates
  BY DEF FewInv, BringUpInv, Working
<1>2. /\ InStage(s)'
      /\ \A u \in DfuStates \ {"Unattached"} : InStage(u)' => u = s
  BY <1>1, StageAt, StageEnds DEF DfuTypeOK
<1>3. InStage(pending) /\ pending \in Working
  BY <1>1 DEF InStage, DfuTypeOK, Transfers, Working, DfuStates
<1>4. Busy /\ Busy' /\ ~InStage("Error")' /\ ~InStage("Attached")'
  BY <1>2, <1>3 DEF Busy, Working, DfuStates
<1>5. OnBus /\ OnBus'
  BY <1>1 DEF OnBus, Reachable, HandleInv
<1>6. Owed' <= Owed
  BY <1>3, <1>4, <1>5, OwedOnCourse
<1>7. HandlesInv'
  BY <1>1, <1>4, <1>5 DEF HandlesInv, Reachable, OnBus
<1>8. QED
  BY <1>1, <1>6, <1>7, CreditKept

LEMMA FewCallback ==
  ASSUME FewInv, DfuCallback \/ CallbackFailed
  PROVE  HandlesInv' /\ Credit'
<1>1. DfuTypeOK /\ OneStage /\ HandlesInv /\ HandleInv /\ Credit /\ BlockInImage
  BY DEF FewInv, BringUpInv
<1>2. /\ pending # "none" /\ pending' = "none" /\ pending \in Transfers
      /\ UNCHANGED <<dfuClass, dfuDevice, announced, dfuError, failedOpens>>
  BY <1>1 DEF DfuCallback, SetInterfaceCallback, GetStatusCallback, TransferCallback,
     ZeroLengthTransferCallback, ReadBackCallback, GetStatusReadCallback,
     DetachCallback, CallbackFailed, Callback, usbVars, mgrVars, DfuTypeOK
<1>3. /\ InStage(pending) /\ pending \in Working /\ Busy
      /\ pending # "Attached"
  BY <1>2 DEF InStage, Transfers, Working, DfuStates, Busy
<1>4. \A u \in DfuStates \ {"Unattached"} : InStage(u) => u = pending
  BY <1>1, <1>2 DEF OneStage, OnlyUnattached, InStage
<1>5. ASSUME NEW s \in Working, SetNextState(requests, s)
      PROVE  InStage(s)' /\ \A u \in DfuStates \ {"Unattached"} : InStage(u)' => u = s
  BY <1>1, <1>2, <1>5, StageAt, StageEnds DEF DfuTypeOK, Working
<1>6. ASSUME NEW s \in Working, s # "Attached", Callback(pending, s),
             device' = device \/ device' = "told", OnCourse => OnCourse'
      PROVE  HandlesInv' /\ Credit'
  <2>1. SetNextState(requests, s) /\ Reachable /\ UNCHANGED dfuFaults
    BY <1>6 DEF Callback
  <2>2. Present'
    BY <1>6, <2>1 DEF Reachable, Present
  <2>3. QED
    BY <1>2, <1>6, <2>1, <2>2, FewAnswered
<1>7. block \in 0..Blocks /\ memory \subseteq Image /\ readBack \subseteq Image
      /\ Blocks \in Nat \ {0} /\ Image = 0..(Blocks - 1)
  BY <1>1, DfuAssumption DEF DfuTypeOK, Image
<1>8. {"Attached", "SetInterface", "GetStatus", "Transfer", "ZeroLengthTransfer", "ReadBack",
       "GetStatusRead", "Detach", "Complete"} = Working
  BY DEF Working, DfuStates
<1>9. ASSUME CallbackFailed PROVE HandlesInv' /\ Credit'
  <2>1. SetNextState(requests, "Error") /\ device' = device /\ block' = block
        /\ IF Reachable THEN DfuFault ELSE UNCHANGED dfuFaults
    BY <1>9 DEF CallbackFailed, usbVars
  <2>2. \A u \in DfuStates \ {"Unattached"} : InStage(u)' => u = "Error"
    BY <1>1, <1>2, <2>1, StageEnds DEF DfuStates
  <2>3. ~InStage("Attached")
    BY <1>3, <1>4 DEF DfuStates
  <2>4. QED
    BY <1>2, <1>3, <2>1, <2>2, <2>3, FewErrors
<1>10. CASE SetInterfaceCallback
  <2>1. Callback(pending, "GetStatus") /\ pending = "SetInterface"
        /\ UNCHANGED <<block, readBack, device, memory>>
    BY <1>10 DEF SetInterfaceCallback, Callback
  <2>2. \A u \in DfuStates \ {"Unattached"} : InStage(u)' => u = "GetStatus"
    BY <1>5, <1>8, <2>1 DEF Callback
  <2>3. OnCourse => OnCourse'
    BY <1>3, <2>1, <2>2 DEF OnCourse, DfuStates, Image
  <2>4. QED
    BY <1>6, <1>8, <2>1, <2>3
<1>11. CASE GetStatusCallback
  <2>1. pending = "GetStatus" /\ UNCHANGED <<block, readBack, device, memory>>
        /\ Callback(pending, IF block < Blocks THEN "Transfer" ELSE "ZeroLengthTransfer")
    BY <1>11 DEF GetStatusCallback, Callback
  <2>2. OnCourse => \A i \in Image : i < block => i \in memory
    BY <1>3, <2>1 DEF OnCourse, DfuStates
  <2>3. CASE block < Blocks
    <3>1. Callback(pending, "Transfer")
      BY <2>1, <2>3
    <3>2. \A u \in DfuStates \ {"Unattached"} : InStage(u)' => u = "Transfer"
      BY <1>5, <1>8, <3>1 DEF Callback
    <3>3. OnCourse => OnCourse'
      BY <2>1, <2>2, <3>2 DEF OnCourse, DfuStates, Image
    <3>4. QED
      BY <1>6, <1>8, <2>1, <3>1, <3>3
  <2>4. CASE ~(block < Blocks)
    <3>1. Callback(pending, "ZeroLengthTransfer")
      BY <2>1, <2>4
    <3>2. \A u \in DfuStates \ {"Unattached"} : InStage(u)' => u = "ZeroLengthTransfer"
      BY <1>5, <1>8, <3>1 DEF Callback
    <3>3. \A i \in Image : i < block
      BY <1>7, <2>4
    <3>4. OnCourse => memory = Image
      BY <1>7, <2>2, <3>3
    <3>5. OnCourse => OnCourse'
      BY <2>1, <3>2, <3>4 DEF OnCourse, DfuStates, Image
    <3>6. QED
      BY <1>6, <1>8, <2>1, <3>1, <3>5
  <2>5. QED
    BY <2>3, <2>4
<1>12. CASE TransferCallback
  <2>1. /\ Callback(pending, "GetStatus") /\ pending = "Transfer" /\ UNCHANGED <<readBack, device>>
        /\ memory' = memory \cup {block} /\ block' = block + 1
    BY <1>12 DEF TransferCallback, Callback
  <2>2. \A u \in DfuStates \ {"Unattached"} : InStage(u)' => u = "GetStatus"
    BY <1>5, <1>8, <2>1 DEF Callback
  <2>3. OnCourse => \A i \in Image : i < block => i \in memory
    BY <1>3, <2>1 DEF OnCourse, DfuStates
  <2>4. \A i \in Image : i < block' => i < block \/ i = block
    BY <1>7, <2>1
  <2>5. OnCourse => \A i \in Image : i < block' => i \in memory'
    BY <2>1, <2>3, <2>4
  <2>6. OnCourse => OnCourse'
    BY <2>2, <2>5 DEF OnCourse, DfuStates, Image
  <2>7. QED
    BY <1>6, <1>8, <2>1, <2>6
<1>13. CASE ZeroLengthTransferCallback
  <2>1. /\ Callback(pending, "ReadBack") /\ pending = "ZeroLengthTransfer"
        /\ UNCHANGED <<readBack, device, memory>> /\ block' = 0
    BY <1>13 DEF ZeroLengthTransferCallback, Callback
  <2>2. \A u \in DfuStates \ {"Unattached"} : InStage(u)' => u = "ReadBack"
    BY <1>5, <1>8, <2>1 DEF Callback
  <2>3. OnCourse => memory' = Image
    BY <1>3, <2>1 DEF OnCourse, DfuStates
  <2>4. \A i \in Image : ~(i < block')
    BY <1>7, <2>1
  <2>5. OnCourse => OnCourse'
    BY <2>2, <2>3, <2>4 DEF OnCourse, DfuStates, Image
  <2>6. QED
    BY <1>6, <1>8, <2>1, <2>5
<1>14. CASE ReadBackCallback
  <2>1. /\ Callback(pending, "GetStatusRead") /\ pending = "ReadBack" /\ UNCHANGED <<device, memory>>
        /\ readBack' = (readBack \ {block}) \cup (memory \cap {block})
        /\ block' = block + 1
    BY <1>14 DEF ReadBackCallback, Callback
  <2>2. \A u \in DfuStates \ {"Unattached"} : InStage(u)' => u = "GetStatusRead"
    BY <1>5, <1>8, <2>1 DEF Callback
  <2>3. OnCourse => memory = Image /\ \A i \in Image : i < block => i \in readBack
    BY <1>3, <2>1 DEF OnCourse, DfuStates
  <2>4. \A i \in Image : i < block' => (i < block /\ i # block) \/ i = block
    BY <1>7, <2>1
  <2>5. OnCourse => memory' = Image /\ \A i \in Image : i < block' => i \in readBack'
    BY <2>1, <2>3, <2>4
  <2>6. OnCourse => OnCourse'
    BY <2>2, <2>5 DEF OnCourse, DfuStates, Image
  <2>7. QED
    BY <1>6, <1>8, <2>1, <2>6
<1>15. CASE DetachCallback
  <2>1. /\ Callback(pending, "Complete") /\ pending = "Detach" /\ device' = "told"
        /\ block' = block
    BY <1>15 DEF DetachCallback, Callback
  <2>2. \A u \in DfuStates \ {"Unattached"} : InStage(u)' => u = "Complete"
    BY <1>5, <1>8, <2>1 DEF Callback
  <2>3. OnCourse => block' = 0
    BY <1>3, <2>1 DEF OnCourse, DfuStates
  <2>4. OnCourse => OnCourse'
    BY <2>2, <2>3 DEF OnCourse, DfuStates
  <2>5. QED
    BY <1>6, <1>8, <2>1, <2>4
<1>16. CASE GetStatusReadCallback
  <2>1. pending = "GetStatusRead" /\ UNCHANGED <<device, memory>>
    BY <1>16 DEF GetStatusReadCallback, Callback
  <2>2. OnCourse => memory = Image /\ \A i \in Image : i < block => i \in readBack
    BY <1>3, <2>1 DEF OnCourse, DfuStates
  <2>3. CASE block < Blocks
    <3>1. Callback(pending, "ReadBack") /\ UNCHANGED <<block, readBack>>
      BY <1>7, <1>16, <2>1, <2>3 DEF GetStatusReadCallback
    <3>2. \A u \in DfuStates \ {"Unattached"} : InStage(u)' => u = "ReadBack"
      BY <1>5, <1>8, <3>1 DEF Callback
    <3>3. OnCourse => OnCourse'
      BY <2>1, <2>2, <3>1, <3>2 DEF OnCourse, DfuStates, Image
    <3>4. QED
      BY <1>6, <1>8, <2>1, <3>1, <3>3
  <2>4. CASE block = Blocks /\ readBack = Image
    <3>1. Callback(pending, "Detach") /\ block' = 0
      BY <1>7, <1>16, <2>1, <2>4 DEF GetStatusReadCallback
    <3>2. \A u \in DfuStates \ {"Unattached"} : InStage(u)' => u = "Detach"
      BY <1>5, <1>8, <3>1 DEF Callback
    <3>3. OnCourse'
      BY <3>1, <3>2 DEF OnCourse, DfuStates
    <3>4. QED
      BY <1>6, <1>8, <2>1, <3>1, <3>3
  <2>5. CASE block = Blocks /\ readBack # Image
    <3>1. Callback(pending, "Error") /\ block' = 0
      BY <1>7, <1>16, <2>1, <2>5 DEF GetStatusReadCallback
    <3>2. SetNextState(requests, "Error") /\ Reachable /\ UNCHANGED dfuFaults
      BY <3>1 DEF Callback
    <3>3. \A u \in DfuStates \ {"Unattached"} : InStage(u)' => u = "Error"
      BY <1>1, <1>2, <3>2, StageEnds DEF DfuStates
    <3>4. ~Busy' /\ OnBus
      BY <1>1, <3>2, <3>3 DEF Busy, Working, DfuStates, OnBus, Reachable, HandleInv
    <3>5. ~OnCourse
      <4>1. \A i \in Image : i < block
        BY <1>7, <2>5
      <4>2. ASSUME OnCourse PROVE readBack = Image
        BY <1>7, <2>2, <4>1, <4>2
      <4>3. QED
        BY <2>5, <4>2
    <3>6. Dirty /\ Again /\ ~Failing /\ ~Dirty' /\ ~Again'
      <4>1. Dirty /\ Again
        BY <1>3, <3>4, <3>5 DEF Dirty, Again
      <4>2. ~Dirty'
        BY <3>1, <3>4 DEF Dirty
      <4>3. ~InStage("Error")
        BY <1>2, <1>4 DEF DfuStates, Transfers
      <4>4. ~Again'
        BY <1>2, <2>1, <3>4 DEF Again, Away, OnBus, Present
      <4>5. QED
        BY <3>4, <4>1, <4>2, <4>3, <4>4 DEF Failing
    <3>7. /\ One(Dirty) = 1 /\ One(Dirty') = 0 /\ One(Failing) = 0 /\ One(Failing') \in 0..1
          /\ One(dfuError') = One(dfuError) /\ One(dfuError) \in 0..1
      BY <1>2, <3>6 DEF One
    <3>8. Owed' <= Owed
      <4>1. Owed' = One(dfuError) + One(Failing')
        BY <3>6, <3>7, OwedRangeNext
      <4>2. CASE dfuError
        <5>1. Owed = 3
          BY <3>6, <4>2, OwedRange
        <5>2. QED
          BY <3>7, <4>1, <5>1
      <4>3. CASE ~dfuError
        <5>1. One(dfuError) = 0
          BY <4>3 DEF One
        <5>2. Owed = One(dfuError) + One(Failing) + One(Dirty)
          BY <3>6, <4>3, OwedRange
        <5>3. QED
          BY <3>7, <4>1, <5>1, <5>2
      <4>4. QED
        BY <4>2, <4>3
    <3>9. HandlesInv'
      BY <1>1, <1>2, <3>4 DEF HandlesInv
    <3>10. QED
      BY <1>1, <1>2, <3>2, <3>8, <3>9, CreditKept
  <2>6. QED
    BY <1>7, <2>3, <2>4, <2>5
<1>17. QED
  BY <1>9, <1>10, <1>11, <1>12, <1>13, <1>14, <1>15, <1>16 DEF DfuCallback

LEMMA FewSession == FewInv /\ [SessionNext]_vars => FewInv'
<1> SUFFICES ASSUME FewInv, [SessionNext]_vars PROVE FewInv'
  OBVIOUS
<1>1. BringUpInv' /\ DfuTypeOK /\ HandlesInv /\ Credit
  BY BringUpSession DEF FewInv, BringUpInv
<1>2. CASE BringUp
  <2>1. HandlesInv' /\ Credit'
    BY <1>2, FewManager, FewUsb, FewTask, FewCallback DEF BringUp, DfuNext
  <2>2. QED
    BY <1>1, <2>1 DEF FewInv
<1>3. ASSUME UNCHANGED <<taskVars, usbVars, mgrVars>>, dfuFaults' = dfuFaults \/ DfuFault
      PROVE  FewInv'
  <2>1. UNCHANGED <<requests, pending, block, readBack, dfuClass, dfuDevice, device, announced,
                    memory, dfuError, failedOpens>>
    BY <1>3 DEF taskVars, usbVars, mgrVars
  <2>2. \A s : InStage(s)' <=> InStage(s)
    BY <2>1 DEF InStage
  <2>3. (OnBus' <=> OnBus) /\ (Away' <=> Away)
    BY <2>1 DEF OnBus, Present, Away
  <2>4. HandlesInv'
    BY <1>1, <2>1, <2>2, <2>3, HandlesStay
  <2>5. Owed' <= Owed
    BY <2>1, <2>2, <2>3, OwedStays
  <2>6. Credit'
    BY <1>1, <1>3, <2>1, <2>5, CreditKept, CreditFault
  <2>7. QED
    BY <1>1, <2>4, <2>6 DEF FewInv
<1>4. CASE Inference
  <2>1. CASE TransferFailed
    BY <1>3, <2>1 DEF TransferFailed
  <2>2. CASE UNCHANGED dfuVars
    BY <1>3, <2>2 DEF dfuVars
  <2>3. QED
    BY <1>4, <2>1, <2>2 DEF Inference, RegisterPackage, Invoke, Search, FirstLoaded, MoreLoaded,
       Inferred, Transferred
<1>5. CASE UNCHANGED vars
  BY <1>3, <1>5 DEF vars, dfuVars
<1>6. QED
  BY <1>2, <1>4, <1>5 DEF SessionNext

\* Each fault makes three calls of OpenDevice fail at most, whatever state the download was
\* in and whatever counters, handles and errors it leaves behind: a fault pays for what the
\* error of this download, the one found by the next call and a comparison that began in the
\* middle may cost.
THEOREM FaultsArePaid == SessionSpec => []FewFailures
<1>1. SessionInit => FewInv
  BY BringUpInit, FewInit DEF SessionInit, FewInv
<1>2. FewInv => FewFailures
  <2>1. SUFFICES ASSUME FewInv PROVE FewFailures
    OBVIOUS
  <2>2. failedOpens \in Nat /\ dfuFaults \in Nat /\ Owed \in 0..3
    BY <2>1, OwedRange, DfuAssumption DEF FewInv, BringUpInv, DfuTypeOK
  <2>3. failedOpens + Owed <= 3 * dfuFaults
    BY <2>1 DEF FewInv, Credit
  <2>4. failedOpens <= 3 * dfuFaults
    BY <2>2, <2>3, PaidFor
  <2>5. QED
    BY <2>4 DEF FewFailures
<1>3. QED
  BY <1>1, <1>2, FewSession, PTL DEF SessionSpec
=============================================================================
