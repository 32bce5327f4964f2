------------------------------- MODULE Camera -------------------------------
(***************************************************************************)
(* The camera: application tasks, the CameraTask (a QueueTask), the frame  *)
(* buffers that circulate between the CSI driver and the applications, the *)
(* trigger pin and the motion interrupt.                                   *)
(*                                                                         *)
(* Sources: libs/camera/camera.{h,cc}, libs/base/queue_task.h.  The CSI    *)
(* driver and the image sensor are external.  Image processing is left     *)
(* out: a frame is the buffer it is in.                                    *)
(***************************************************************************)
EXTENDS Naturals, Sequences, FiniteSets

CONSTANTS Clients,           \* application tasks
          QueueLength,       \* slots of the CameraTask request queue
          FramebufferCount,  \* kFramebufferCount
          MaxDiscard,        \* bound: frames one DiscardFrames asks for
          Rules              \* what the callers keep to, see Allowed

ASSUME QueueAssumption  == QueueLength \in Nat \ {0}
ASSUME BufferAssumption == FramebufferCount \in Nat /\ FramebufferCount >= 2
ASSUME DiscardAssumption == MaxDiscard \in Nat

Frames  == 1..FramebufferCount      \* indices, counted from one
NoFrame == 0                        \* index -1
Modes   == {"streaming", "trigger"}

Requests == [type: {"enable"}, mode: Modes] \cup [type: {"disable", "get", "motion"}]
       \cup [type: {"power", "config", "pattern"}, enable: BOOLEAN]
       \cup [type: {"return"}, index: Frames] \cup [type: {"discard"}, count: 0..MaxDiscard]
Motion  == [type |-> "motion"]
Nothing == [type |-> "nothing"]
NoOne   == "nobody"                 \* motion requests have no callback

VARIABLES
  pc,        \* pc[c]: "idle", "send", "wait" for the reply, "hold" a frame
  request,   \* request[c]: what c has asked for last
  reply,     \* reply[c]: what the handler has answered, <<>> until then
  queue,     \* request_queue_
  handling,  \* the request whose handler is blocked or busy, and its sender
  enabled,   \* CameraTask::enabled_
  mode,      \* CameraTask::mode_
  detect,    \* CameraTask::md_config_.enable
  power,     \* rails kCam2V8 and kCam1V8
  sensor,    \* register kModeSelect: "standby" or a mode
  detecting, \* register kMdCtrl: motion detection is on
  irq,       \* kCameraInt, high until kI2cClear is written
  trigger,   \* kCameraTrigger
  exposed,   \* trigger mode: a picture is in the sensor
  csi,       \* the CSI driver is started
  empty,     \* buffers submitted to the CSI driver, to be filled
  filling,   \* the buffer the DMA writes to, or NoFrame
  full,      \* buffers with a frame nobody has asked for yet
  halted     \* a CHECK failed in the interrupt

appVars    == <<pc, request, reply>>
taskVars   == <<queue, handling>>
flagVars   == <<enabled, mode, detect>>
sensorVars == <<power, sensor, detecting, irq, exposed>>
csiVars    == <<csi, empty, filling, full>>
vars == <<appVars, taskVars, flagVars, sensorVars, trigger, csiVars, halted>>

TypeOK ==
  /\ pc \in [Clients -> {"idle", "send", "wait", "hold"}]
  /\ request \in [Clients -> Requests \cup {Nothing}]
  /\ reply \in [Clients -> {<<>>} \cup {<<x>> : x \in Frames \cup {NoFrame}}]
  /\ queue \in Seq([from: Clients \cup {NoOne}, what: Requests])
  /\ handling \in [from: Clients \cup {NoOne}, what: Requests \cup {Nothing}]
  /\ {enabled, detect, power, detecting, irq, trigger, exposed, csi, halted} \subseteq BOOLEAN
  /\ mode \in Modes \cup {"none"} /\ sensor \in Modes \cup {"standby"}
  /\ empty \in Seq(Frames) /\ full \in Seq(Frames) /\ filling \in Frames \cup {NoFrame}

Init ==
  /\ pc = [c \in Clients |-> "idle"]
  /\ request = [c \in Clients |-> Nothing]
  /\ reply = [c \in Clients |-> <<>>]
  /\ queue = <<>> /\ handling = [from |-> NoOne, what |-> Nothing]
  /\ enabled = FALSE /\ mode = "none" /\ detect = FALSE
  /\ power = FALSE /\ sensor = "standby" /\ detecting = FALSE /\ irq = FALSE
  /\ trigger = FALSE /\ exposed = FALSE
  /\ csi = FALSE /\ empty = <<>> /\ filling = NoFrame /\ full = <<>>
  /\ halted = FALSE

----------------------------------------------------------------------------
(* Application tasks *)

\* HandleDiscardRequest polls without ever blocking, at the highest priority:
\* no application task runs meanwhile.
Runs == handling.what.type # "discard" /\ ~halted

Controls == {"enable", "disable", "power"}
InCall(c) == pc[c] # "idle"

\* What callers that keep to Rules do.  "exclusive": a task that switches the
\* camera finds no other task in a call, and keeps the others out.  "order":
\* power before Enable, Disable before power is changed or a new Enable.
\* "streaming": DiscardFrames is for a streaming camera.  "trigger": Trigger is
\* for a camera in trigger mode, where one task takes the pictures and fetches
\* the last one before it disables the camera.  "motion": the configuration of
\* motion detection and the test pattern are not changed while it streams.
Allowed(c, r) ==
  /\ "exclusive" \in Rules =>
       \A d \in Clients \ {c} :
         InCall(d) => {r.type, request[d].type} \cap Controls = {}
  /\ "order" \in Rules => /\ r.type = "enable" => power /\ ~enabled
                          /\ r.type = "power" => ~enabled
  /\ "streaming" \in Rules => (r.type = "discard" => enabled /\ mode = "streaming")
  /\ "trigger" \in Rules =>
       /\ r.type = "get" /\ mode = "trigger" => \A d \in Clients \ {c} : ~InCall(d)
       /\ r.type = "disable" => ~trigger
  /\ "motion" \in Rules =>
       (r.type \in {"config", "pattern"} => ~(enabled /\ mode = "streaming"))

Ask(c, r) == /\ pc' = [pc EXCEPT ![c] = "send"]
             /\ request' = [request EXCEPT ![c] = r]
             /\ UNCHANGED reply

\* Mutant: GetFrame does not ask whether the camera has been triggered.
GetFrameUntriggered(c) ==
  /\ Runs /\ pc[c] = "idle"
  /\ enabled
  /\ Allowed(c, [type |-> "get"])
  /\ Ask(c, [type |-> "get"])
  /\ UNCHANGED <<taskVars, flagVars, sensorVars, trigger, csiVars, halted>>

\* GetFrame: refused unless enabled, and in trigger mode unless triggered.
GetFrame(c) ==
  /\ Runs /\ pc[c] = "idle"
  /\ enabled
  /\ mode = "trigger" => trigger
  /\ Allowed(c, [type |-> "get"])
  /\ Ask(c, [type |-> "get"])
  /\ UNCHANGED <<taskVars, flagVars, sensorVars, trigger, csiVars, halted>>

\* Enable, Disable, SetPower, SetTestPattern, SetMotionDetectionConfig and
\* DiscardFrames check nothing.
Call(c) ==
  /\ Runs /\ pc[c] = "idle"
  /\ \E r \in {q \in Requests : q.type \in Controls \cup {"pattern", "config", "discard"}} :
       Allowed(c, r) /\ Ask(c, r)
  /\ UNCHANGED <<taskVars, flagVars, sensorVars, trigger, csiVars, halted>>

\* GpioSet(kCameraTrigger, true); the sensor reacts to the edge.
Trigger(c) ==
  /\ Runs /\ pc[c] = "idle"
  /\ "trigger" \in Rules => /\ enabled /\ mode = "trigger"
                            /\ \A d \in Clients : ~InCall(d)
  /\ trigger' = TRUE
  /\ exposed' = (exposed \/ (~trigger /\ sensor = "trigger"))
  /\ UNCHANGED <<appVars, taskVars, flagVars, power, sensor, detecting, irq, csiVars, halted>>

\* SendRequest: xQueueSend(..., portMAX_DELAY).
Send(c) ==
  /\ Runs /\ pc[c] = "send"
  /\ Len(queue) < QueueLength
  /\ queue' = Append(queue, [from |-> c, what |-> request[c]])
  /\ pc' = [pc EXCEPT ![c] = "wait"]
  /\ UNCHANGED <<request, reply, handling, flagVars, sensorVars, trigger, csiVars, halted>>

Got(c, x) == /\ Runs /\ pc[c] = "wait" /\ reply[c] # <<>>
             /\ request[c].type = "get" /\ (x <=> reply[c] # <<NoFrame>>)
             /\ reply' = [reply EXCEPT ![c] = <<>>]

\* GetFrame(&raw, true) has got no frame and asks again, whatever has become of
\* enabled_ meanwhile.
AskAgain(c) ==
  /\ Got(c, FALSE)
  /\ pc' = [pc EXCEPT ![c] = "send"]
  /\ UNCHANGED <<request, taskVars, flagVars, sensorVars, trigger, csiVars, halted>>

\* Mutant: the pin stays high after the picture has been fetched.
TakeFrameKeepingTrigger(c) ==
  /\ Got(c, TRUE)
  /\ pc' = [pc EXCEPT ![c] = "hold"]
  /\ request' = [request EXCEPT ![c] = [type |-> "return", index |-> Head(reply[c])]]
  /\ UNCHANGED <<taskVars, flagVars, sensorVars, trigger, csiVars, halted>>

\* GetFrame has a frame; in trigger mode it lowers the pin.
TakeFrame(c) ==
  /\ Got(c, TRUE)
  /\ pc' = [pc EXCEPT ![c] = "hold"]
  /\ request' = [request EXCEPT ![c] = [type |-> "return", index |-> Head(reply[c])]]
  /\ trigger' = (trigger /\ mode # "trigger")
  /\ UNCHANGED <<taskVars, flagVars, sensorVars, csiVars, halted>>

\* The other calls return; Enable stores the answer, always TRUE, in enabled_.
Return(c) ==
  /\ Runs /\ pc[c] = "wait" /\ reply[c] # <<>> /\ request[c].type # "get"
  /\ reply' = [reply EXCEPT ![c] = <<>>]
  /\ pc' = [pc EXCEPT ![c] = "idle"]
  /\ request' = [request EXCEPT ![c] = Nothing]
  /\ enabled' = (enabled \/ request[c].type = "enable")
  /\ UNCHANGED <<taskVars, mode, detect, sensorVars, trigger, csiVars, halted>>

\* The frame has been processed into the formats asked for.
ReturnFrame(c) ==
  /\ Runs /\ pc[c] = "hold"
  /\ pc' = [pc EXCEPT ![c] = "send"]
  /\ UNCHANGED <<request, reply, taskVars, flagVars, sensorVars, trigger, csiVars, halted>>

----------------------------------------------------------------------------
(* The CameraTask *)

TaskIdle == handling.what = Nothing /\ ~halted

Receive(type) == /\ TaskIdle /\ queue # <<>> /\ Head(queue).what.type = type
                 /\ queue' = Tail(queue)

Answer(c, x) == reply' = [reply EXCEPT ![c] = <<x>>]

Block(r) == handling' = r /\ UNCHANGED reply
Finish(type) == /\ ~halted /\ handling.what.type = type
                /\ Answer(handling.from, NoFrame)
                /\ handling' = [from |-> NoOne, what |-> Nothing]
                /\ UNCHANGED <<pc, request, queue>>

\* SetMotionDetectionRegisters: its first write, which is lost without power,
\* and its last one, which clears the interrupt.
WriteMdCtrl(on) == detecting' = IF power THEN on ELSE detecting
WriteI2cClear(on) == irq' = (irq /\ ~on)

\* Mutant: the old handle is kept, with what was submitted to it before.
HandleEnableOldHandle ==
  /\ Receive("enable")
  /\ Block(Head(queue))
  /\ WriteMdCtrl(detect) /\ WriteI2cClear(detect)
  /\ csi' = TRUE /\ filling' = NoFrame
  /\ empty' = empty \o [i \in 1..(IF Head(queue).what.mode = "trigger" THEN 2 ELSE FramebufferCount) |-> i]
  /\ UNCHANGED <<pc, request, flagVars, power, sensor, exposed, trigger, full, halted>>

\* HandleEnableRequest up to CSI_TransferStart: a new handle, all its buffers.
HandleEnable ==
  /\ Receive("enable")
  /\ Block(Head(queue))
  /\ WriteMdCtrl(detect) /\ WriteI2cClear(detect)
  /\ csi' = TRUE /\ full' = <<>> /\ filling' = NoFrame
  /\ empty' = [i \in 1..(IF Head(queue).what.mode = "trigger" THEN 2 ELSE FramebufferCount) |-> i]
  /\ UNCHANGED <<pc, request, flagVars, power, sensor, exposed, trigger, halted>>

\* SetMode, after the register write that blocks.
SetMode ==
  /\ Finish("enable")
  /\ mode' = handling.what.mode
  /\ sensor' = IF power THEN handling.what.mode ELSE sensor
  /\ UNCHANGED <<enabled, detect, power, detecting, irq, exposed, trigger, csiVars, halted>>

\* Mutant: enabled_ is left as it is.
HandleDisableSilent ==
  /\ Receive("disable")
  /\ Block(Head(queue))
  /\ UNCHANGED <<pc, request, flagVars, sensorVars, trigger, csiVars, halted>>

\* HandleDisableRequest: the flag, and after a register write CSI_TransferStop.
HandleDisable ==
  /\ Receive("disable")
  /\ Block(Head(queue))
  /\ enabled' = FALSE
  /\ UNCHANGED <<pc, request, mode, detect, sensorVars, trigger, csiVars, halted>>

TransferStop ==
  /\ Finish("disable")
  /\ sensor' = "standby" /\ exposed' = FALSE
  /\ csi' = FALSE /\ filling' = NoFrame
  /\ UNCHANGED <<flagVars, power, detecting, irq, trigger, empty, full, halted>>

\* HandlePowerRequest: the rails, and after 10 ms the software reset.
HandlePower ==
  /\ Receive("power")
  /\ Block(Head(queue))
  /\ power' = Head(queue).what.enable
  /\ IF power' THEN UNCHANGED <<sensor, detecting, irq, exposed>>
               ELSE sensor' = "standby" /\ detecting' = FALSE /\ irq' = FALSE /\ exposed' = FALSE
  /\ UNCHANGED <<pc, request, flagVars, trigger, csiVars, halted>>

SwReset ==
  /\ Finish("power")
  /\ sensor' = "standby" /\ detecting' = FALSE /\ irq' = FALSE /\ exposed' = FALSE
  /\ UNCHANGED <<flagVars, power, trigger, csiVars, halted>>

\* HandleFrameRequest with index -1.
HandleGet ==
  /\ Receive("get")
  /\ IF full = <<>> THEN Answer(Head(queue).from, NoFrame) /\ UNCHANGED full
                    ELSE Answer(Head(queue).from, Head(full)) /\ full' = Tail(full)
  /\ UNCHANGED <<pc, request, handling, flagVars, sensorVars, trigger, csi, empty, filling, halted>>

\* HandleFrameRequest with an index.
HandleReturn ==
  /\ Receive("return")
  /\ empty' = Append(empty, Head(queue).what.index)
  /\ Answer(Head(queue).from, NoFrame)
  /\ UNCHANGED <<pc, request, handling, flagVars, sensorVars, trigger, csi, filling, full, halted>>

\* HandleDiscardRequest, one frame at a time.
HandleDiscard ==
  /\ Receive("discard")
  /\ Block(Head(queue))
  /\ UNCHANGED <<pc, request, flagVars, sensorVars, trigger, csiVars, halted>>

DiscardFrame ==
  /\ ~halted /\ handling.what.type = "discard" /\ handling.what.count > 0
  /\ full # <<>>
  /\ full' = Tail(full) /\ empty' = Append(empty, Head(full))
  /\ handling' = [handling EXCEPT !.what.count = @ - 1]
  /\ UNCHANGED <<appVars, queue, flagVars, sensorVars, trigger, csi, filling, halted>>

Discarded ==
  /\ Finish("discard") /\ handling.what.count = 0
  /\ UNCHANGED <<flagVars, sensorVars, trigger, csiVars, halted>>

\* HandleTestPatternRequest: only kNone sets the default registers.
HandleTestPattern ==
  /\ Receive("pattern")
  /\ Block(Head(queue))
  /\ IF Head(queue).what.enable THEN UNCHANGED detecting ELSE WriteMdCtrl(detect)
  /\ UNCHANGED <<pc, request, flagVars, power, sensor, irq, exposed, trigger, csiVars, halted>>

PatternSet ==
  /\ Finish("pattern")
  /\ WriteI2cClear(detect /\ ~handling.what.enable)
  /\ UNCHANGED <<flagVars, power, sensor, detecting, exposed, trigger, csiVars, halted>>

HandleMotionDetectionConfig ==
  /\ Receive("config")
  /\ Block(Head(queue))
  /\ detect' = Head(queue).what.enable
  /\ WriteMdCtrl(detect')
  /\ UNCHANGED <<pc, request, enabled, mode, power, sensor, irq, exposed, trigger, csiVars, halted>>

Configured ==
  /\ Finish("config")
  /\ WriteI2cClear(detect)
  /\ UNCHANGED <<flagVars, power, sensor, detecting, exposed, trigger, csiVars, halted>>

\* HandleMotionDetectionInterrupt clears the interrupt and calls the callback.
HandleMotionDetectionInterrupt ==
  /\ Receive("motion")
  /\ irq' = FALSE
  /\ UNCHANGED <<appVars, handling, flagVars, power, sensor, detecting, exposed, trigger, csiVars, halted>>

Task ==
  \/ HandleEnable \/ SetMode \/ HandleDisable \/ TransferStop \/ HandlePower \/ SwReset
  \/ HandleGet \/ HandleReturn \/ HandleDiscard \/ DiscardFrame \/ Discarded
  \/ HandleTestPattern \/ PatternSet \/ HandleMotionDetectionConfig \/ Configured
  \/ HandleMotionDetectionInterrupt

----------------------------------------------------------------------------
(* Sensor, DMA and interrupt *)

\* A frame begins: it goes to the next empty buffer, or is dropped.
FrameStart ==
  /\ ~halted /\ csi /\ filling = NoFrame /\ empty # <<>>
  /\ sensor = "streaming" \/ (sensor = "trigger" /\ exposed)
  /\ filling' = Head(empty) /\ empty' = Tail(empty)
  /\ exposed' = FALSE
  /\ UNCHANGED <<appVars, taskVars, flagVars, power, sensor, detecting, irq, trigger, csi, full, halted>>

FrameDone ==
  /\ ~halted /\ csi /\ filling # NoFrame /\ sensor # "standby"
  /\ full' = Append(full, filling) /\ filling' = NoFrame
  /\ UNCHANGED <<appVars, taskVars, flagVars, sensorVars, trigger, csi, empty, halted>>

\* Mutant: the interrupt is cleared at once and not by the CameraTask.
MotionInterruptCleared ==
  /\ ~halted /\ sensor = "streaming" /\ detecting /\ ~irq
  /\ IF Len(queue) < QueueLength
       THEN queue' = Append(queue, [from |-> NoOne, what |-> Motion]) /\ UNCHANGED halted
       ELSE halted' = TRUE /\ UNCHANGED queue
  /\ UNCHANGED <<appVars, handling, flagVars, sensorVars, trigger, csiVars>>

\* The handler of kCameraInt, a rising edge, whatever the CameraTask is doing and
\* whatever is queued: SendRequestAsync from an interrupt CHECKs that the queue
\* has room.
MotionInterrupt ==
  /\ ~halted /\ sensor = "streaming" /\ detecting /\ ~irq
  /\ irq' = TRUE
  /\ IF Len(queue) < QueueLength
       THEN queue' = Append(queue, [from |-> NoOne, what |-> Motion]) /\ UNCHANGED halted
       ELSE halted' = TRUE /\ UNCHANGED queue
  /\ UNCHANGED <<appVars, handling, flagVars, power, sensor, detecting, exposed, trigger, csiVars>>

App(c) == Send(c) \/ AskAgain(c) \/ TakeFrame(c) \/ ReturnFrame(c) \/ Return(c)

Next ==
  \/ \E c \in Clients : GetFrame(c) \/ Call(c) \/ Trigger(c) \/ App(c)
  \/ Task
  \/ FrameStart \/ FrameDone \/ MotionInterrupt

Spec == Init /\ [][Next]_vars

\* The CameraTask is scheduled, senders get a slot in turn, the sensor delivers.
\* Nobody has to call anything, and nothing has to move before the camera.
FairSpec ==
  /\ Spec /\ WF_vars(Task) /\ WF_vars(FrameStart) /\ WF_vars(FrameDone)
  /\ \A c \in Clients : SF_vars(App(c))

----------------------------------------------------------------------------
(* Properties *)

\* The buffers an application task has: one answered to GetFrame, held, or on
\* its way back.
Has(c) == IF request[c].type = "get" /\ reply[c] # <<>> THEN {Head(reply[c])} \ {NoFrame}
          ELSE IF request[c].type = "return" /\ reply[c] = <<>> THEN {request[c].index}
          ELSE {}

\* A buffer is at one place: to be filled, being filled, full, or with one task.
\* No task reads a frame while the DMA writes it, and no frame is lost
\* (the indices that HandleFrameRequest and GetFrame pass around).
OneOwner ==
  LET InCsi == empty \o full \o (IF filling = NoFrame THEN <<>> ELSE <<filling>>)
      Owned == {InCsi[i] : i \in 1..Len(InCsi)}
  IN /\ Cardinality(Owned) = Len(InCsi)
     /\ \A c \in Clients : Has(c) \cap Owned = {}
     /\ \A c, d \in Clients : c # d => Has(c) \cap Has(d) = {}

\* enabled_ tells the truth when no task is switching the camera: the sensor is
\* in the mode of mode_ and the CSI driver runs.  GetFrame relies on it to
\* refuse a call that could never return.
EnabledIsCapturing ==
  (\A c \in Clients : request[c].type \notin Controls) /\ enabled
     => power /\ csi /\ sensor = mode

Bit(b) == IF b THEN 1 ELSE 0

\* In trigger mode the pin is high exactly as long as a picture is exposed, in
\* transfer or not fetched, so that GetFrame neither waits for a picture that
\* was never taken nor returns one of an earlier trigger.
TriggerMeansPicture ==
  (\A c \in Clients : request[c].type \notin Controls) /\ enabled /\ mode = "trigger"
     => Len(full) + Bit(exposed) + Bit(filling # NoFrame)
          + Bit(\E c \in Clients : request[c].type = "get" /\ Has(c) # {})
        = Bit(trigger)

\* The motion interrupt, which cannot wait as the tasks do, always finds room in
\* the request queue (the CHECK of SendRequestAsync): it holds if the tasks are
\* fewer than the slots and keep to the rules, and fails if they are as many.
InterruptFits == ~halted

\* Every call returns, except that several callers of GetFrame may snatch the
\* frames from each other: then some frame is delivered or discarded.
CallsReturn ==
  /\ \A c \in Clients :
       InCall(c) /\ request[c].type # "get" ~> ~InCall(c) \/ request[c].type = "get"
  /\ (\E c \in Clients : request[c].type = "get")
       ~> (\A c \in Clients : request[c].type # "get")
          \/ (\E c \in Clients : Has(c) # {}) \/ handling.what.type = "discard"
=============================================================================
