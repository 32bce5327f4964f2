------------------------------ MODULE Cascade -------------------------------
(***************************************************************************)
(* The application that uses both cores (apps/multicore_model_cascade):    *)
(* the M4 watches the camera for a person and then wakes the M7, which     *)
(* looks for poses on the Edge TPU until there have been none for five     *)
(* seconds, and wakes the M4.  There is one camera; each core has a        *)
(* CameraTask of its own for it, and neither knows of the other's.         *)
(*                                                                         *)
(* On the M7, Main commands the MainTask through a queue of two, in which  *)
(* the MainTask also asks itself to process the next frame; the            *)
(* PosenetTask takes frames from it through the input tensor and a queue   *)
(* of one.  apps/catdog_blinker/main_m7.cc has the same two tasks.         *)
(*                                                                         *)
(* Calls of SendMessage and of the CameraTask return, and messages are     *)
(* handled once and in order (Ipc, Camera).  What is sent to the network   *)
(* is left out, and so are the errors before the first frame, after which  *)
(* the application suspends itself for good, and the demonstration, which  *)
(* hands over by the clock.  Inferences are taken to succeed: a failed     *)
(* CHECK(interpreter_->Invoke() == kTfLiteOk) stops the M7 for good.       *)
(***************************************************************************)
EXTENDS Naturals, Sequences

CONSTANTS
  Pictures,        \* what the camera sees
  CommandSlots,    \* length of the MainTask's queue
  SuspendsInTime   \* a core that has handed over suspends itself before the
                   \* other hands back, an image and an inference later at least

ASSUME CascadeAssumption ==
  CommandSlots \in Nat \ {0} /\ SuspendsInTime \in BOOLEAN

VARIABLES
  m4,         \* where the M4's Main is
  main,       \* where the M7's Main is
  wakeUps,    \* cores with an application message that is not handled yet
  cameraOf,   \* cores whose CameraTask is enabled
  commands,   \* queue_ of the MainTask
  completed,  \* the semaphore of the command Main waits for
  mainTask,   \* where the MainTask is
  command,    \* the command it executes
  started,    \* its local variable
  frame,      \* its buffer
  tensor,     \* the input tensor of the PosenetTask
  offered,    \* the PosenetTask's queue is full
  posenet,    \* where the PosenetTask is
  inferring,  \* the picture its inference began with
  recent      \* last_pose_data_ is less than five seconds old

mainVars    == <<main, recent>>
taskVars    == <<mainTask, command, started, frame>>
posenetVars == <<offered, tensor, posenet, inferring>>
cascadeVars == <<m4, mainVars, wakeUps, cameraOf, commands, completed, taskVars, posenetVars>>

NoPicture == "none"
-----------------------------------------------------------------------------
(* The M4                                                                  *)

\* The message handler is registered, the camera powered and the model loaded;
\* or a message of the M7 has resumed the task.  Then the camera is enabled.
EnableM4 ==
  /\ m4 \in {"boot", "resumed"}
  /\ m4' = "watch"
  /\ cameraOf' = cameraOf \cup {"M4"}
  /\ UNCHANGED <<mainVars, wakeUps, commands, completed, taskVars, posenetVars>>

\* A frame with a person in it.
DetectPerson ==
  /\ m4 = "watch" /\ "M4" \in cameraOf
  /\ SuspendsInTime => main = "suspended"
  /\ m4' = "detected"
  /\ UNCHANGED <<mainVars, wakeUps, cameraOf, commands, completed, taskVars, posenetVars>>

DisableM4 ==
  /\ m4 = "detected"
  /\ m4' = "disabled"
  /\ cameraOf' = cameraOf \ {"M4"}
  /\ UNCHANGED <<mainVars, wakeUps, commands, completed, taskVars, posenetVars>>

SendToM7 ==
  /\ m4 = "disabled"
  /\ m4' = "sent"
  /\ wakeUps' = wakeUps \cup {"M7"}
  /\ UNCHANGED <<mainVars, cameraOf, commands, completed, taskVars, posenetVars>>

SuspendM4 ==
  /\ m4 = "sent"
  /\ m4' = "suspended"
  /\ UNCHANGED <<mainVars, wakeUps, cameraOf, commands, completed, taskVars, posenetVars>>

\* vTaskResume does nothing to a task that is not suspended.
ResumeM4 ==
  /\ "M4" \in wakeUps
  /\ wakeUps' = wakeUps \ {"M4"}
  /\ m4' = IF m4 = "suspended" THEN "resumed" ELSE m4
  /\ UNCHANGED <<mainVars, cameraOf, commands, completed, taskVars, posenetVars>>
-----------------------------------------------------------------------------
(* Main of the M7                                                          *)

\* Its tasks are there, its message handler is registered.
StartM4Core ==
  /\ main = "init"
  /\ main' = "sent"
  /\ m4' = "boot"
  /\ UNCHANGED <<recent, wakeUps, cameraOf, commands, completed, taskVars, posenetVars>>

SuspendM7 ==
  /\ main = "sent"
  /\ main' = "suspended"
  /\ UNCHANGED <<m4, recent, wakeUps, cameraOf, commands, completed, taskVars, posenetVars>>

ResumeM7 ==
  /\ "M7" \in wakeUps
  /\ wakeUps' = wakeUps \ {"M7"}
  /\ main' = IF main = "suspended" THEN "resumed" ELSE main
  /\ UNCHANGED <<m4, recent, cameraOf, commands, completed, taskVars, posenetVars>>

\* SendCommandBlocking: into the queue, then wait for the semaphore.
SendCommand(from, c, to) ==
  /\ main = from /\ Len(commands) < CommandSlots
  /\ commands' = Append(commands, c)
  /\ main' = to
  /\ UNCHANGED <<m4, wakeUps, cameraOf, completed, taskVars, posenetVars>>

Completion(from, to) ==
  /\ main = from /\ completed
  /\ completed' = FALSE
  /\ main' = to
  /\ UNCHANGED <<m4, recent, wakeUps, cameraOf, commands, taskVars, posenetVars>>

\* ResetPosenetTimer, then Start.
StartMainTask == SendCommand("resumed", "start", "starting") /\ recent' = TRUE
MainTaskStarted == Completion("starting", "running")

\* Five seconds go by without a pose.
Elapse ==
  /\ main = "running" /\ recent
  /\ SuspendsInTime => m4 = "suspended"
  /\ recent' = FALSE
  /\ UNCHANGED <<m4, main, wakeUps, cameraOf, commands, completed, taskVars, posenetVars>>

\* PosenetInactiveForMs, then Stop.
StopMainTask == ~recent /\ SendCommand("running", "stop", "stopping") /\ UNCHANGED recent

\* Mutant of MainTaskStopped: Stop does not wait.
MainTaskStoppedAtOnce ==
  /\ main = "stopping"
  /\ main' = "stopped"
  /\ UNCHANGED <<m4, recent, wakeUps, cameraOf, commands, completed, taskVars, posenetVars>>

MainTaskStopped == Completion("stopping", "stopped")

SendToM4 ==
  /\ main = "stopped"
  /\ main' = "sent"
  /\ wakeUps' = wakeUps \cup {"M4"}
  /\ UNCHANGED <<m4, recent, cameraOf, commands, completed, taskVars, posenetVars>>
-----------------------------------------------------------------------------
(* MainTask                                                                *)

\* Mutant of Receive: a task that is not started skips the frame but goes on asking
\* for the next one.
ReceiveGoingOn ==
  /\ mainTask = "receive" /\ commands # <<>>
  /\ command' = Head(commands)
  /\ commands' = Tail(commands)
  /\ mainTask' = IF command' = "process" /\ ~started THEN "queue" ELSE command'
  /\ UNCHANGED <<m4, mainVars, wakeUps, cameraOf, completed, started, frame, posenetVars>>

\* The next command.  Start asserts that the task is not started and Stop that it
\* is; a frame is only processed if it is.
Receive ==
  /\ mainTask = "receive" /\ commands # <<>>
  /\ command' = Head(commands)
  /\ commands' = Tail(commands)
  /\ mainTask' = CASE command' = "process" -> IF started THEN command' ELSE "receive"
                   [] command' = "start"   -> IF started THEN "asserted" ELSE command'
                   [] command' = "stop"    -> IF started THEN command' ELSE "asserted"
  /\ UNCHANGED <<m4, mainVars, wakeUps, cameraOf, completed, started, frame, posenetVars>>

CmdStart ==
  /\ mainTask = "start"
  /\ started' = TRUE
  /\ cameraOf' = cameraOf \cup {"M7"}
  /\ mainTask' = "queue"
  /\ UNCHANGED <<m4, mainVars, wakeUps, commands, completed, command, frame, posenetVars>>

CmdStop ==
  /\ mainTask = "stop"
  /\ cameraOf' = cameraOf \ {"M7"}
  /\ started' = FALSE
  /\ completed' = TRUE
  /\ mainTask' = "receive"
  /\ UNCHANGED <<m4, mainVars, wakeUps, commands, command, frame, posenetVars>>

\* GetFrame, whose result is not looked at; the image is sent to the network.
CmdProcess ==
  /\ mainTask = "process"
  /\ IF "M7" \in cameraOf THEN frame' \in Pictures ELSE UNCHANGED frame
  /\ mainTask' = "put"
  /\ UNCHANGED <<m4, mainVars, wakeUps, cameraOf, commands, completed, command, started, posenetVars>>

\* Put: a frame is passed on if the last one has been worked off.
Put ==
  /\ mainTask = "put"
  /\ IF offered THEN mainTask' = "queue" /\ UNCHANGED tensor
                ELSE mainTask' = "offer" /\ tensor' = frame
  /\ UNCHANGED <<m4, mainVars, wakeUps, cameraOf, commands, completed, command, started, frame,
                 offered, posenet, inferring>>

Offer ==
  /\ mainTask = "offer" /\ ~offered
  /\ offered' = TRUE
  /\ mainTask' = "queue"
  /\ UNCHANGED <<m4, mainVars, wakeUps, cameraOf, commands, completed, command, started, frame,
                 tensor, posenet, inferring>>

\* It waits for room in the queue that only this task empties.  The semaphore of a
\* Start is given afterwards.
QueueProcess ==
  /\ mainTask = "queue" /\ Len(commands) < CommandSlots
  /\ commands' = Append(commands, "process")
  /\ completed' = (completed \/ command = "start")
  /\ mainTask' = "receive"
  /\ UNCHANGED <<m4, mainVars, wakeUps, cameraOf, command, started, frame, posenetVars>>
-----------------------------------------------------------------------------
(* PosenetTask                                                             *)

\* Mutant of Peek: the command is taken before the inference.
PeekReceive ==
  /\ posenet = "peek" /\ offered
  /\ inferring' = tensor
  /\ offered' = FALSE
  /\ posenet' = "invoke"
  /\ UNCHANGED <<m4, mainVars, wakeUps, cameraOf, commands, completed, taskVars, tensor>>

Peek ==
  /\ posenet = "peek" /\ offered
  /\ inferring' = tensor
  /\ posenet' = "invoke"
  /\ UNCHANGED <<m4, mainVars, wakeUps, cameraOf, commands, completed, taskVars, offered, tensor>>

\* The CHECK of the inference's result passes; if there are poses they are sent,
\* with the time.
InvokePosenet ==
  /\ posenet = "invoke"
  /\ inferring' = NoPicture
  /\ recent' \in {recent, TRUE}
  /\ posenet' = "receive"
  /\ UNCHANGED <<m4, main, wakeUps, cameraOf, commands, completed, taskVars, offered, tensor>>

TakeOffer ==
  /\ posenet = "receive" /\ offered
  /\ offered' = FALSE
  /\ posenet' = "peek"
  /\ UNCHANGED <<m4, mainVars, wakeUps, cameraOf, commands, completed, taskVars, tensor, inferring>>
-----------------------------------------------------------------------------
CascadeInit ==
  /\ m4 = "off" /\ main = "init" /\ wakeUps = {} /\ cameraOf = {}
  /\ commands = <<>> /\ completed = FALSE
  /\ mainTask = "receive" /\ command = "none" /\ started = FALSE
  /\ frame = NoPicture /\ tensor = NoPicture
  /\ offered = FALSE /\ posenet = "peek" /\ inferring = NoPicture
  /\ recent = TRUE

M4Task == EnableM4 \/ DisableM4 \/ SendToM7 \/ SuspendM4
M7Main ==
  \/ SuspendM7 \/ StartMainTask \/ MainTaskStarted
  \/ StopMainTask \/ MainTaskStopped \/ SendToM4
MainTask == Receive \/ CmdStart \/ CmdStop \/ CmdProcess \/ Put \/ Offer \/ QueueProcess
PosenetTask == Peek \/ InvokePosenet \/ TakeOffer

CascadeNext ==
  StartM4Core \/ M4Task \/ DetectPerson \/ ResumeM4 \/ M7Main \/ Elapse \/ ResumeM7 \/ MainTask \/ PosenetTask

\* The tasks are scheduled and messages handled; the application need not get as
\* far as starting the M4, and there need not be a person, nor five seconds without
\* a pose.
CascadeFairness ==
  /\ WF_cascadeVars(M4Task) /\ WF_cascadeVars(M7Main)
  /\ WF_cascadeVars(MainTask) /\ WF_cascadeVars(PosenetTask)
  /\ WF_cascadeVars(ResumeM4) /\ WF_cascadeVars(ResumeM7)

CascadeSpec == CascadeInit /\ [][CascadeNext]_cascadeVars /\ CascadeFairness
-----------------------------------------------------------------------------
\* The two CameraTasks are never enabled at the same time: each core has switched
\* its own off before it wakes the other (multicore_model_cascade_cm4.cc:174-177,
\* multicore_model_cascade_cm7.cc:474-478), although on the M7 it is another task
\* that does so, with frames still to be processed.  That task takes no picture but
\* with the camera of its core.
OneCoreHasCamera ==
  /\ cameraOf # {"M4", "M7"}
  /\ mainTask \in {"process", "put"} => "M7" \in cameraOf

\* The picture in the input tensor is not replaced while an inference works on it,
\* although the MainTask goes on taking pictures, is stopped and started again.
PictureStays == inferring # NoPicture => tensor = inferring

\* Whichever core hands over, the other takes the camera: no wake-up is lost, no
\* command waits for ever, the MainTask never waits for room in its own queue, and
\* neither of its assertions fails.
CoresTakeTurns ==
  /\ m4 = "detected" ~> "M7" \in cameraOf
  /\ main = "stopping" ~> "M4" \in cameraOf
=============================================================================
