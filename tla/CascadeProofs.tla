---------------------------- MODULE CascadeProofs -----------------------------
(***************************************************************************)
(* Proofs about Cascade, for any pictures and any length of the MainTask's *)
(* queue, and whether or not a core suspends itself in time: at most one   *)
(* core has the camera, a picture stays in the input tensor as long as an  *)
(* inference works on it, and the assertions of the MainTask hold.         *)
(*                                                                         *)
(* The argument: the right to use the camera is a baton that is in at most *)
(* one place, with the M4, with the M7 or in a message between them (it    *)
(* may get lost, but not doubled).  While the M7 has it, Main and MainTask *)
(* agree on the one command that is under way, wherever it is.             *)
(***************************************************************************)
EXTENDS Cascade, SequenceTheorems, TLAPS

Commands == {"start", "stop", "process"}

CascadeTypes ==
  /\ m4 \in {"off", "boot", "resumed", "watch", "detected", "disabled", "sent", "suspended"}
  /\ main \in {"init", "sent", "suspended", "resumed", "starting", "running", "stopping",
               "stopped"}
  /\ commands \in Seq(Commands)
  /\ completed \in BOOLEAN /\ started \in BOOLEAN /\ offered \in BOOLEAN
  /\ mainTask \in {"receive", "process", "put", "offer", "queue", "start", "stop"}

\* Where the baton may be.
M4Has == m4 \in {"boot", "resumed", "watch", "detected", "disabled"}
M7Has == main \in {"resumed", "starting", "running", "stopping", "stopped"}

OneBaton ==
  /\ main = "init" => m4 = "off" /\ wakeUps = {}
  /\ M4Has => ~M7Has /\ wakeUps \cap {"M4", "M7"} = {}
  /\ M7Has => wakeUps \cap {"M4", "M7"} = {}
  /\ ~({"M4", "M7"} \subseteq wakeUps)

\* A core whose camera is on has the baton.
CameraWithBaton ==
  /\ cameraOf \subseteq {"M4", "M7"}
  /\ "M4" \in cameraOf => m4 \in {"watch", "detected"}
  /\ "M7" \in cameraOf <=> started
  /\ started => main \in {"starting", "running", "stopping"}

\* The command of Main is in the queue, executed, or completed.
InQueue(c) == \E i \in DOMAIN commands : commands[i] = c
Executes(c) == mainTask = c \/ (c = "start" /\ mainTask = "queue" /\ command = c)

AtMostOne == \A i, j \in DOMAIN commands :
               commands[i] # "process" /\ commands[j] # "process" => i = j

OneCommand ==
  /\ AtMostOne
  /\ \A c \in {"start", "stop"} :
       /\ InQueue(c) => ~Executes("start") /\ ~Executes("stop") /\ ~completed
       /\ Executes(c) => ~completed
       /\ InQueue(c) \/ Executes(c) => main = IF c = "start" THEN "starting" ELSE "stopping"
  /\ mainTask \in {"process", "put", "offer"} => command = "process"
  /\ mainTask \in {"start", "stop"} => command = mainTask
  /\ completed => main \in {"starting", "stopping"}

\* What the MainTask has been told to be is what it is.
StartedAsTold ==
  /\ main = "running" => started
  /\ main = "starting" => (started <=> completed \/ (mainTask = "queue" /\ command = "start"))
  /\ main = "stopping" => (started <=> ~completed)
  /\ mainTask \in {"process", "put", "offer"} => started

\* The tensor belongs to the inference as long as the PosenetTask's queue is full.
TensorInUse ==
  /\ posenet \in {"invoke", "receive"} => offered
  /\ inferring # NoPicture => posenet = "invoke" /\ tensor = inferring

CascadeInv ==
  /\ CascadeTypes /\ OneBaton /\ CameraWithBaton /\ OneCommand /\ StartedAsTold
  /\ TensorInUse

\* The assertions of CmdStart and CmdStop hold (multicore_model_cascade_cm7.cc).
AssertionsHold == mainTask # "asserted"
-----------------------------------------------------------------------------
(* Lemmas about the queue                                                  *)

LEMMA CommandAdded ==
  ASSUME commands \in Seq(Commands), NEW k \in Commands, commands' = Append(commands, k)
  PROVE  /\ commands' \in Seq(Commands)
         /\ \A c \in Commands : InQueue(c)' => InQueue(c) \/ c = k
         /\ AtMostOne /\ (k # "process" => ~InQueue("start") /\ ~InQueue("stop")) => AtMostOne'
PROOF
<1>1. /\ commands' \in Seq(Commands) /\ Len(commands') = Len(commands) + 1
      /\ \A i \in 1..Len(commands) : commands'[i] = commands[i]
      /\ commands'[Len(commands) + 1] = k
  BY AppendProperties
<1>2. /\ Len(commands) \in Nat /\ DOMAIN commands = 1..Len(commands)
      /\ DOMAIN commands' = 1..(Len(commands) + 1)
  BY <1>1, LenProperties
<1>3. /\ \A i \in DOMAIN commands' :
           \/ i \in DOMAIN commands /\ commands'[i] = commands[i]
           \/ i = Len(commands) + 1 /\ commands'[i] = k
      /\ \A i \in DOMAIN commands : commands[i] \in Commands
  BY <1>1, <1>2
<1>4. \A c \in Commands : InQueue(c)' => InQueue(c) \/ c = k
  BY <1>3 DEF InQueue
<1>5. ASSUME AtMostOne, k # "process" => ~InQueue("start") /\ ~InQueue("stop")
      PROVE  AtMostOne'
  <2>1. \A i \in DOMAIN commands : k # "process" => commands[i] = "process"
    BY <1>3, <1>5 DEF InQueue, Commands
  <2> QED
    BY <1>3, <1>5, <2>1 DEF AtMostOne
<1> QED
  BY <1>1, <1>4, <1>5

LEMMA CommandTaken ==
  ASSUME commands \in Seq(Commands), commands # <<>>, AtMostOne, commands' = Tail(commands)
  PROVE  /\ commands' \in Seq(Commands) /\ Head(commands) \in Commands
         /\ InQueue(Head(commands)) /\ AtMostOne'
         /\ \A c \in Commands : InQueue(c)' => InQueue(c)
         /\ Head(commands) # "process" => ~InQueue("start")' /\ ~InQueue("stop")'
PROOF
<1>1. /\ Head(commands) \in Commands /\ commands' \in Seq(Commands)
      /\ Len(commands') = Len(commands) - 1
      /\ \A i \in 1..Len(commands') : commands'[i] = commands[i + 1]
  BY HeadTailProperties
<1>2. /\ Len(commands) \in Nat /\ Len(commands) # 0
      /\ DOMAIN commands = 1..Len(commands) /\ DOMAIN commands' = 1..Len(commands')
  BY <1>1, LenProperties, EmptySeq
<1>3. Head(commands) = commands[1] /\ 1 \in DOMAIN commands
  BY <1>2
<1>4. \A i \in DOMAIN commands' :
        i \in Nat /\ i + 1 \in DOMAIN commands /\ i + 1 # 1 /\ commands'[i] = commands[i + 1]
  BY <1>1, <1>2
<1>5. InQueue(Head(commands)) /\ \A c \in Commands : InQueue(c)' => InQueue(c)
  BY <1>3, <1>4 DEF InQueue
<1>6. Head(commands) # "process" => \A i \in DOMAIN commands' : commands'[i] = "process"
  BY <1>3, <1>4 DEF AtMostOne
<1>7. AtMostOne'
  <2>1. \A i, j \in DOMAIN commands' :
          commands'[i] # "process" /\ commands'[j] # "process" => i + 1 = j + 1
    BY <1>4 DEF AtMostOne
  <2> QED
    BY <1>4, <2>1 DEF AtMostOne
<1>8. Head(commands) # "process" => ~InQueue("start")' /\ ~InQueue("stop")'
  BY <1>6 DEF InQueue
<1> QED
  BY <1>1, <1>5, <1>7, <1>8

-----------------------------------------------------------------------------
(* One lemma per conjunct of the invariant, or per task                    *)

LEMMA InitInv ==
  ASSUME CascadeInit
  PROVE  CascadeInv
PROOF
<1>1. commands = <<>> /\ DOMAIN commands = {} /\ commands \in Seq(Commands)
  BY DEF CascadeInit
<1> QED
  BY <1>1 DEF CascadeInit, CascadeInv, CascadeTypes, OneBaton, M4Has, M7Has, CameraWithBaton,
     OneCommand, AtMostOne, InQueue, Executes, StartedAsTold, TensorInUse

\* What the two Mains leave alone of the tasks of the M7.
TasksStay == UNCHANGED <<commands, completed, mainTask, command, started, offered, posenet,
                         inferring, tensor>>

\* A core that goes on, without a change of Main's on the M7.
LEMMA M4Inv ==
  ASSUME CascadeInv, StartM4Core \/ M4Task \/ DetectPerson \/ ResumeM4
  PROVE  CascadeInv'
PROOF
<1>1. TasksStay
  BY DEF StartM4Core, M4Task, EnableM4, DisableM4, SendToM7, SuspendM4, DetectPerson, ResumeM4,
     TasksStay, taskVars, posenetVars
<1>2. main' = main \/ (main = "init" /\ main' = "sent")
  BY DEF StartM4Core, M4Task, EnableM4, DisableM4, SendToM7, SuspendM4, DetectPerson, ResumeM4,
     mainVars
<1>3. CascadeTypes' /\ OneBaton' /\ CameraWithBaton'
  <2>1. CASE StartM4Core
    BY <1>1, <2>1 DEF StartM4Core, CascadeInv, CascadeTypes, OneBaton, M4Has, M7Has,
       CameraWithBaton, TasksStay
  <2>2. CASE EnableM4
    BY <1>1, <2>2 DEF EnableM4, CascadeInv, CascadeTypes, OneBaton, M4Has, M7Has,
       CameraWithBaton, TasksStay, mainVars
  <2>3. CASE DetectPerson \/ DisableM4
    BY <1>1, <2>3 DEF DetectPerson, DisableM4, CascadeInv, CascadeTypes, OneBaton, M4Has, M7Has,
       CameraWithBaton, TasksStay, mainVars
  <2>4. CASE SendToM7 \/ SuspendM4
    <3>1. /\ m4' \in {"sent", "suspended"} /\ main' = main /\ cameraOf' = cameraOf
          /\ \/ m4 = "disabled" /\ wakeUps' = wakeUps \cup {"M7"}
             \/ m4 = "sent" /\ wakeUps' = wakeUps
      BY <2>4 DEF SendToM7, SuspendM4, mainVars
    <3>2. CascadeTypes'
      BY <1>1, <3>1 DEF CascadeInv, CascadeTypes, TasksStay
    <3>3. OneBaton' /\ CameraWithBaton'
      BY <1>1, <3>1 DEF CascadeInv, OneBaton, M4Has, M7Has, CameraWithBaton, TasksStay
    <3> QED
      BY <3>2, <3>3
  <2>5. CASE ResumeM4
    BY <1>1, <2>5 DEF ResumeM4, CascadeInv, CascadeTypes, OneBaton, M4Has, M7Has,
       CameraWithBaton, TasksStay, mainVars
  <2> QED
    BY <2>1, <2>2, <2>3, <2>4, <2>5 DEF M4Task
<1>4. OneCommand' /\ StartedAsTold' /\ TensorInUse'
  BY <1>1, <1>2 DEF TasksStay, CascadeInv, OneCommand, AtMostOne, InQueue, Executes,
     StartedAsTold, TensorInUse
<1> QED
  BY <1>3, <1>4 DEF CascadeInv

\* Main of the M7, but for its commands.
LEMMA M7Inv ==
  ASSUME CascadeInv, SuspendM7 \/ ResumeM7 \/ SendToM4 \/ Elapse
  PROVE  CascadeInv'
PROOF
<1>1. TasksStay /\ UNCHANGED <<m4, cameraOf>>
  BY DEF SuspendM7, ResumeM7, SendToM4, Elapse, TasksStay, taskVars, posenetVars
<1>2. \/ main' = main
      \/ main = "sent" /\ main' = "suspended"
      \/ main = "suspended" /\ main' = "resumed"
      \/ main = "stopped" /\ main' = "sent"
  BY DEF SuspendM7, ResumeM7, SendToM4, Elapse
<1>3. CascadeTypes' /\ CameraWithBaton'
  BY <1>1, <1>2 DEF CascadeInv, CascadeTypes, CameraWithBaton, TasksStay
<1>4. OneBaton'
  <2>1. CASE SuspendM7 \/ Elapse
    BY <1>1, <2>1 DEF SuspendM7, Elapse, CascadeInv, OneBaton, M4Has, M7Has
  <2>2. CASE ResumeM7
    BY <1>1, <2>2 DEF ResumeM7, CascadeInv, OneBaton, M4Has, M7Has
  <2>3. CASE SendToM4
    BY <1>1, <2>3 DEF SendToM4, CascadeInv, OneBaton, M4Has, M7Has
  <2> QED
    BY <2>1, <2>2, <2>3
<1>5. OneCommand' /\ StartedAsTold' /\ TensorInUse'
  BY <1>1, <1>2 DEF TasksStay, CascadeInv, OneCommand, AtMostOne, InQueue, Executes,
     StartedAsTold, TensorInUse
<1> QED
  BY <1>3, <1>4, <1>5 DEF CascadeInv

\* Main sends a command.
LEMMA CommandInv ==
  ASSUME CascadeInv, StartMainTask \/ StopMainTask
  PROVE  CascadeInv'
PROOF
<1>1. PICK k \in {"start", "stop"} :
        /\ commands' = Append(commands, k)
        /\ main = (IF k = "start" THEN "resumed" ELSE "running")
        /\ main' = (IF k = "start" THEN "starting" ELSE "stopping")
        /\ UNCHANGED <<m4, wakeUps, cameraOf, completed, mainTask, command, started, offered,
                       posenet, inferring, tensor>>
  BY DEF StartMainTask, StopMainTask, SendCommand, taskVars, posenetVars
<1>2. /\ ~InQueue("start") /\ ~InQueue("stop") /\ ~Executes("start") /\ ~Executes("stop")
      /\ ~completed
  BY <1>1 DEF CascadeInv, OneCommand
<1>3. /\ commands' \in Seq(Commands) /\ AtMostOne'
      /\ \A c \in {"start", "stop"} : InQueue(c)' => c = k
  BY <1>1, <1>2, CommandAdded DEF CascadeInv, CascadeTypes, OneCommand, Commands
<1>4. CascadeTypes' /\ OneBaton' /\ TensorInUse'
  BY <1>1, <1>3 DEF CascadeInv, CascadeTypes, OneBaton, M4Has, M7Has, TensorInUse
<1>5. CameraWithBaton'
  BY <1>1 DEF CascadeInv, CameraWithBaton
<1>6. Executes("start")' = Executes("start") /\ Executes("stop")' = Executes("stop")
  BY <1>1 DEF Executes
<1>7. OneCommand'
  BY <1>1, <1>2, <1>3, <1>6 DEF CascadeInv, OneCommand
<1>8. StartedAsTold'
  BY <1>1, <1>2 DEF CascadeInv, CascadeTypes, CameraWithBaton, StartedAsTold, Executes
<1> QED
  BY <1>4, <1>5, <1>7, <1>8 DEF CascadeInv

\* Main is told that its command has been completed.
LEMMA CompletionInv ==
  ASSUME CascadeInv, MainTaskStarted \/ MainTaskStopped
  PROVE  CascadeInv'
PROOF
<1>1. /\ completed /\ completed' = FALSE
      /\ \/ main = "starting" /\ main' = "running"
         \/ main = "stopping" /\ main' = "stopped"
      /\ UNCHANGED <<m4, wakeUps, cameraOf, commands, mainTask, command, started, offered,
                     posenet, inferring, tensor>>
  BY DEF MainTaskStarted, MainTaskStopped, Completion, taskVars, posenetVars
<1>2. /\ ~InQueue("start") /\ ~InQueue("stop") /\ ~Executes("start") /\ ~Executes("stop")
  BY <1>1 DEF CascadeInv, OneCommand
<1>3. CascadeTypes' /\ OneBaton' /\ TensorInUse'
  BY <1>1 DEF CascadeInv, CascadeTypes, OneBaton, M4Has, M7Has, TensorInUse
<1>4. CameraWithBaton'
  BY <1>1 DEF CascadeInv, CameraWithBaton, StartedAsTold
<1>5. OneCommand'
  BY <1>1, <1>2 DEF CascadeInv, OneCommand, AtMostOne, InQueue, Executes
<1>6. StartedAsTold'
  BY <1>1, <1>2 DEF CascadeInv, StartedAsTold, Executes
<1> QED
  BY <1>3, <1>4, <1>5, <1>6 DEF CascadeInv

\* The MainTask takes a command; no assertion fails.
LEMMA ReceiveInv ==
  ASSUME CascadeInv, Receive
  PROVE  CascadeInv'
PROOF
<1>1. /\ mainTask = "receive" /\ commands # <<>>
      /\ command' = Head(commands) /\ commands' = Tail(commands)
      /\ UNCHANGED <<m4, main, wakeUps, cameraOf, completed, started, offered, posenet,
                     inferring, tensor>>
  BY DEF Receive, mainVars, posenetVars
<1>2. PICK k \in Commands : k = Head(commands)
  BY <1>1, CommandTaken DEF CascadeInv, CascadeTypes, OneCommand
<1>3. /\ commands' \in Seq(Commands) /\ AtMostOne' /\ InQueue(k)
      /\ \A c \in {"start", "stop"} : InQueue(c)' => InQueue(c)
      /\ k # "process" => ~InQueue("start")' /\ ~InQueue("stop")'
  BY <1>1, <1>2, CommandTaken DEF CascadeInv, CascadeTypes, OneCommand, Commands
<1>4. /\ k = "start" => main = "starting" /\ ~completed /\ ~started
      /\ k = "stop" => main = "stopping" /\ ~completed /\ started
  BY <1>1, <1>3 DEF CascadeInv, OneCommand, StartedAsTold
<1>5. mainTask' = IF k = "process" /\ ~started THEN "receive" ELSE k
  <2>1. k = "process" => mainTask' = IF started THEN k ELSE "receive"
    BY <1>1, <1>2 DEF Receive
  <2>2. k = "start" => mainTask' = IF started THEN "asserted" ELSE k
    BY <1>1, <1>2 DEF Receive
  <2>3. k = "stop" => mainTask' = IF started THEN k ELSE "asserted"
    BY <1>1, <1>2 DEF Receive
  <2> QED
    BY <1>4, <2>1, <2>2, <2>3 DEF Commands
<1>6. CascadeTypes' /\ OneBaton' /\ CameraWithBaton' /\ TensorInUse'
  BY <1>1, <1>3, <1>5 DEF CascadeInv, CascadeTypes, OneBaton, M4Has, M7Has, CameraWithBaton,
     TensorInUse, Commands
<1>7. \A c \in {"start", "stop"} : Executes(c)' <=> k = c
  BY <1>1, <1>2, <1>5 DEF Executes
<1>8. OneCommand'
  <2>1. \A c \in {"start", "stop"} :
          /\ InQueue(c)' => ~Executes("start")' /\ ~Executes("stop")' /\ ~completed'
          /\ Executes(c)' => ~completed'
          /\ InQueue(c)' \/ Executes(c)' => main' = IF c = "start" THEN "starting" ELSE "stopping"
    BY <1>1, <1>3, <1>4, <1>7 DEF CascadeInv, OneCommand
  <2>2. mainTask' \in {"start", "stop"} => command' = mainTask'
    BY <1>1, <1>2, <1>5
  <2>3. mainTask' \in {"process", "put", "offer"} => command' = "process"
    BY <1>1, <1>2, <1>5 DEF Commands
  <2>4. completed' => main' \in {"starting", "stopping"}
    BY <1>1 DEF CascadeInv, OneCommand
  <2> QED
    BY <1>3, <2>1, <2>2, <2>3, <2>4 DEF OneCommand
<1>9. StartedAsTold'
  <2>1. mainTask' \in {"process", "put", "offer"} => started'
    BY <1>1, <1>5 DEF Commands
  <2>2. mainTask' # "queue"
    BY <1>5 DEF Commands
  <2> QED
    BY <1>1, <2>1, <2>2 DEF CascadeInv, StartedAsTold
<1> QED
  BY <1>6, <1>8, <1>9 DEF CascadeInv

\* The camera of the M7 is switched on.
LEMMA StartInv ==
  ASSUME CascadeInv, CmdStart
  PROVE  CascadeInv'
PROOF
<1>1. /\ mainTask = "start" /\ started' = TRUE /\ cameraOf' = cameraOf \cup {"M7"}
      /\ mainTask' = "queue"
      /\ UNCHANGED <<m4, main, wakeUps, commands, completed, command, offered, posenet,
                     inferring, tensor>>
  BY DEF CmdStart, mainVars, posenetVars
<1>2. /\ main = "starting" /\ command = "start" /\ ~completed
      /\ ~InQueue("start") /\ ~InQueue("stop")
  BY <1>1 DEF CascadeInv, OneCommand, Executes
<1>3. CascadeTypes' /\ OneBaton' /\ TensorInUse'
  BY <1>1 DEF CascadeInv, CascadeTypes, OneBaton, M4Has, M7Has, TensorInUse
<1>4. CameraWithBaton' /\ StartedAsTold'
  BY <1>1, <1>2 DEF CascadeInv, CameraWithBaton, StartedAsTold
<1>5. OneCommand'
  BY <1>1, <1>2 DEF CascadeInv, OneCommand, AtMostOne, InQueue, Executes
<1> QED
  BY <1>3, <1>4, <1>5 DEF CascadeInv

\* It is switched off, and Main told so.
LEMMA StopInv ==
  ASSUME CascadeInv, CmdStop
  PROVE  CascadeInv'
PROOF
<1>1. /\ mainTask = "stop" /\ started' = FALSE /\ cameraOf' = cameraOf \ {"M7"}
      /\ mainTask' = "receive" /\ completed' = TRUE
      /\ UNCHANGED <<m4, main, wakeUps, commands, command, offered, posenet, inferring, tensor>>
  BY DEF CmdStop, mainVars, posenetVars
<1>2. /\ main = "stopping" /\ ~InQueue("start") /\ ~InQueue("stop")
  BY <1>1 DEF CascadeInv, OneCommand, Executes
<1>3. CascadeTypes' /\ OneBaton' /\ TensorInUse'
  BY <1>1 DEF CascadeInv, CascadeTypes, OneBaton, M4Has, M7Has, TensorInUse
<1>4. CameraWithBaton' /\ StartedAsTold'
  BY <1>1, <1>2 DEF CascadeInv, CameraWithBaton, StartedAsTold
<1>5. OneCommand'
  BY <1>1, <1>2 DEF CascadeInv, OneCommand, AtMostOne, InQueue, Executes
<1> QED
  BY <1>3, <1>4, <1>5 DEF CascadeInv

\* A frame is taken and passed on, or not.
LEMMA FrameInv ==
  ASSUME CascadeInv, CmdProcess \/ Put \/ Offer
  PROVE  CascadeInv'
PROOF
<1>1. /\ mainTask \in {"process", "put", "offer"} /\ mainTask' \in {"put", "offer", "queue"}
      /\ UNCHANGED <<m4, main, recent, wakeUps, cameraOf, commands, completed, command, started,
                     posenet, inferring>>
  BY DEF CmdProcess, Put, Offer, mainVars, posenetVars
<1>2. \/ UNCHANGED <<offered, tensor>>
      \/ ~offered /\ offered' = offered
      \/ ~offered /\ offered' = TRUE /\ tensor' = tensor
  BY DEF CmdProcess, Put, Offer, posenetVars
<1>3. command = "process" /\ started
  BY <1>1 DEF CascadeInv, OneCommand, StartedAsTold
<1>4. CascadeTypes'
  <2>1. offered' = offered \/ offered' = TRUE
    BY <1>2
  <2>2. offered' \in BOOLEAN
    BY <2>1 DEF CascadeInv, CascadeTypes
  <2> QED
    BY <1>1, <2>2 DEF CascadeInv, CascadeTypes
<1>5. OneBaton' /\ CameraWithBaton'
  BY <1>1 DEF CascadeInv, OneBaton, M4Has, M7Has, CameraWithBaton
<1>6. OneCommand' /\ StartedAsTold'
  BY <1>1, <1>3 DEF CascadeInv, OneCommand, AtMostOne, InQueue, Executes, StartedAsTold
<1>7. TensorInUse'
  BY <1>1, <1>2 DEF CascadeInv, TensorInUse
<1> QED
  BY <1>4, <1>5, <1>6, <1>7 DEF CascadeInv

\* The MainTask asks itself for the next frame; a start is completed.
LEMMA QueueProcessInv ==
  ASSUME CascadeInv, QueueProcess
  PROVE  CascadeInv'
PROOF
<1>1. /\ mainTask = "queue" /\ mainTask' = "receive" /\ commands' = Append(commands, "process")
      /\ completed' = (completed \/ command = "start")
      /\ UNCHANGED <<m4, main, wakeUps, cameraOf, command, started, offered, posenet,
                     inferring, tensor>>
  BY DEF QueueProcess, mainVars, posenetVars
<1>2. /\ commands' \in Seq(Commands) /\ AtMostOne'
      /\ \A c \in {"start", "stop"} : InQueue(c)' => InQueue(c)
  BY <1>1, CommandAdded DEF CascadeInv, CascadeTypes, OneCommand, Commands
<1>3. completed' <=> completed \/ command = "start"
  BY <1>1
<1>4. CascadeTypes'
  BY <1>1, <1>2 DEF CascadeInv, CascadeTypes
<1>5. OneBaton' /\ CameraWithBaton' /\ TensorInUse'
  BY <1>1 DEF CascadeInv, OneBaton, M4Has, M7Has, CameraWithBaton, TensorInUse
<1>6. OneCommand'
  <2>1. ~Executes("start")' /\ ~Executes("stop")'
    BY <1>1 DEF Executes
  <2>2. command = "start" => /\ Executes("start") /\ main = "starting"
                             /\ ~InQueue("start") /\ ~InQueue("stop")
    BY <1>1 DEF CascadeInv, OneCommand, Executes
  <2> QED
    BY <1>1, <1>2, <1>3, <2>1, <2>2 DEF CascadeInv, OneCommand
<1>7. StartedAsTold'
  <2>1. command = "start" => main = "starting"
    BY <1>1 DEF CascadeInv, OneCommand, Executes
  <2> QED
    BY <1>1, <1>3, <2>1 DEF CascadeInv, StartedAsTold
<1> QED
  BY <1>4, <1>5, <1>6, <1>7 DEF CascadeInv

LEMMA PosenetInv ==
  ASSUME CascadeInv, PosenetTask
  PROVE  CascadeInv'
PROOF
<1>1. UNCHANGED <<m4, main, wakeUps, cameraOf, commands, completed, mainTask, command, started,
                  tensor>>
  BY DEF PosenetTask, Peek, InvokePosenet, TakeOffer, mainVars, taskVars
<1>2. CascadeTypes'
  <2>1. offered' = offered \/ offered' = FALSE
    BY DEF PosenetTask, Peek, InvokePosenet, TakeOffer
  <2>2. offered' \in BOOLEAN
    BY <2>1 DEF CascadeInv, CascadeTypes
  <2> QED
    BY <1>1, <2>2 DEF CascadeInv, CascadeTypes
<1>3. TensorInUse'
  BY <1>1 DEF PosenetTask, Peek, InvokePosenet, TakeOffer, CascadeInv, TensorInUse
<1>4. OneBaton' /\ CameraWithBaton' /\ OneCommand' /\ StartedAsTold'
  BY <1>1 DEF CascadeInv, OneBaton, M4Has, M7Has, CameraWithBaton, OneCommand, AtMostOne,
     InQueue, Executes, StartedAsTold
<1> QED
  BY <1>2, <1>3, <1>4 DEF CascadeInv

LEMMA NextInv ==
  ASSUME CascadeInv, [CascadeNext]_cascadeVars
  PROVE  CascadeInv'
PROOF
<1>1. CASE UNCHANGED cascadeVars
  <2>1. UNCHANGED <<m4, main, wakeUps, cameraOf, commands, completed, mainTask, command,
                    started, offered, posenet, inferring, tensor>>
    BY <1>1 DEF cascadeVars, mainVars, taskVars, posenetVars
  <2>2. CascadeTypes' /\ OneBaton' /\ CameraWithBaton' /\ TensorInUse'
    BY <2>1 DEF CascadeInv, CascadeTypes, OneBaton, M4Has, M7Has, CameraWithBaton, TensorInUse
  <2>3. OneCommand' /\ StartedAsTold'
    BY <2>1 DEF CascadeInv, OneCommand, AtMostOne, InQueue, Executes, StartedAsTold
  <2> QED
    BY <2>2, <2>3 DEF CascadeInv
<1>2. CASE MainTask
  BY <1>2, ReceiveInv, StartInv, StopInv, FrameInv, QueueProcessInv DEF MainTask
<1>3. CASE M7Main
  BY <1>3, M7Inv, CommandInv, CompletionInv DEF M7Main
<1> QED
  BY <1>1, <1>2, <1>3, M4Inv, M7Inv, PosenetInv DEF CascadeNext

-----------------------------------------------------------------------------
(* The theorems                                                            *)

\* However the two cores wake each other, at most one of them has its CameraTask
\* enabled, and the M7 takes pictures only with its own (OneCoreHasCamera).
THEOREM CameraShared == CascadeSpec => []OneCoreHasCamera
PROOF
<1>1. CascadeInit => CascadeInv
  BY InitInv
<1>2. CascadeInv /\ [CascadeNext]_cascadeVars => CascadeInv'
  BY NextInv
<1>3. CascadeInv => OneCoreHasCamera
  <2>1. ASSUME CascadeInv
        PROVE  ~("M4" \in cameraOf /\ "M7" \in cameraOf)
    BY <2>1 DEF CascadeInv, CameraWithBaton, OneBaton, M4Has, M7Has
  <2>2. CascadeInv => (mainTask \in {"process", "put"} => "M7" \in cameraOf)
    BY DEF CascadeInv, CameraWithBaton, StartedAsTold
  <2> QED
    BY <2>1, <2>2 DEF OneCoreHasCamera
<1> QED
  BY <1>1, <1>2, <1>3, PTL DEF CascadeSpec

\* The tensor holds the picture an inference began with until the inference ends
\* (PictureStays).
THEOREM TensorKept == CascadeSpec => []PictureStays
PROOF
<1>1. CascadeInit => CascadeInv
  BY InitInv
<1>2. CascadeInv /\ [CascadeNext]_cascadeVars => CascadeInv'
  BY NextInv
<1>3. CascadeInv => PictureStays
  BY DEF CascadeInv, TensorInUse, PictureStays
<1> QED
  BY <1>1, <1>2, <1>3, PTL DEF CascadeSpec

\* The MainTask is never told to start when it has been started, nor to stop when it
\* has not (the asserts of CmdStart and CmdStop).
THEOREM AssertionsPass == CascadeSpec => []AssertionsHold
PROOF
<1>1. CascadeInit => CascadeInv
  BY InitInv
<1>2. CascadeInv /\ [CascadeNext]_cascadeVars => CascadeInv'
  BY NextInv
<1>3. CascadeInv => AssertionsHold
  BY DEF CascadeInv, CascadeTypes, AssertionsHold
<1> QED
  BY <1>1, <1>2, <1>3, PTL DEF CascadeSpec
=============================================================================
