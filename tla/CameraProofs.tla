----------------------------- MODULE CameraProofs -----------------------------
(***************************************************************************)
(* Proofs about Camera, for any number of tasks that keep to the rules,    *)
(* any length of the queue and any number of frame buffers: a buffer has   *)
(* one owner, enabled_ tells whether the camera is capturing, and in       *)
(* trigger mode the pin tells whether there is a picture.  With more slots *)
(* than tasks the motion interrupt finds room in the queue.                *)
(*                                                                         *)
(* The argument: a task whose request waits, is handled or is answered is  *)
(* known to the queue and to the CameraTask at most once.  While a task    *)
(* switches the camera it is alone, and how far its request has come tells *)
(* what the sensor and the CSI driver do; while none does, the camera is   *)
(* either on or off as a whole.                                            *)
(***************************************************************************)
EXTENDS Camera, FiniteSetTheorems, SequenceTheorems, TLAPS

KeepToRules == {"exclusive", "order", "streaming", "trigger"} \subseteq Rules

Message == [from: Clients \cup {NoOne}, what: Requests]

AppTypes ==
  /\ pc \in [Clients -> {"idle", "send", "wait", "hold"}]
  /\ request \in [Clients -> Requests \cup {Nothing}]
  /\ reply \in [Clients -> {<<>>} \cup {<<x>> : x \in Frames \cup {NoFrame}}]

TaskTypes ==
  /\ queue \in Seq(Message)
  /\ handling \in [from: Clients \cup {NoOne}, what: Requests \cup {Nothing}]

FlagTypes ==
  /\ enabled \in BOOLEAN /\ power \in BOOLEAN /\ exposed \in BOOLEAN
  /\ trigger \in BOOLEAN /\ csi \in BOOLEAN
  /\ mode \in Modes \cup {"none"} /\ sensor \in Modes \cup {"standby"}

CameraTypes == AppTypes /\ TaskTypes /\ FlagTypes

-----------------------------------------------------------------------------
(* Requests.                                                               *)

\* Task c waits for request r to be answered.
Waits(c, r) == c \in Clients /\ pc[c] = "wait" /\ reply[c] = <<>> /\ request[c] = r

FromClient(m) == m.what.type # "motion"

\* The requests whose handler blocks, or spins, before it answers.
Slow == Controls \cup {"discard", "pattern", "config"}

Queued ==
  /\ \A i \in DOMAIN queue : FromClient(queue[i]) => Waits(queue[i].from, queue[i].what)
  /\ \A i, j \in DOMAIN queue :
       FromClient(queue[i]) /\ FromClient(queue[j]) /\ queue[i].from = queue[j].from => i = j

Handled ==
  handling.what # Nothing =>
    /\ handling.from \in Clients /\ pc[handling.from] = "wait" /\ reply[handling.from] = <<>>
    /\ request[handling.from].type = handling.what.type
    /\ handling.what.type \in Slow
    /\ handling.what.type = "enable" => request[handling.from] = handling.what
    /\ \A i \in DOMAIN queue : FromClient(queue[i]) => queue[i].from # handling.from

Calls ==
  \A c \in Clients :
    /\ pc[c] = "idle" <=> request[c] = Nothing
    /\ reply[c] # <<>> => pc[c] = "wait"
    /\ pc[c] = "hold" => request[c].type = "return"

\* A task that switches the camera is alone.
Alone ==
  \A c, d \in Clients :
    c # d /\ request[c].type \in Controls => request[d] = Nothing

CallsInv == CameraTypes /\ Queued /\ Handled /\ Calls /\ Alone

-----------------------------------------------------------------------------
(* Frame buffers.                                                          *)

Distinct(s) == \A i, j \in DOMAIN s : s[i] = s[j] => i = j
In(f, s) == \E i \in DOMAIN s : s[i] = f

BuffersInv ==
  /\ empty \in Seq(Frames) /\ full \in Seq(Frames) /\ filling \in Frames \cup {NoFrame}
  /\ Distinct(empty) /\ Distinct(full)
  /\ \A f \in Frames :
       /\ ~(In(f, empty) /\ In(f, full))
       /\ f = filling => ~In(f, empty) /\ ~In(f, full)
       /\ \A c \in Clients : f \in Has(c) => ~In(f, empty) /\ ~In(f, full) /\ f # filling
       /\ \A c, d \in Clients : f \in Has(c) /\ f \in Has(d) => c = d

-----------------------------------------------------------------------------
(* The camera.                                                             *)

On  == enabled /\ power /\ csi /\ mode \in Modes /\ sensor = mode
Off == ~enabled /\ sensor = "standby" /\ ~exposed
NoPicture == full = <<>> /\ filling = NoFrame /\ ~exposed
Switching == \E c \in Clients : request[c].type \in Controls

Settled == ~Switching => On \/ Off

EnablingBy(c) ==
  /\ ~enabled /\ power
  /\ reply[c] = <<>> => /\ Off
                        /\ handling.what.type = "enable" => csi /\ full = <<>> /\ filling = NoFrame
  /\ reply[c] # <<>> => /\ csi /\ mode \in Modes /\ sensor = mode
                        /\ mode = "trigger" => NoPicture

DisablingBy(c) ==
  /\ reply[c] # <<>> => Off
  /\ reply[c] = <<>> /\ handling.what.type = "disable" => ~enabled
  /\ reply[c] = <<>> /\ handling.what.type # "disable" => On \/ Off

Enabling  == \A c \in Clients : request[c].type = "enable" => EnablingBy(c)
Disabling == \A c \in Clients : request[c].type = "disable" => DisablingBy(c)

Powering ==
  \A c \in Clients : request[c].type = "power" => Off

Discarding ==
  \A c \in Clients : request[c].type = "discard" => mode = "streaming"

Triggered == trigger => On /\ mode = "trigger" /\ ~Switching

InTrigger == On /\ mode = "trigger" /\ ~Switching
Fetched == \E c \in Clients : request[c].type = "get" /\ Has(c) # {}

Pictures ==
  InTrigger =>
    /\ Len(full) + Bit(exposed) + Bit(filling # NoFrame) + Bit(Fetched) = Bit(trigger)
    /\ \A c, d \in Clients : request[c].type = "get" /\ request[d].type = "get" => c = d

SwitchInv == Settled /\ Enabling /\ Disabling /\ Powering /\ Discarding /\ Triggered /\ Pictures
-----------------------------------------------------------------------------
(* Lemmas about the queue and the kinds of requests                        *)

LEMMA TailOfQueue ==
  ASSUME queue \in Seq(Message), queue # <<>>
  PROVE  /\ Tail(queue) \in Seq(Message)
         /\ 1 \in DOMAIN queue /\ Head(queue) = queue[1] /\ Head(queue) \in Message
         /\ \A i \in DOMAIN Tail(queue) :
              i + 1 \in DOMAIN queue /\ i + 1 # 1 /\ i \in Nat /\ Tail(queue)[i] = queue[i + 1]
PROOF
<1>1. /\ Head(queue) \in Message /\ Tail(queue) \in Seq(Message)
      /\ Len(Tail(queue)) = Len(queue) - 1
      /\ \A i \in 1..Len(Tail(queue)) : Tail(queue)[i] = queue[i + 1]
  BY HeadTailProperties
<1>2. /\ Len(queue) \in Nat /\ Len(queue) # 0
      /\ DOMAIN queue = 1..Len(queue) /\ DOMAIN Tail(queue) = 1..Len(Tail(queue))
  BY <1>1, LenProperties, EmptySeq
<1>3. Head(queue) = queue[1]
  OBVIOUS
<1> QED
  BY <1>1, <1>2, <1>3

LEMMA AppendedMessage ==
  ASSUME queue \in Seq(Message), NEW m \in Message
  PROVE  /\ Append(queue, m) \in Seq(Message)
         /\ \A i \in DOMAIN Append(queue, m) :
              \/ i \in DOMAIN queue /\ Append(queue, m)[i] = queue[i]
              \/ i = Len(queue) + 1 /\ Append(queue, m)[i] = m
PROOF
<1>1. /\ Append(queue, m) \in Seq(Message) /\ Len(Append(queue, m)) = Len(queue) + 1
      /\ \A i \in 1..Len(queue) : Append(queue, m)[i] = queue[i]
      /\ Append(queue, m)[Len(queue) + 1] = m
  BY AppendProperties
<1>2. /\ Len(queue) \in Nat /\ DOMAIN queue = 1..Len(queue)
      /\ DOMAIN Append(queue, m) = 1..(Len(queue) + 1)
  BY <1>1, LenProperties
<1> QED
  BY <1>1, <1>2

LEMMA RequestKinds ==
  ASSUME NEW r \in Requests
  PROVE  /\ r # Nothing /\ r.type # "nothing"
         /\ r.type \in {"enable", "disable", "power", "get", "return", "pattern", "motion",
                        "config", "discard"}
         /\ r.type = "enable" => r.mode \in Modes
         /\ r.type = "return" => r.index \in Frames
PROOF
<1>1. r.type \in {"enable", "disable", "power", "get", "return", "pattern", "motion",
                  "config", "discard"}
  BY DEF Requests
<1>2. r.type # "nothing" /\ r # Nothing
  BY <1>1 DEF Nothing
<1>3. r.type = "enable" => r.mode \in Modes
  BY DEF Requests
<1>4. r.type = "return" => r.index \in Frames
  BY DEF Requests
<1> QED
  BY <1>1, <1>2, <1>3, <1>4

-----------------------------------------------------------------------------
(* What the steps do to the requests.                                      *)

\* Steps that leave the requests alone.
LEMMA CallsStay ==
  ASSUME CallsInv, UNCHANGED <<pc, request, reply, queue, handling>>, CameraTypes'
  PROVE  CallsInv'
PROOF
  BY DEF CallsInv, Queued, Waits, FromClient, Handled, Calls, Alone

\* A task asks for something: it is alone if it switches the camera.
LEMMA CallsAsked ==
  ASSUME KeepToRules, CallsInv, NEW c \in Clients, NEW r \in Requests,
         pc[c] = "idle", Allowed(c, r), Ask(c, r), r.type # "return",
         UNCHANGED <<queue, handling>>, CameraTypes'
  PROVE  CallsInv'
PROOF
<1>1. /\ \A d \in Clients : d # c => pc'[d] = pc[d] /\ request'[d] = request[d]
      /\ pc'[c] = "send" /\ request'[c] = r /\ reply' = reply /\ reply[c] = <<>>
      /\ request[c] = Nothing /\ r # Nothing
  <2>1. r # Nothing /\ request[c] = Nothing /\ reply[c] = <<>>
    BY RequestKinds DEF CallsInv, Calls
  <2> QED
    BY <2>1 DEF Ask, CallsInv, CameraTypes, AppTypes, TaskTypes
<1>2. Queued'
  BY <1>1 DEF CallsInv, Queued, Waits, FromClient
<1>3. Handled'
  BY <1>1 DEF CallsInv, Handled, FromClient
<1>4. Calls'
  BY <1>1 DEF CallsInv, Calls
<1>5. \A d \in Clients : d # c /\ request[d] # Nothing =>
        r.type \notin Controls /\ request[d].type \notin Controls
  BY DEF KeepToRules, Allowed, InCall, CallsInv, Calls
<1>6. Alone'
  <2>1. Nothing.type \notin Controls
    BY DEF Nothing, Controls
  <2> QED
    BY <1>1, <1>5, <2>1 DEF CallsInv, Alone
<1> QED
  BY <1>2, <1>3, <1>4, <1>6 DEF CallsInv

\* The request is put into the queue.
LEMMA CallsSent ==
  ASSUME CallsInv, NEW c \in Clients, Send(c), CameraTypes'
  PROVE  CallsInv'
PROOF
<1>1. /\ pc[c] = "send" /\ pc' = [pc EXCEPT ![c] = "wait"]
      /\ queue' = Append(queue, [from |-> c, what |-> request[c]])
      /\ UNCHANGED <<request, reply, handling>>
  BY DEF Send
<1>2. /\ \A d \in Clients : d # c => pc'[d] = pc[d]
      /\ pc'[c] = "wait" /\ reply[c] = <<>> /\ request[c] # Nothing /\ request[c] \in Requests
  BY <1>1 DEF CallsInv, CameraTypes, AppTypes, TaskTypes, Calls
<1>3. PICK m \in Message : m = [from |-> c, what |-> request[c]]
  BY <1>2 DEF Message
<1>4. \A i \in DOMAIN queue' :
        \/ i \in DOMAIN queue /\ queue'[i] = queue[i]
        \/ i = Len(queue) + 1 /\ queue'[i] = m
  <2>1. queue' = Append(queue, m) /\ queue \in Seq(Message)
    BY <1>1, <1>3 DEF CallsInv, CameraTypes, AppTypes, TaskTypes
  <2> QED
    BY <2>1, AppendedMessage
<1>5. \A i \in DOMAIN queue : FromClient(queue[i]) => queue[i].from # c
  BY <1>1 DEF CallsInv, Queued, Waits
<1>6. Queued'
  <2>1. \A i \in DOMAIN queue' : FromClient(queue'[i]) =>
          /\ queue'[i].from \in Clients /\ pc'[queue'[i].from] = "wait"
          /\ reply'[queue'[i].from] = <<>> /\ request'[queue'[i].from] = queue'[i].what
    <3>1. /\ m.from = c /\ m.what = request[c]
          /\ pc'[c] = "wait" /\ reply'[c] = <<>> /\ request'[c] = request[c]
      BY <1>1, <1>2, <1>3
    <3>2. \A i \in DOMAIN queue : FromClient(queue[i]) =>
            /\ queue[i].from \in Clients /\ pc'[queue[i].from] = "wait"
            /\ reply'[queue[i].from] = <<>> /\ request'[queue[i].from] = queue[i].what
      BY <1>1, <1>2, <1>5 DEF CallsInv, Queued, Waits
    <3> QED
      BY <1>4, <3>1, <3>2
  <2>2. \A i, j \in DOMAIN queue' :
          FromClient(queue'[i]) /\ FromClient(queue'[j]) /\ queue'[i].from = queue'[j].from
            => i = j
    <3>1. m.from = c
      BY <1>3
    <3> QED
      BY <1>4, <1>5, <3>1 DEF CallsInv, Queued
  <2> QED
    BY <2>1, <2>2 DEF Queued, Waits, FromClient
<1>7. Handled'
  <2>1. m.from = c
    BY <1>3
  <2> QED
    BY <1>1, <1>2, <1>4, <2>1 DEF CallsInv, Handled, FromClient
<1>8. Calls' /\ Alone'
  BY <1>1, <1>2 DEF CallsInv, Calls, Alone
<1> QED
  BY <1>6, <1>7, <1>8 DEF CallsInv

\* The answer is taken: the task asks again, has a frame, or has finished.
LEMMA CallsAnswered ==
  ASSUME CallsInv, NEW c \in Clients, AskAgain(c) \/ TakeFrame(c) \/ Return(c), CameraTypes'
  PROVE  CallsInv'
PROOF
<1>1. /\ pc[c] = "wait" /\ reply[c] # <<>> /\ reply' = [reply EXCEPT ![c] = <<>>]
      /\ UNCHANGED <<queue, handling>>
  BY DEF AskAgain, TakeFrame, Return, Got, taskVars
<1>2. /\ \A d \in Clients : d # c =>
           pc'[d] = pc[d] /\ request'[d] = request[d] /\ reply'[d] = reply[d]
      /\ reply'[c] = <<>>
      /\ \/ pc'[c] = "send" /\ request'[c] = request[c]
         \/ pc'[c] = "hold" /\ request'[c].type = "return" /\ request'[c] # Nothing
         \/ pc'[c] = "idle" /\ request'[c] = Nothing
  <2>1. /\ \A d \in Clients : d # c => reply'[d] = reply[d]
        /\ reply'[c] = <<>>
    BY <1>1 DEF CallsInv, CameraTypes, AppTypes, TaskTypes
  <2>2. CASE AskAgain(c)
    BY <2>1, <2>2 DEF AskAgain, CallsInv, CameraTypes, AppTypes, TaskTypes
  <2>3. CASE TakeFrame(c)
    <3>1. [type |-> "return", index |-> Head(reply[c])] # Nothing
      BY DEF Nothing
    <3> QED
      BY <2>1, <2>3, <3>1 DEF TakeFrame, CallsInv, CameraTypes, AppTypes, TaskTypes
  <2>4. CASE Return(c)
    BY <2>1, <2>4 DEF Return, CallsInv, CameraTypes, AppTypes, TaskTypes
  <2> QED
    BY <2>2, <2>3, <2>4
<1>3. request[c] # Nothing
  BY <1>1 DEF CallsInv, Calls
<1>4. \A i \in DOMAIN queue : FromClient(queue[i]) => queue[i].from # c
  BY <1>1 DEF CallsInv, Queued, Waits
<1>5. Queued'
  BY <1>1, <1>2, <1>4 DEF CallsInv, Queued, Waits, FromClient
<1>6. Handled'
  BY <1>1, <1>2 DEF CallsInv, Handled, FromClient
<1>7. Calls'
  BY <1>2, <1>3 DEF CallsInv, Calls
<1>8. Alone'
  <2>1. Nothing.type \notin Controls /\ "return" \notin Controls
    BY DEF Nothing, Controls
  <2> QED
    BY <1>2, <1>3, <2>1 DEF CallsInv, Alone
<1> QED
  BY <1>5, <1>6, <1>7, <1>8 DEF CallsInv

LEMMA CallsReturning ==
  ASSUME CallsInv, NEW c \in Clients, ReturnFrame(c), CameraTypes'
  PROVE  CallsInv'
PROOF
<1>1. /\ pc[c] = "hold" /\ pc' = [pc EXCEPT ![c] = "send"]
      /\ UNCHANGED <<request, reply, queue, handling>>
  BY DEF ReturnFrame, taskVars
<1>2. /\ \A d \in Clients : d # c => pc'[d] = pc[d]
      /\ pc'[c] = "send" /\ reply[c] = <<>> /\ request[c] # Nothing
  BY <1>1 DEF CallsInv, CameraTypes, AppTypes, TaskTypes, Calls
<1>3. Queued' /\ Handled'
  BY <1>1, <1>2 DEF CallsInv, Queued, Waits, Handled, FromClient
<1>4. Calls' /\ Alone'
  BY <1>1, <1>2 DEF CallsInv, Calls, Alone
<1> QED
  BY <1>3, <1>4 DEF CallsInv

\* The CameraTask takes a request from the queue.
LEMMA Taken ==
  ASSUME CallsInv, NEW type, Receive(type), type # "motion"
  PROVE  LET c == Head(queue).from
         IN /\ handling.what = Nothing
            /\ c \in Clients /\ pc[c] = "wait" /\ reply[c] = <<>>
            /\ Head(queue) \in Message /\ request[c] = Head(queue).what /\ request[c].type = type
            /\ \A i \in DOMAIN queue' : FromClient(queue'[i]) => queue'[i].from # c
PROOF
<1>1. /\ queue' = Tail(queue) /\ queue # <<>> /\ Head(queue).what.type = type
      /\ handling.what = Nothing
  BY DEF Receive, TaskIdle
<1>2. /\ 1 \in DOMAIN queue /\ Head(queue) = queue[1] /\ Head(queue) \in Message
      /\ \A i \in DOMAIN queue' : i + 1 \in DOMAIN queue /\ i + 1 # 1 /\ queue'[i] = queue[i + 1]
  BY <1>1, TailOfQueue DEF CallsInv, CameraTypes, AppTypes, TaskTypes
<1>3. FromClient(queue[1])
  BY <1>1, <1>2 DEF FromClient
<1>4. Waits(queue[1].from, queue[1].what)
  BY <1>2, <1>3 DEF CallsInv, Queued
<1>5. \A i \in DOMAIN queue' : FromClient(queue'[i]) => queue'[i].from # queue[1].from
  BY <1>2, <1>3 DEF CallsInv, Queued
<1> QED
  BY <1>1, <1>2, <1>4, <1>5 DEF Waits

\* The rest of the queue is as it was.
LEMMA RestOfQueue ==
  ASSUME CallsInv, NEW type, Receive(type)
  PROVE  /\ handling.what = Nothing /\ queue' \in Seq(Message)
         /\ \A i \in DOMAIN queue' :
              FromClient(queue'[i]) => Waits(queue'[i].from, queue'[i].what)
         /\ \A i, j \in DOMAIN queue' :
              FromClient(queue'[i]) /\ FromClient(queue'[j]) /\ queue'[i].from = queue'[j].from
                => i = j
PROOF
<1>1. queue' = Tail(queue) /\ queue # <<>> /\ handling.what = Nothing
  BY DEF Receive, TaskIdle
<1>2. /\ queue' \in Seq(Message)
      /\ \A i \in DOMAIN queue' : i + 1 \in DOMAIN queue /\ i \in Nat /\ queue'[i] = queue[i + 1]
  BY <1>1, TailOfQueue DEF CallsInv, CameraTypes, AppTypes, TaskTypes
<1>3. \A i, j \in DOMAIN queue' :
        FromClient(queue'[i]) /\ FromClient(queue'[j]) /\ queue'[i].from = queue'[j].from
          => i + 1 = j + 1
  BY <1>2 DEF CallsInv, Queued
<1>4. \A i \in DOMAIN queue' : FromClient(queue'[i]) => Waits(queue'[i].from, queue'[i].what)
  BY <1>2 DEF CallsInv, Queued
<1>5. \A i, j \in DOMAIN queue' :
        FromClient(queue'[i]) /\ FromClient(queue'[j]) /\ queue'[i].from = queue'[j].from => i = j
  BY <1>2, <1>3
<1> QED
  BY <1>1, <1>2, <1>4, <1>5

\* The CameraTask takes a request that it does not answer at once.
LEMMA CallsBlocked ==
  ASSUME CallsInv, NEW type \in Slow, Receive(type), Block(Head(queue)),
         UNCHANGED <<pc, request>>, CameraTypes'
  PROVE  CallsInv'
PROOF
<1>0. type # "motion" /\ handling' = Head(queue) /\ UNCHANGED <<pc, request, reply>>
  BY DEF Block, Slow, Controls
<1>1. PICK c \in Clients :
        /\ c = Head(queue).from /\ pc[c] = "wait" /\ reply[c] = <<>>
        /\ request[c] = Head(queue).what /\ request[c].type = type
        /\ \A i \in DOMAIN queue' : FromClient(queue'[i]) => queue'[i].from # c
  BY <1>0, Taken
<1>2. Queued'
  BY <1>0, RestOfQueue DEF Queued, Waits, FromClient
<1>3. Handled'
  BY <1>0, <1>1 DEF Handled, FromClient, Slow
<1>4. Calls' /\ Alone'
  BY <1>0 DEF CallsInv, Calls, Alone
<1> QED
  BY <1>2, <1>3, <1>4 DEF CallsInv

\* It answers the request that it has handled.
LEMMA CallsFinished ==
  ASSUME CallsInv, NEW type \in Slow, Finish(type), CameraTypes'
  PROVE  /\ CallsInv'
         /\ handling.from \in Clients /\ request[handling.from].type = type
         /\ reply[handling.from] = <<>> /\ reply'[handling.from] = <<NoFrame>>
         /\ \A d \in Clients : d # handling.from => reply'[d] = reply[d]
         /\ handling'.what = Nothing
PROOF
<1>1. /\ handling.what.type = type /\ reply' = [reply EXCEPT ![handling.from] = <<NoFrame>>]
      /\ handling' = [from |-> NoOne, what |-> Nothing] /\ UNCHANGED <<pc, request, queue>>
  BY DEF Finish, Answer
<1>2. handling.what # Nothing
  BY <1>1 DEF Nothing, Slow, Controls
<1>3. PICK c \in Clients :
        /\ c = handling.from /\ pc[c] = "wait" /\ reply[c] = <<>>
        /\ request[c].type = type
        /\ \A i \in DOMAIN queue : FromClient(queue[i]) => queue[i].from # c
  BY <1>1, <1>2 DEF CallsInv, Handled
<1>4. reply'[c] = <<NoFrame>> /\ \A d \in Clients : d # c => reply'[d] = reply[d]
  BY <1>1, <1>3 DEF CallsInv, CameraTypes, AppTypes, TaskTypes
<1>5. Queued'
  BY <1>1, <1>3, <1>4 DEF CallsInv, Queued, Waits, FromClient
<1>6. Handled' /\ handling'.what = Nothing
  BY <1>1 DEF Handled
<1>7. Calls' /\ Alone'
  BY <1>1, <1>3, <1>4 DEF CallsInv, Calls, Alone
<1> QED
  BY <1>3, <1>4, <1>5, <1>6, <1>7 DEF CallsInv

\* It answers a request at once.
LEMMA CallsReplied ==
  ASSUME CallsInv, NEW type, Receive(type), type # "motion",
         NEW x \in Frames \cup {NoFrame}, Answer(Head(queue).from, x),
         UNCHANGED <<pc, request, handling>>, CameraTypes'
  PROVE  CallsInv'
PROOF
<1>1. PICK c \in Clients :
        /\ c = Head(queue).from /\ pc[c] = "wait" /\ reply[c] = <<>>
        /\ \A i \in DOMAIN queue' : FromClient(queue'[i]) => queue'[i].from # c
  BY Taken
<1>2. reply'[c] = <<x>> /\ \A d \in Clients : d # c => reply'[d] = reply[d]
  BY <1>1 DEF Answer, CallsInv, CameraTypes, AppTypes, TaskTypes
<1>3. Queued'
  BY <1>1, <1>2, RestOfQueue DEF Queued, Waits, FromClient
<1>4. Handled'
  BY RestOfQueue DEF Handled
<1>5. Calls' /\ Alone'
  BY <1>1, <1>2 DEF CallsInv, Calls, Alone
<1> QED
  BY <1>3, <1>4, <1>5 DEF CallsInv

\* It handles a motion interrupt.
LEMMA CallsInterrupted ==
  ASSUME CallsInv, Receive("motion"), UNCHANGED <<pc, request, reply, handling>>, CameraTypes'
  PROVE  CallsInv'
PROOF
<1>1. Queued' /\ Handled'
  BY RestOfQueue DEF Queued, Waits, FromClient, Handled
<1>2. Calls' /\ Alone'
  BY DEF CallsInv, Calls, Alone
<1> QED
  BY <1>1, <1>2 DEF CallsInv

\* It discards a frame and goes on with the same request.
LEMMA CallsDiscarding ==
  ASSUME CallsInv, DiscardFrame, CameraTypes'
  PROVE  CallsInv'
PROOF
<1>1. /\ handling.what.type = "discard" /\ handling' = [handling EXCEPT !.what.count = @ - 1]
      /\ UNCHANGED <<pc, request, reply, queue>>
  BY DEF DiscardFrame, appVars
<1>2. handling.what \in [type: {"discard"}, count: 0..MaxDiscard] /\ handling.what # Nothing
  BY <1>1 DEF CallsInv, CameraTypes, AppTypes, TaskTypes, Requests, Nothing
<1>3. handling'.from = handling.from /\ handling'.what.type = "discard"
  BY <1>1, <1>2 DEF CallsInv, CameraTypes, AppTypes, TaskTypes
<1>4. Queued' /\ Calls' /\ Alone'
  BY <1>1 DEF CallsInv, Queued, Waits, FromClient, Calls, Alone
<1>5. Handled'
  BY <1>1, <1>2, <1>3 DEF CallsInv, Handled, FromClient, Slow
<1> QED
  BY <1>4, <1>5 DEF CallsInv

\* The sensor has seen something move.
LEMMA CallsMotion ==
  ASSUME CallsInv, MotionInterrupt, CameraTypes'
  PROVE  CallsInv'
PROOF
<1>1. UNCHANGED <<pc, request, reply, handling>>
  BY DEF MotionInterrupt, appVars
<1>2. PICK m \in Message : m = [from |-> NoOne, what |-> Motion]
  BY DEF Message, Motion, Requests
<1>3. queue' = queue \/ queue' = Append(queue, m)
  BY <1>2 DEF MotionInterrupt
<1>4. CASE queue' = queue
  BY <1>1, <1>4, CallsStay
<1>5. CASE queue' = Append(queue, m)
  <2>1. \A i \in DOMAIN queue' :
          \/ i \in DOMAIN queue /\ queue'[i] = queue[i]
          \/ queue'[i] = m
    BY <1>5, AppendedMessage DEF CallsInv, CameraTypes, AppTypes, TaskTypes
  <2>2. ~FromClient(m)
    BY <1>2 DEF FromClient, Motion
  <2>3. \A i \in DOMAIN queue' : FromClient(queue'[i]) => i \in DOMAIN queue /\ queue'[i] = queue[i]
    BY <2>1, <2>2
  <2>4. Queued'
    BY <1>1, <2>3 DEF CallsInv, Queued, Waits, FromClient
  <2>5. Handled'
    BY <1>1, <2>3 DEF CallsInv, Handled, FromClient
  <2>6. Calls' /\ Alone'
    BY <1>1 DEF CallsInv, Calls, Alone
  <2> QED
    BY <2>4, <2>5, <2>6 DEF CallsInv
<1> QED
  BY <1>3, <1>4, <1>5

-----------------------------------------------------------------------------
(* Types.                                                                  *)

LEMMA Answered ==
  ASSUME AppTypes, NEW c, NEW x \in Frames \cup {NoFrame}, Answer(c, x), UNCHANGED <<pc, request>>
  PROVE  AppTypes'
PROOF
<1>1. <<x>> \in {<<y>> : y \in Frames \cup {NoFrame}}
  OBVIOUS
<1>2. reply' \in [Clients -> {<<>>} \cup {<<y>> : y \in Frames \cup {NoFrame}}]
  BY <1>1 DEF Answer, AppTypes
<1> QED
  BY <1>2 DEF AppTypes

LEMMA Asked ==
  ASSUME AppTypes, NEW c \in Clients, NEW r \in Requests, Ask(c, r)
  PROVE  AppTypes'
PROOF
  BY DEF Ask, AppTypes

LEMMA Received ==
  ASSUME TaskTypes, NEW type, Receive(type)
  PROVE  /\ queue' \in Seq(Message) /\ Head(queue) \in Message
         /\ Head(queue).what \in Requests /\ Head(queue).what.type = type
         /\ handling.what = Nothing
PROOF
<1>1. queue' = Tail(queue) /\ queue # <<>> /\ Head(queue).what.type = type /\ handling.what = Nothing
  BY DEF Receive, TaskIdle
<1> QED
  BY <1>1, TailOfQueue DEF TaskTypes, Message

LEMMA Blocked ==
  ASSUME TaskTypes, AppTypes, NEW type, Receive(type), Block(Head(queue)), UNCHANGED <<pc, request>>
  PROVE  TaskTypes' /\ AppTypes'
PROOF
<1>1. handling' = Head(queue) /\ UNCHANGED reply
  BY DEF Block
<1>2. Head(queue) \in [from: Clients \cup {NoOne}, what: Requests \cup {Nothing}]
  BY Received DEF Message
<1>3. TaskTypes'
  BY <1>1, <1>2, Received DEF TaskTypes
<1>4. AppTypes'
  BY <1>1 DEF AppTypes
<1> QED
  BY <1>3, <1>4

LEMMA Finished ==
  ASSUME TaskTypes, AppTypes, NEW type, Finish(type)
  PROVE  TaskTypes' /\ AppTypes'
PROOF
<1>1. AppTypes'
  BY Answered DEF Finish
<1>2. TaskTypes'
  BY DEF Finish, TaskTypes
<1> QED
  BY <1>1, <1>2

\* The requests and replies, whatever step is taken.
LEMMA RequestTypesKept ==
  ASSUME CallsInv, full \in Seq(Frames), [Next]_vars
  PROVE  AppTypes' /\ TaskTypes'
PROOF
<1> USE DEF vars, appVars, taskVars, flagVars, sensorVars, csiVars
<1>0. AppTypes /\ TaskTypes
  BY DEF CallsInv, CameraTypes
<1>1. ASSUME NEW c \in Clients, GetFrame(c) \/ Call(c)
      PROVE  AppTypes' /\ TaskTypes'
  <2>1. PICK r \in Requests : Ask(c, r) /\ UNCHANGED <<queue, handling>>
    <3>1. [type |-> "get"] \in Requests
      BY DEF Requests
    <3> QED
      BY <1>1, <3>1 DEF GetFrame, Call
  <2>2. AppTypes'
    BY <1>0, <2>1, Asked
  <2> QED
    BY <1>0, <2>1, <2>2 DEF TaskTypes
<1>2. ASSUME NEW c \in Clients, Trigger(c)
      PROVE  AppTypes' /\ TaskTypes'
  BY <1>0, <1>2 DEF Trigger, AppTypes, TaskTypes
<1>3. ASSUME NEW c \in Clients, Send(c)
      PROVE  AppTypes' /\ TaskTypes'
  <2>1. AppTypes'
    BY <1>0, <1>3 DEF Send, AppTypes
  <2>2. request[c] \in Requests
    BY <1>0, <1>3 DEF Send, AppTypes, CallsInv, Calls
  <2>3. PICK m \in Message : m = [from |-> c, what |-> request[c]]
    BY <2>2 DEF Message
  <2>4. queue' = Append(queue, m) /\ UNCHANGED handling
    BY <1>3, <2>3 DEF Send
  <2> QED
    BY <1>0, <2>1, <2>4, AppendedMessage DEF TaskTypes
<1>4. ASSUME NEW c \in Clients, AskAgain(c) \/ Return(c) \/ ReturnFrame(c)
      PROVE  AppTypes' /\ TaskTypes'
  BY <1>0, <1>4 DEF AskAgain, Got, Return, ReturnFrame, AppTypes, TaskTypes
<1>5. ASSUME NEW c \in Clients, TakeFrame(c)
      PROVE  AppTypes' /\ TaskTypes'
  <2>1. /\ reply[c] # <<>> /\ reply[c] # <<NoFrame>>
        /\ UNCHANGED <<queue, handling>>
        /\ request' = [request EXCEPT ![c] = [type |-> "return", index |-> Head(reply[c])]]
        /\ pc' = [pc EXCEPT ![c] = "hold"] /\ reply' = [reply EXCEPT ![c] = <<>>]
    BY <1>5 DEF TakeFrame, Got
  <2>2. PICK x \in Frames : reply[c] = <<x>>
    BY <1>0, <2>1 DEF AppTypes
  <2>3. PICK r \in Requests : r = [type |-> "return", index |-> Head(reply[c])]
    <3>1. Head(reply[c]) = x
      BY <2>2
    <3>2. [type |-> "return", index |-> x] \in Requests
      BY DEF Requests
    <3> QED
      BY <3>1, <3>2
  <2> QED
    BY <1>0, <2>1, <2>3 DEF AppTypes, TaskTypes
<1>6. CASE HandleEnable \/ HandleDisable \/ HandlePower \/ HandleDiscard
           \/ HandleTestPattern \/ HandleMotionDetectionConfig
  BY <1>0, <1>6, Blocked DEF HandleEnable, HandleDisable, HandlePower, HandleDiscard,
     HandleTestPattern, HandleMotionDetectionConfig
<1>7. CASE SetMode \/ TransferStop \/ SwReset \/ Discarded \/ PatternSet \/ Configured
  BY <1>0, <1>7, Finished DEF SetMode, TransferStop, SwReset, Discarded, PatternSet, Configured
<1>8. CASE HandleGet
  <2>1. PICK x \in Frames \cup {NoFrame} : Answer(Head(queue).from, x)
    BY <1>8 DEF HandleGet
  <2>2. Receive("get") /\ UNCHANGED <<pc, request, handling>>
    BY <1>8 DEF HandleGet
  <2> QED
    BY <1>0, <2>1, <2>2, Answered, Received DEF TaskTypes
<1>9. CASE HandleReturn
  <2>1. PICK type : Receive(type)
    BY <1>9 DEF HandleReturn
  <2>2. Answer(Head(queue).from, NoFrame) /\ UNCHANGED <<pc, request, handling>>
    BY <1>9 DEF HandleReturn
  <2> QED
    BY <1>0, <2>1, <2>2, Answered, Received DEF TaskTypes
<1>10. CASE DiscardFrame
  <2>1. /\ handling.what.type = "discard" /\ handling.what.count > 0
        /\ handling' = [handling EXCEPT !.what.count = @ - 1]
        /\ UNCHANGED <<pc, request, reply, queue>>
    BY <1>10 DEF DiscardFrame
  <2>2. handling.what \in [type: {"discard"}, count: 0..MaxDiscard]
    BY <1>0, <2>1 DEF TaskTypes, Requests, Nothing
  <2>3. handling.what.count - 1 \in 0..MaxDiscard
    BY <2>1, <2>2, DiscardAssumption
  <2>4. [handling.what EXCEPT !.count = @ - 1] \in [type: {"discard"}, count: 0..MaxDiscard]
    BY <2>2, <2>3
  <2>5. handling' = [handling EXCEPT !.what = [handling.what EXCEPT !.count = @ - 1]]
    BY <1>0, <2>1, <2>2 DEF TaskTypes
  <2>6. [handling.what EXCEPT !.count = @ - 1] \in Requests
    BY <2>4 DEF Requests
  <2> QED
    BY <1>0, <2>1, <2>5, <2>6 DEF TaskTypes, AppTypes
<1>11. CASE HandleMotionDetectionInterrupt
  BY <1>0, <1>11, Received DEF HandleMotionDetectionInterrupt, TaskTypes, AppTypes
<1>12. CASE FrameStart \/ FrameDone \/ UNCHANGED vars
  BY <1>0, <1>12 DEF FrameStart, FrameDone, TaskTypes, AppTypes
<1>13. CASE MotionInterrupt
  <2>1. PICK m \in Message : m = [from |-> NoOne, what |-> Motion]
    BY DEF Message, Motion, Requests
  <2>2. queue' = queue \/ queue' = Append(queue, m)
    BY <1>13, <2>1 DEF MotionInterrupt
  <2>3. UNCHANGED <<pc, request, reply, handling>>
    BY <1>13 DEF MotionInterrupt
  <2>4. queue' \in Seq(Message)
    BY <1>0, <2>2, AppendedMessage DEF TaskTypes
  <2> QED
    BY <1>0, <2>3, <2>4 DEF TaskTypes, AppTypes
<1> QED
  BY <1>1, <1>2, <1>3, <1>4, <1>5, <1>6, <1>7, <1>8, <1>9, <1>10, <1>11, <1>12, <1>13
  DEF Next, App, Task

LEMMA FlagTypesKept ==
  ASSUME CallsInv, [Next]_vars
  PROVE  FlagTypes'
PROOF
<1> USE DEF vars, appVars, taskVars, flagVars, sensorVars, csiVars, FlagTypes
<1>0. FlagTypes /\ TaskTypes
  BY DEF CallsInv, CameraTypes
<1>1. ASSUME NEW c \in Clients, GetFrame(c) \/ Call(c) \/ Send(c) \/ AskAgain(c) \/ ReturnFrame(c)
      PROVE  FlagTypes'
  BY <1>0, <1>1 DEF GetFrame, Call, Send, AskAgain, ReturnFrame
<1>2. ASSUME NEW c \in Clients, Trigger(c)
      PROVE  FlagTypes'
  BY <1>0, <1>2 DEF Trigger
<1>3. ASSUME NEW c \in Clients, TakeFrame(c)
      PROVE  FlagTypes'
  BY <1>0, <1>3 DEF TakeFrame
<1>4. ASSUME NEW c \in Clients, Return(c)
      PROVE  FlagTypes'
  BY <1>0, <1>4 DEF Return
<1>5. CASE HandleEnable
  BY <1>0, <1>5 DEF HandleEnable
<1>6. CASE SetMode
  <2>1. handling.what.type = "enable" /\ handling.what \in Requests \cup {Nothing}
    BY <1>0, <1>6 DEF SetMode, Finish, TaskTypes
  <2>2. handling.what.mode \in Modes
    BY <2>1, RequestKinds DEF Nothing
  <2> QED
    BY <1>0, <1>6, <2>2 DEF SetMode
<1>7. CASE HandleDisable \/ TransferStop
  BY <1>0, <1>7 DEF HandleDisable, TransferStop
<1>8. CASE HandlePower
  <2>1. Receive("power") /\ power' = Head(queue).what.enable
        /\ UNCHANGED <<enabled, trigger, csi, mode>>
        /\ sensor' \in {sensor, "standby"} /\ (exposed' = exposed \/ exposed' = FALSE)
    BY <1>8 DEF HandlePower
  <2>2. Head(queue).what \in Requests /\ Head(queue).what.type = "power"
    BY <1>0, <2>1, Received
  <2>3. Head(queue).what.enable \in BOOLEAN
    BY <2>2 DEF Requests
  <2> QED
    BY <1>0, <2>1, <2>3
<1>9. CASE SwReset
  BY <1>0, <1>9 DEF SwReset
<1>10. CASE HandleGet \/ HandleReturn \/ HandleDiscard \/ DiscardFrame \/ Discarded
            \/ HandleTestPattern \/ PatternSet \/ HandleMotionDetectionConfig \/ Configured
            \/ HandleMotionDetectionInterrupt
  BY <1>0, <1>10 DEF HandleGet, HandleReturn, HandleDiscard, DiscardFrame, Discarded,
     HandleTestPattern, PatternSet, HandleMotionDetectionConfig, Configured,
     HandleMotionDetectionInterrupt
<1>11. CASE FrameStart \/ FrameDone \/ MotionInterrupt \/ UNCHANGED vars
  BY <1>0, <1>11 DEF FrameStart, FrameDone, MotionInterrupt
<1> QED
  BY <1>1, <1>2, <1>3, <1>4, <1>5, <1>6, <1>7, <1>8, <1>9, <1>10, <1>11 DEF Next, App, Task

\* A step keeps CallsInv.
LEMMA CallsKept ==
  ASSUME KeepToRules, CallsInv, full \in Seq(Frames), [Next]_vars
  PROVE  CallsInv'
PROOF
<1> USE DEF vars, appVars, taskVars, flagVars, sensorVars, csiVars
<1>0. CameraTypes'
  BY RequestTypesKept, FlagTypesKept DEF CameraTypes
<1>1. ASSUME NEW c \in Clients, GetFrame(c) \/ Call(c)
      PROVE  CallsInv'
  <2>1. PICK r \in Requests : /\ Allowed(c, r) /\ Ask(c, r) /\ r.type # "return" /\ pc[c] = "idle"
                              /\ UNCHANGED <<queue, handling>>
    <3>1. [type |-> "get"] \in Requests
      BY DEF Requests
    <3> QED
      BY <1>1, <3>1 DEF GetFrame, Call, Controls
  <2> QED
    BY <1>0, <2>1, CallsAsked
<1>2. ASSUME NEW c \in Clients, Trigger(c)
      PROVE  CallsInv'
  <2>1. UNCHANGED <<pc, request, reply, queue, handling>>
    BY <1>2 DEF Trigger
  <2> QED
    BY <1>0, <2>1, CallsStay
<1>3. ASSUME NEW c \in Clients, App(c)
      PROVE  CallsInv'
  BY <1>0, <1>3, CallsSent, CallsAnswered, CallsReturning DEF App
<1>4. CASE HandleEnable \/ HandleDisable \/ HandlePower \/ HandleDiscard
           \/ HandleTestPattern \/ HandleMotionDetectionConfig
  <2>1. PICK type \in Slow :
          Receive(type) /\ Block(Head(queue)) /\ UNCHANGED <<pc, request>>
    BY <1>4 DEF HandleEnable, HandleDisable, HandlePower, HandleDiscard, HandleTestPattern,
       HandleMotionDetectionConfig, Slow, Controls
  <2> QED
    BY <1>0, <2>1, CallsBlocked
<1>5. CASE SetMode \/ TransferStop \/ SwReset \/ Discarded \/ PatternSet \/ Configured
  <2>1. PICK type \in Slow : Finish(type)
    BY <1>5 DEF SetMode, TransferStop, SwReset, Discarded, PatternSet, Configured, Slow, Controls
  <2> QED
    BY <1>0, <2>1, CallsFinished
<1>6. CASE HandleGet \/ HandleReturn
  <2>1. PICK type \in {"get", "return"} :
          Receive(type) /\ UNCHANGED <<pc, request, handling>>
    BY <1>6 DEF HandleGet, HandleReturn
  <2>2. PICK x \in Frames \cup {NoFrame} : Answer(Head(queue).from, x)
    <3>1. full # <<>> => Head(full) \in Frames
      BY HeadTailProperties
    <3> QED
      BY <1>6, <3>1 DEF HandleGet, HandleReturn
  <2> QED
    BY <1>0, <2>1, <2>2, CallsReplied
<1>7. CASE HandleMotionDetectionInterrupt
  BY <1>0, <1>7, CallsInterrupted DEF HandleMotionDetectionInterrupt
<1>8. CASE DiscardFrame
  BY <1>0, <1>8, CallsDiscarding
<1>9. CASE MotionInterrupt
  BY <1>0, <1>9, CallsMotion
<1>10. CASE FrameStart \/ FrameDone \/ UNCHANGED vars
  <2>1. UNCHANGED <<pc, request, reply, queue, handling>>
    BY <1>10 DEF FrameStart, FrameDone
  <2> QED
    BY <1>0, <2>1, CallsStay
<1> QED
  BY <1>1, <1>2, <1>3, <1>4, <1>5, <1>6, <1>7, <1>8, <1>9, <1>10 DEF Next, Task

-----------------------------------------------------------------------------
(* Frame buffers.                                                          *)

LEMMA TailOfBuffers ==
  ASSUME NEW s \in Seq(Frames), s # <<>>, Distinct(s)
  PROVE  /\ Tail(s) \in Seq(Frames) /\ Head(s) \in Frames /\ In(Head(s), s) /\ Distinct(Tail(s))
         /\ Len(Tail(s)) = Len(s) - 1
         /\ \A f : In(f, Tail(s)) => In(f, s) /\ f # Head(s)
PROOF
<1>1. /\ Head(s) \in Frames /\ Tail(s) \in Seq(Frames) /\ Len(Tail(s)) = Len(s) - 1
      /\ \A i \in 1..Len(Tail(s)) : Tail(s)[i] = s[i + 1]
  BY HeadTailProperties
<1>2. /\ Len(s) \in Nat /\ Len(s) # 0 /\ DOMAIN s = 1..Len(s) /\ DOMAIN Tail(s) = 1..Len(Tail(s))
  BY <1>1, LenProperties, EmptySeq
<1>3. Head(s) = s[1] /\ 1 \in DOMAIN s
  BY <1>2
<1>4. \A i \in DOMAIN Tail(s) : i + 1 \in DOMAIN s /\ i + 1 # 1 /\ i \in Nat /\ Tail(s)[i] = s[i + 1]
  BY <1>1, <1>2
<1>5. Distinct(Tail(s))
  <2>1. \A i, j \in DOMAIN Tail(s) : Tail(s)[i] = Tail(s)[j] => i + 1 = j + 1
    BY <1>4 DEF Distinct
  <2> QED
    BY <1>4, <2>1 DEF Distinct
<1>6. \A f : In(f, Tail(s)) => In(f, s) /\ f # Head(s)
  BY <1>3, <1>4 DEF In, Distinct
<1> QED
  BY <1>1, <1>3, <1>5, <1>6 DEF In

LEMMA AppendedBuffer ==
  ASSUME NEW s \in Seq(Frames), NEW f \in Frames, ~In(f, s), Distinct(s)
  PROVE  /\ Append(s, f) \in Seq(Frames) /\ Distinct(Append(s, f))
         /\ Len(Append(s, f)) = Len(s) + 1
         /\ \A g : In(g, Append(s, f)) => In(g, s) \/ g = f
PROOF
<1>1. /\ Append(s, f) \in Seq(Frames) /\ Len(Append(s, f)) = Len(s) + 1
      /\ \A i \in 1..Len(s) : Append(s, f)[i] = s[i]
      /\ Append(s, f)[Len(s) + 1] = f
  BY AppendProperties
<1>2. /\ Len(s) \in Nat /\ DOMAIN s = 1..Len(s) /\ DOMAIN Append(s, f) = 1..(Len(s) + 1)
  BY <1>1, LenProperties
<1>3. \A i \in DOMAIN Append(s, f) :
        \/ i \in DOMAIN s /\ Append(s, f)[i] = s[i]
        \/ i = Len(s) + 1 /\ Append(s, f)[i] = f
  BY <1>1, <1>2
<1>4. Distinct(Append(s, f))
  BY <1>3 DEF Distinct, In
<1>5. \A g : In(g, Append(s, f)) => In(g, s) \/ g = f
  BY <1>3 DEF In
<1> QED
  BY <1>1, <1>4, <1>5

\* The buffers a task has, by what it has asked for.
LEMMA HasFacts ==
  ASSUME CallsInv, NEW c \in Clients
  PROVE  /\ request[c].type \notin {"get", "return"} => Has(c) = {}
         /\ request[c].type = "get" /\ reply[c] = <<>> => Has(c) = {}
         /\ request[c].type = "return" /\ reply[c] # <<>> => Has(c) = {}
         /\ request[c].type = "return" /\ reply[c] = <<>> => Has(c) = {request[c].index}
         /\ \A x \in Frames \cup {NoFrame} :
              request[c].type = "get" /\ reply[c] = <<x>> => Has(c) = {x} \ {NoFrame}
         /\ Has(c) \subseteq Frames
PROOF
<1>1. request[c].type = "return" => request[c].index \in Frames
  BY RequestKinds DEF CallsInv, CameraTypes, AppTypes, Nothing
<1>2. reply[c] # <<>> => \E x \in Frames \cup {NoFrame} : reply[c] = <<x>>
  BY DEF CallsInv, CameraTypes, AppTypes
<1>3. \A x \in Frames \cup {NoFrame} : <<x>> # <<>> /\ Head(<<x>>) = x
  OBVIOUS
<1> QED
  BY <1>1, <1>2, <1>3 DEF Has

LEMMA BuffersStay ==
  ASSUME BuffersInv, \A c \in Clients : Has(c)' \subseteq Has(c), UNCHANGED <<empty, full, filling>>
  PROVE  BuffersInv'
PROOF
  BY DEF BuffersInv, In, Distinct

\* Steps that do not move a frame from or to a task.
LEMMA NoFrameMoves ==
  ASSUME CallsInv, CallsInv', NEW c \in Clients,
         \A d \in Clients : d # c => request'[d] = request[d] /\ reply'[d] = reply[d],
         \/ request'[c].type \notin {"get", "return"}
         \/ request'[c].type = "get" /\ reply'[c] = <<>>
         \/ \E x \in Frames : /\ request[c].type = "get" /\ reply[c] = <<x>>
                              /\ request'[c] = [type |-> "return", index |-> x] /\ reply'[c] = <<>>
  PROVE  \A d \in Clients : Has(d)' \subseteq Has(d)
PROOF
<1>1. ASSUME NEW d \in Clients, d # c
      PROVE  Has(d)' = Has(d)
  BY <1>1 DEF Has
<1>2. Has(c)' \subseteq Has(c)
  <2>1. CASE request'[c].type \notin {"get", "return"}
    BY <2>1 DEF Has
  <2>2. CASE request'[c].type = "get" /\ reply'[c] = <<>>
    BY <2>2 DEF Has
  <2>3. ASSUME NEW x \in Frames, request[c].type = "get", reply[c] = <<x>>, reply'[c] = <<>>,
               request'[c] = [type |-> "return", index |-> x]
        PROVE  Has(c)' \subseteq Has(c)
    <3>1. Has(c) = {x} \ {NoFrame} /\ x # NoFrame
      BY <2>3, HasFacts, BufferAssumption DEF Frames, NoFrame
    <3>2. Has(c)' = {x}
      BY <2>3 DEF Has
    <3> QED
      BY <3>1, <3>2
  <2> QED
    BY <2>1, <2>2, <2>3
<1> QED
  BY <1>1, <1>2

\* A task asks, asks again, sends, has its frame or returns.
LEMMA TasksMoveNoFrame ==
  ASSUME CallsInv, CallsInv', NEW c \in Clients,
         GetFrame(c) \/ Call(c) \/ Trigger(c) \/ App(c)
  PROVE  \A d \in Clients : Has(d)' \subseteq Has(d)
PROOF
<1>1. CASE GetFrame(c) \/ Call(c)
  <2>1. PICK r \in Requests : Ask(c, r) /\ r.type # "return" /\ pc[c] = "idle"
    <3>1. [type |-> "get"] \in Requests
      BY DEF Requests
    <3> QED
      BY <1>1, <3>1 DEF GetFrame, Call, Controls
  <2>2. /\ \A d \in Clients : d # c => request'[d] = request[d] /\ reply'[d] = reply[d]
        /\ request'[c] = r /\ reply'[c] = <<>>
    BY <2>1 DEF Ask, CallsInv, CameraTypes, AppTypes, Calls
  <2> QED
    BY <2>1, <2>2, NoFrameMoves
<1>2. CASE Trigger(c) \/ Send(c) \/ ReturnFrame(c)
  BY <1>2 DEF Trigger, Send, ReturnFrame, appVars, Has
<1>3. CASE AskAgain(c)
  <2>1. /\ request[c].type = "get" /\ request' = request /\ reply' = [reply EXCEPT ![c] = <<>>]
    BY <1>3 DEF AskAgain, Got
  <2>2. /\ \A d \in Clients : d # c => request'[d] = request[d] /\ reply'[d] = reply[d]
        /\ request'[c].type = "get" /\ reply'[c] = <<>>
    BY <2>1 DEF CallsInv, CameraTypes, AppTypes
  <2> QED
    BY <2>2, NoFrameMoves
<1>4. CASE TakeFrame(c)
  <2>1. /\ request[c].type = "get" /\ reply[c] # <<>> /\ reply[c] # <<NoFrame>>
        /\ request' = [request EXCEPT ![c] = [type |-> "return", index |-> Head(reply[c])]]
        /\ reply' = [reply EXCEPT ![c] = <<>>]
    BY <1>4 DEF TakeFrame, Got
  <2>2. PICK x \in Frames : reply[c] = <<x>>
    BY <2>1 DEF CallsInv, CameraTypes, AppTypes
  <2>3. /\ \A d \in Clients : d # c => request'[d] = request[d] /\ reply'[d] = reply[d]
        /\ request'[c] = [type |-> "return", index |-> x] /\ reply'[c] = <<>>
    BY <2>1, <2>2 DEF CallsInv, CameraTypes, AppTypes
  <2> QED
    BY <2>1, <2>2, <2>3, NoFrameMoves
<1>5. CASE Return(c)
  <2>1. /\ \A d \in Clients : d # c => request'[d] = request[d] /\ reply'[d] = reply[d]
        /\ request'[c] = Nothing
    BY <1>5 DEF Return, CallsInv, CameraTypes, AppTypes
  <2>2. request'[c].type \notin {"get", "return"}
    BY <2>1 DEF Nothing
  <2> QED
    BY <2>1, <2>2, NoFrameMoves
<1> QED
  BY <1>1, <1>2, <1>3, <1>4, <1>5 DEF App

\* Answering a request other than GetFrame or the return of a frame moves none.
LEMMA AnswersMoveNoFrame ==
  ASSUME CallsInv, CallsInv', NEW c \in Clients, request[c].type \notin {"get", "return"},
         NEW x, Answer(c, x), UNCHANGED request
  PROVE  \A d \in Clients : Has(d)' \subseteq Has(d)
PROOF
<1>1. \A d \in Clients : d # c => request'[d] = request[d] /\ reply'[d] = reply[d]
  BY DEF Answer, CallsInv, CameraTypes, AppTypes
<1> QED
  BY <1>1, NoFrameMoves

\* The CameraTask switches the camera on: all buffers go to the new handle.
LEMMA BuffersEnabled ==
  ASSUME CallsInv, BuffersInv, HandleEnable
  PROVE  BuffersInv'
PROOF
<1>1. /\ Receive("enable") /\ UNCHANGED <<request, reply>>
      /\ full' = <<>> /\ filling' = NoFrame
      /\ empty' = [i \in 1..(IF Head(queue).what.mode = "trigger" THEN 2 ELSE FramebufferCount) |-> i]
  BY DEF HandleEnable, Block
<1>2. PICK c \in Clients : request[c].type = "enable"
  BY <1>1, Taken
<1>3. \A d \in Clients : d # c => request[d] = Nothing
  BY <1>2 DEF CallsInv, Alone, Controls
<1>4. \A d \in Clients : Has(d) = {}
  <2>1. Nothing.type = "nothing"
    BY DEF Nothing
  <2> QED
    BY <1>2, <1>3, <2>1, HasFacts
<1>5. \A d \in Clients : Has(d)' = {}
  BY <1>1, <1>4 DEF Has
<1>6. PICK n \in Nat : n <= FramebufferCount /\ empty' = [i \in 1..n |-> i]
  BY <1>1, BufferAssumption
<1>7. empty' \in Seq(Frames) /\ DOMAIN empty' = 1..n
  <2>1. \A i \in 1..n : i \in Frames
    BY <1>6, BufferAssumption DEF Frames
  <2> QED
    BY <1>6, <2>1, IsASeq
<1>8. \A f : ~(\E i \in DOMAIN full' : full'[i] = f)
  BY <1>1
<1>9. full' \in Seq(Frames)
  BY <1>1
<1>10. \A i, j \in DOMAIN empty' : empty'[i] = empty'[j] => i = j
  BY <1>6, <1>7
<1>11. \A f \in Frames : f # filling'
  BY <1>1, BufferAssumption DEF Frames, NoFrame
<1> QED
  BY <1>1, <1>5, <1>7, <1>8, <1>9, <1>10, <1>11 DEF BuffersInv, Distinct, In

\* A frame goes to the task that has asked for one.
LEMMA BuffersFetched ==
  ASSUME CallsInv, CallsInv', BuffersInv, HandleGet
  PROVE  BuffersInv'
PROOF
<1>1. /\ Receive("get") /\ UNCHANGED <<request, empty, filling>>
      /\ \/ full = <<>> /\ full' = full /\ Answer(Head(queue).from, NoFrame)
         \/ full # <<>> /\ full' = Tail(full) /\ Answer(Head(queue).from, Head(full))
  BY DEF HandleGet
<1>2. PICK c \in Clients : c = Head(queue).from /\ request[c].type = "get" /\ reply[c] = <<>>
  BY <1>1, Taken
<1>3. CASE full = <<>>
  <2>1. \A d \in Clients : d # c => request'[d] = request[d] /\ reply'[d] = reply[d]
    BY <1>1, <1>2, <1>3 DEF Answer, CallsInv, CameraTypes, AppTypes
  <2>2. request'[c] = request[c] /\ reply'[c] = <<NoFrame>>
    BY <1>1, <1>2, <1>3 DEF Answer, CallsInv, CameraTypes, AppTypes
  <2>3. Has(c)' = {}
    BY <1>2, <2>2 DEF Has
  <2>4. \A d \in Clients : Has(d)' \subseteq Has(d)
    BY <2>1, <2>3 DEF Has
  <2> QED
    BY <1>1, <1>3, <2>4, BuffersStay
<1>4. CASE full # <<>>
  <2>1. /\ full' = Tail(full) /\ full' \in Seq(Frames) /\ Head(full) \in Frames
        /\ In(Head(full), full) /\ Distinct(full')
        /\ \A f : In(f, full') => In(f, full) /\ f # Head(full)
    <3>1. full \in Seq(Frames) /\ Distinct(full)
      BY DEF BuffersInv
    <3>2. full' = Tail(full)
      BY <1>1, <1>4
    <3> QED
      BY <1>4, <3>1, <3>2, TailOfBuffers
  <2>2. \A d \in Clients : d # c => request'[d] = request[d] /\ reply'[d] = reply[d]
    BY <1>1, <1>2, <1>4 DEF Answer, CallsInv, CameraTypes, AppTypes
  <2>3. request'[c] = request[c] /\ reply'[c] = <<Head(full)>>
    BY <1>1, <1>2, <1>4 DEF Answer, CallsInv, CameraTypes, AppTypes
  <2>4. Has(c)' \subseteq {Head(full)} /\ \A d \in Clients : d # c => Has(d)' = Has(d)
    <3>1. \A d \in Clients : d # c => Has(d)' = Has(d)
      BY <2>2 DEF Has
    <3>2. request'[c].type = "get" /\ reply'[c] # <<>> /\ Head(reply'[c]) = Head(full)
      BY <1>2, <2>1, <2>3
    <3>3. Has(c)' \subseteq {Head(full)}
      BY <3>2 DEF Has
    <3> QED
      BY <3>1, <3>3
  <2>5. \A f \in Frames : In(f, full) => ~In(f, empty) /\ f # filling /\ \A d \in Clients : f \notin Has(d)
    BY DEF BuffersInv
  <2> QED
    BY <1>1, <2>1, <2>4, <2>5 DEF BuffersInv, In, Distinct
<1> QED
  BY <1>3, <1>4

\* A task returns its buffer.
LEMMA BuffersReturned ==
  ASSUME CallsInv, CallsInv', BuffersInv, HandleReturn
  PROVE  BuffersInv'
PROOF
<1>1. /\ Receive("return") /\ UNCHANGED <<request, full, filling>>
      /\ empty' = Append(empty, Head(queue).what.index) /\ Answer(Head(queue).from, NoFrame)
  BY DEF HandleReturn
<1>2. PICK c \in Clients : /\ c = Head(queue).from /\ request[c].type = "return" /\ reply[c] = <<>>
                           /\ request[c] = Head(queue).what
  BY <1>1, Taken
<1>3. PICK f \in Frames : f = request[c].index
  BY <1>2, RequestKinds DEF CallsInv, CameraTypes, AppTypes, Nothing
<1>4. Has(c) = {f} /\ empty' = Append(empty, f)
  BY <1>1, <1>2, <1>3, HasFacts
<1>5. ~In(f, empty) /\ ~In(f, full) /\ f # filling /\ \A d \in Clients : f \in Has(d) => c = d
  BY <1>4 DEF BuffersInv
<1>6. /\ empty' \in Seq(Frames) /\ Distinct(empty')
      /\ \A g : In(g, empty') => In(g, empty) \/ g = f
  BY <1>4, <1>5, AppendedBuffer DEF BuffersInv
<1>7. \A d \in Clients : d # c => request'[d] = request[d] /\ reply'[d] = reply[d]
  BY <1>1, <1>2 DEF Answer, CallsInv, CameraTypes, AppTypes
<1>8. request'[c] = request[c] /\ reply'[c] = <<NoFrame>>
  BY <1>1, <1>2 DEF Answer, CallsInv, CameraTypes, AppTypes
<1>9. Has(c)' = {}
  <2>1. request'[c].type = "return" /\ reply'[c] # <<>>
    BY <1>2, <1>8
  <2> QED
    BY <2>1 DEF Has
<1>10. \A d \in Clients : d # c => Has(d)' = Has(d)
  BY <1>7 DEF Has
<1>11. \A d \in Clients : f \notin Has(d)'
  BY <1>5, <1>9, <1>10
<1>12. \A d \in Clients : Has(d)' \subseteq Has(d)
  BY <1>9, <1>10
<1> QED
  <2>1. \A g \in Frames : ~(In(g, empty') /\ In(g, full'))
    BY <1>1, <1>5, <1>6 DEF BuffersInv
  <2>2. \A g \in Frames : g = filling' => ~In(g, empty') /\ ~In(g, full')
    BY <1>1, <1>5, <1>6 DEF BuffersInv
  <2>3. \A g \in Frames, d \in Clients :
          g \in Has(d)' => ~In(g, empty') /\ ~In(g, full') /\ g # filling'
    BY <1>1, <1>6, <1>11, <1>12 DEF BuffersInv
  <2>4. \A g \in Frames, d, e \in Clients : g \in Has(d)' /\ g \in Has(e)' => d = e
    BY <1>12 DEF BuffersInv
  <2> QED
    BY <1>1, <1>6, <2>1, <2>2, <2>3, <2>4 DEF BuffersInv, In, Distinct

\* The CameraTask discards a frame: its buffer goes back to the driver.
LEMMA BuffersDiscarded ==
  ASSUME BuffersInv, DiscardFrame
  PROVE  BuffersInv'
PROOF
<1>1. /\ full # <<>> /\ full' = Tail(full) /\ empty' = Append(empty, Head(full))
      /\ UNCHANGED <<request, reply, filling>>
  BY DEF DiscardFrame, appVars
<1>2. PICK f \in Frames : f = Head(full) /\ In(f, full)
  BY <1>1, TailOfBuffers DEF BuffersInv
<1>3. ~In(f, empty) /\ f # filling /\ \A c \in Clients : f \notin Has(c)
  BY <1>2 DEF BuffersInv
<1>4. /\ full' \in Seq(Frames) /\ Distinct(full') /\ \A g : In(g, full') => In(g, full) /\ g # f
  BY <1>1, <1>2, TailOfBuffers DEF BuffersInv
<1>5. /\ empty' \in Seq(Frames) /\ Distinct(empty') /\ \A g : In(g, empty') => In(g, empty) \/ g = f
  BY <1>1, <1>2, <1>3, AppendedBuffer DEF BuffersInv
<1>6. \A c \in Clients : Has(c)' = Has(c)
  BY <1>1 DEF Has
<1> QED
  BY <1>1, <1>3, <1>4, <1>5, <1>6 DEF BuffersInv, In, Distinct

\* A frame begins.
LEMMA BuffersStarted ==
  ASSUME BuffersInv, FrameStart
  PROVE  BuffersInv'
PROOF
<1>1. /\ empty # <<>> /\ empty' = Tail(empty) /\ filling' = Head(empty)
      /\ UNCHANGED <<request, reply, full>>
  BY DEF FrameStart, appVars
<1>2. PICK f \in Frames : f = Head(empty) /\ In(f, empty)
  BY <1>1, TailOfBuffers DEF BuffersInv
<1>3. ~In(f, full) /\ \A c \in Clients : f \notin Has(c)
  BY <1>2 DEF BuffersInv
<1>4. /\ empty' \in Seq(Frames) /\ Distinct(empty') /\ \A g : In(g, empty') => In(g, empty) /\ g # f
  BY <1>1, <1>2, TailOfBuffers DEF BuffersInv
<1>5. \A c \in Clients : Has(c)' = Has(c)
  BY <1>1 DEF Has
<1> QED
  BY <1>1, <1>2, <1>3, <1>4, <1>5 DEF BuffersInv, In, Distinct

\* A frame is complete.
LEMMA BuffersFilled ==
  ASSUME BuffersInv, FrameDone
  PROVE  BuffersInv'
PROOF
<1>1. /\ filling # NoFrame /\ full' = Append(full, filling) /\ filling' = NoFrame
      /\ UNCHANGED <<request, reply, empty>>
  BY DEF FrameDone, appVars
<1>2. /\ filling \in Frames /\ ~In(filling, full) /\ ~In(filling, empty)
      /\ \A c \in Clients : filling \notin Has(c)
  BY <1>1 DEF BuffersInv
<1>3. /\ full' \in Seq(Frames) /\ Distinct(full')
      /\ \A g : In(g, full') => In(g, full) \/ g = filling
  BY <1>1, <1>2, AppendedBuffer DEF BuffersInv
<1>4. \A c \in Clients : Has(c)' = Has(c)
  BY <1>1 DEF Has
<1>5. \A f \in Frames : f # NoFrame
  BY BufferAssumption DEF Frames, NoFrame
<1> QED
  BY <1>1, <1>2, <1>3, <1>4, <1>5 DEF BuffersInv, In, Distinct

LEMMA BuffersKept ==
  ASSUME CallsInv, CallsInv', BuffersInv, [Next]_vars
  PROVE  BuffersInv'
PROOF
<1> USE DEF vars, appVars, taskVars, flagVars, sensorVars, csiVars
<1>1. ASSUME NEW c \in Clients, GetFrame(c) \/ Call(c) \/ Trigger(c) \/ App(c)
      PROVE  BuffersInv'
  <2>1. UNCHANGED <<empty, full, filling>>
    BY <1>1 DEF GetFrame, Call, Trigger, App, Send, AskAgain, TakeFrame, ReturnFrame, Return
  <2> QED
    BY <1>1, <2>1, TasksMoveNoFrame, BuffersStay
<1>2. CASE HandleDisable \/ HandlePower \/ HandleDiscard \/ HandleTestPattern
           \/ HandleMotionDetectionConfig \/ HandleMotionDetectionInterrupt
           \/ MotionInterrupt \/ UNCHANGED vars
  <2>1. UNCHANGED <<request, reply, empty, full, filling>>
    BY <1>2 DEF HandleDisable, HandlePower, HandleDiscard, HandleTestPattern,
       HandleMotionDetectionConfig, HandleMotionDetectionInterrupt, MotionInterrupt, Block
  <2> QED
    BY <2>1, BuffersStay DEF Has
<1>3. CASE SetMode \/ TransferStop \/ SwReset \/ Discarded \/ PatternSet \/ Configured
  <2>1. PICK type \in Slow : Finish(type)
    BY <1>3 DEF SetMode, TransferStop, SwReset, Discarded, PatternSet, Configured, Slow, Controls
  <2>2. PICK c \in Clients : c = handling.from /\ request[c].type = type
    BY <2>1, CallsFinished DEF CallsInv
  <2>3. \A d \in Clients : Has(d)' \subseteq Has(d)
    BY <2>1, <2>2, AnswersMoveNoFrame DEF Finish, Slow, Controls
  <2>4. UNCHANGED <<empty, full>> /\ filling' \in {filling, NoFrame}
    BY <1>3 DEF SetMode, TransferStop, SwReset, Discarded, PatternSet, Configured
  <2>5. \A f \in Frames : f # NoFrame
    BY BufferAssumption DEF Frames, NoFrame
  <2> QED
    BY <2>3, <2>4, <2>5 DEF BuffersInv, In, Distinct
<1> QED
  BY <1>1, <1>2, <1>3, BuffersEnabled, BuffersFetched, BuffersReturned, BuffersDiscarded,
     BuffersStarted, BuffersFilled DEF Next, Task

-----------------------------------------------------------------------------
(* The camera.                                                             *)

LEMMA BitFacts ==
  ASSUME NEW b \in BOOLEAN
  PROVE  /\ Bit(b) \in {0, 1}
         /\ Bit(b) = 1 <=> b
         /\ Bit(TRUE) = 1 /\ Bit(FALSE) = 0
PROOF
  BY DEF Bit

\* The task that switches the camera is alone.
LEMMA AloneSwitching ==
  ASSUME CallsInv, NEW c \in Clients, request[c].type \in Controls
  PROVE  Switching /\ \A d \in Clients : d # c => request[d] = Nothing /\ request[d].type = "nothing"
PROOF
  BY DEF CallsInv, Alone, Switching, Nothing

\* While a task asks for something else, nobody switches the camera.
LEMMA OthersCall ==
  ASSUME CallsInv, NEW c \in Clients, request[c] # Nothing, request[c].type \notin Controls
  PROVE  ~Switching
PROOF
  BY AloneSwitching DEF Switching

\* SwitchInv while task c switches the camera.
LEMMA SwitchedBy ==
  ASSUME NEW c \in Clients, request'[c].type \in Controls,
         \A d \in Clients : d # c => request'[d].type = "nothing",
         ~trigger',
         request'[c].type = "enable" => EnablingBy(c)',
         request'[c].type = "disable" => DisablingBy(c)',
         request'[c].type = "power" => Off'
  PROVE  SwitchInv'
PROOF
<1>1. Switching'
  BY DEF Switching
<1>2. Settled' /\ Triggered' /\ Pictures'
  BY <1>1 DEF Settled, Triggered, Pictures, InTrigger
<1>3. Enabling' /\ Disabling' /\ Powering'
  BY DEF Enabling, Disabling, Powering
<1>4. Discarding'
  BY DEF Discarding, Controls
<1> QED
  BY <1>2, <1>3, <1>4 DEF SwitchInv

\* SwitchInv while nobody does.
LEMMA SwitchedByNobody ==
  ASSUME ~Switching', On' \/ Off', Discarding', Pictures',
         trigger' => On' /\ mode' = "trigger"
  PROVE  SwitchInv'
PROOF
<1>1. Settled' /\ Triggered'
  BY DEF Settled, Triggered
<1>2. Enabling' /\ Disabling' /\ Powering'
  BY DEF Enabling, Disabling, Powering, Switching, Controls
<1> QED
  BY <1>1, <1>2 DEF SwitchInv

\* Steps that change nothing of all this.
LEMMA SwitchStays ==
  ASSUME SwitchInv,
         UNCHANGED <<request, enabled, power, csi, mode, sensor, exposed, full, filling, trigger>>,
         \A c \in Clients : request[c].type \in Controls => reply'[c] = reply[c],
         \A c \in Clients : request[c].type = "get" => (Has(c)' = {} <=> Has(c) = {}),
         handling'.what.type = "enable" <=> handling.what.type = "enable",
         handling'.what.type = "disable" <=> handling.what.type = "disable"
  PROVE  SwitchInv'
PROOF
<1>1. (On' <=> On) /\ (Off' <=> Off) /\ (Switching' <=> Switching) /\ (NoPicture' <=> NoPicture)
  BY DEF On, Off, Switching, NoPicture
<1>2. Settled' /\ Powering' /\ Triggered' /\ Discarding'
  BY <1>1 DEF SwitchInv, Settled, Powering, Triggered, Discarding
<1>3. Enabling'
  BY <1>1 DEF SwitchInv, Enabling, EnablingBy, Controls
<1>4. Disabling'
  BY <1>1 DEF SwitchInv, Disabling, DisablingBy, Controls
<1>5. Fetched' <=> Fetched
  BY DEF Fetched
<1>6. Bit(Fetched') = Bit(Fetched)
  BY <1>5 DEF Bit
<1>7. Pictures'
  BY <1>1, <1>6 DEF SwitchInv, Pictures, InTrigger
<1> QED
  BY <1>2, <1>3, <1>4, <1>7 DEF SwitchInv

\* What a step does to the requests of one task, c.
LEMMA OneAsks ==
  ASSUME CallsInv, NEW c \in Clients, NEW r \in Requests, pc[c] = "idle", Ask(c, r)
  PROVE  /\ \A d \in Clients : d # c => request'[d] = request[d] /\ Has(d)' = Has(d)
         /\ request'[c] = r /\ request[c] = Nothing /\ reply' = reply /\ reply[c] = <<>>
PROOF
<1>1. /\ \A d \in Clients : d # c => request'[d] = request[d]
      /\ request'[c] = r /\ request[c] = Nothing /\ reply' = reply /\ reply[c] = <<>>
  BY DEF Ask, CallsInv, CameraTypes, AppTypes, Calls
<1> QED
  BY <1>1 DEF Has

\* A task asks for the camera to be switched.
LEMMA SwitchAsked ==
  ASSUME KeepToRules, CallsInv, SwitchInv, NEW c \in Clients, NEW r \in Requests, pc[c] = "idle",
         Allowed(c, r), Ask(c, r), r.type \in Controls,
         UNCHANGED <<handling, enabled, power, csi, mode, sensor, exposed, full, filling, trigger>>
  PROVE  SwitchInv'
PROOF
<1>1. /\ request'[c] = r /\ request[c] = Nothing /\ reply' = reply /\ reply[c] = <<>>
      /\ \A d \in Clients : d # c => request'[d] = request[d]
  BY OneAsks
<1>2. \A d \in Clients : request[d] = Nothing
  BY <1>1 DEF KeepToRules, Allowed, InCall, CallsInv, Calls
<1>3. On \/ Off
  <2>1. ~Switching
    BY <1>2 DEF Switching, Nothing, Controls
  <2> QED
    BY <2>1 DEF SwitchInv, Settled
<1>4. /\ r.type = "enable" => power /\ ~enabled
      /\ r.type = "power" => ~enabled
      /\ r.type = "disable" => ~trigger
  BY DEF KeepToRules, Allowed
<1>5. r.type \in {"enable", "power"} => Off /\ ~trigger
  BY <1>3, <1>4 DEF SwitchInv, Triggered, On
<1>6. handling.what.type \notin {"enable", "disable"}
  <2>1. handling.what # Nothing => handling.from \in Clients /\ request[handling.from].type = handling.what.type
    BY DEF CallsInv, Handled
  <2> QED
    BY <1>2, <2>1 DEF Nothing
<1>7. (On' <=> On) /\ (Off' <=> Off)
  BY DEF On, Off
<1>8. r.type = "enable" => EnablingBy(c)'
  BY <1>1, <1>4, <1>5, <1>6, <1>7 DEF EnablingBy
<1>9. r.type = "disable" => DisablingBy(c)'
  BY <1>1, <1>3, <1>6, <1>7 DEF DisablingBy
<1>10. r.type = "power" => Off'
  BY <1>5, <1>7
<1>11. ~trigger'
  BY <1>4, <1>5 DEF Controls
<1>12. \A d \in Clients : d # c => request'[d].type = "nothing"
  BY <1>1, <1>2 DEF Nothing
<1> QED
  BY <1>1, <1>8, <1>9, <1>10, <1>11, <1>12, SwitchedBy

\* A task asks for something else.
LEMMA OtherAsked ==
  ASSUME KeepToRules, CallsInv, SwitchInv, NEW c \in Clients, NEW r \in Requests, pc[c] = "idle",
         Allowed(c, r), Ask(c, r), r.type \notin Controls,
         UNCHANGED <<enabled, power, csi, mode, sensor, exposed, full, filling, trigger>>
  PROVE  SwitchInv'
PROOF
<1>1. /\ request'[c] = r /\ request[c] = Nothing /\ reply' = reply /\ reply[c] = <<>>
      /\ \A d \in Clients : d # c => request'[d] = request[d] /\ Has(d)' = Has(d)
  BY OneAsks
<1>2. CASE Switching
  <2>1. PICK d \in Clients : request[d].type \in Controls /\ d # c
    BY <1>1, <1>2 DEF Switching, Nothing, Controls
  <2>2. pc[d] # "idle"
    BY <2>1 DEF CallsInv, Calls, Nothing, Controls
  <2> QED
    BY <2>1, <2>2 DEF KeepToRules, Allowed, InCall
<1>3. CASE ~Switching
  <2>1. ~Switching'
    BY <1>1, <1>3 DEF Switching
  <2>2. (On' <=> On) /\ (Off' <=> Off)
    BY DEF On, Off
  <2>3. Discarding'
    BY <1>1 DEF SwitchInv, Discarding, KeepToRules, Allowed
  <2>4. Fetched' <=> Fetched
    BY <1>1 DEF Fetched, Has, Nothing
  <2>5. Bit(Fetched') = Bit(Fetched)
    BY <2>4 DEF Bit
  <2>6. InTrigger' =>
          \A d, e \in Clients : request'[d].type = "get" /\ request'[e].type = "get" => d = e
    <3>1. SUFFICES ASSUME InTrigger'
                   PROVE  \A d, e \in Clients : request'[d].type = "get" /\ request'[e].type = "get" => d = e
      OBVIOUS
    <3>2. InTrigger /\ mode = "trigger"
      BY <1>3, <2>2, <3>1 DEF InTrigger
    <3>3. CASE r.type = "get"
      <4>1. \A d \in Clients \ {c} : request[d] = Nothing
        BY <3>2, <3>3 DEF KeepToRules, Allowed, InCall, CallsInv, Calls
      <4> QED
        BY <1>1, <4>1 DEF Nothing
    <3>4. CASE r.type # "get"
      BY <1>1, <3>2, <3>4 DEF SwitchInv, Pictures
    <3> QED
      BY <3>3, <3>4
  <2>7. Pictures'
    BY <1>3, <2>2, <2>5, <2>6 DEF SwitchInv, Pictures, InTrigger
  <2>8. On' \/ Off'
    BY <1>3, <2>2 DEF SwitchInv, Settled
  <2>9. trigger' => On' /\ mode' = "trigger"
    BY <2>2 DEF SwitchInv, Triggered
  <2> QED
    BY <2>1, <2>3, <2>7, <2>8, <2>9, SwitchedByNobody
<1> QED
  BY <1>2, <1>3

\* The pin is raised: the picture is exposed.
LEMMA SwitchTriggered ==
  ASSUME KeepToRules, CallsInv, BuffersInv, SwitchInv, NEW c \in Clients, Trigger(c)
  PROVE  SwitchInv'
PROOF
<1>1. /\ enabled /\ mode = "trigger" /\ trigger' = TRUE
      /\ exposed' = (exposed \/ (~trigger /\ sensor = "trigger"))
      /\ UNCHANGED <<pc, request, reply, enabled, power, csi, mode, sensor, full, filling>>
  BY DEF Trigger, KeepToRules, appVars, flagVars, csiVars
<1>2. \A d \in Clients : request[d] = Nothing
  BY DEF Trigger, KeepToRules, InCall, CallsInv, Calls
<1>3. ~Switching
  BY <1>2 DEF Switching, Nothing, Controls
<1>4. On
  BY <1>1, <1>3 DEF SwitchInv, Settled, Off
<1>5. On' /\ ~Switching'
  BY <1>1, <1>3, <1>4 DEF On, Switching
<1>6. Len(full) + Bit(exposed) + Bit(filling # NoFrame) + Bit(Fetched) = Bit(trigger)
  BY <1>1, <1>3, <1>4 DEF SwitchInv, Pictures, InTrigger
<1>7. Len(full) \in Nat /\ exposed \in BOOLEAN /\ trigger \in BOOLEAN
  BY LenProperties DEF BuffersInv, CallsInv, CameraTypes, FlagTypes
<1>8. Fetched' <=> Fetched
  BY <1>1 DEF Fetched, Has
<1>9. Len(full') + Bit(exposed') + Bit(filling' # NoFrame) + Bit(Fetched') = 1
  <2>1. sensor = "trigger"
    BY <1>1, <1>4 DEF On
  <2>2. Bit(filling' # NoFrame) = Bit(filling # NoFrame) /\ Bit(Fetched') = Bit(Fetched)
    BY <1>1, <1>8 DEF Bit
  <2>3. CASE trigger
    BY <1>1, <1>6, <2>2, <2>3 DEF Bit
  <2>4. CASE ~trigger
    <3>1. Len(full) = 0 /\ Bit(exposed) = 0 /\ Bit(filling # NoFrame) = 0 /\ Bit(Fetched) = 0
      <4>1. /\ Bit(exposed) \in {0, 1} /\ Bit(filling # NoFrame) \in {0, 1}
            /\ Bit(Fetched) \in {0, 1} /\ Bit(trigger) = 0
        BY <2>4 DEF Bit
      <4> QED
        BY <1>6, <1>7, <4>1
    <3>2. Bit(exposed') = 1
      BY <1>1, <2>1, <2>4 DEF Bit
    <3> QED
      BY <1>1, <2>2, <3>1, <3>2
  <2> QED
    BY <2>3, <2>4
<1>10. Pictures'
  <2>1. Bit(trigger') = 1
    BY <1>1 DEF Bit
  <2>2. \A d \in Clients : request'[d].type # "get"
    BY <1>1, <1>2 DEF Nothing
  <2> QED
    BY <1>9, <2>1, <2>2 DEF Pictures
<1>11. Discarding'
  BY <1>1 DEF SwitchInv, Discarding
<1> QED
  BY <1>1, <1>5, <1>10, <1>11, SwitchedByNobody

\* The terms of Pictures, in trigger mode.
LEMMA PictureCount ==
  ASSUME CallsInv, BuffersInv, SwitchInv, InTrigger
  PROVE  /\ Len(full) \in Nat /\ (Len(full) = 0 <=> full = <<>>)
         /\ Bit(exposed) \in {0, 1} /\ Bit(filling # NoFrame) \in {0, 1}
         /\ Bit(Fetched) \in {0, 1} /\ Bit(trigger) \in {0, 1}
         /\ Len(full) + Bit(exposed) + Bit(filling # NoFrame) + Bit(Fetched) = Bit(trigger)
PROOF
<1>1. Len(full) \in Nat /\ (Len(full) = 0 <=> full = <<>>)
  BY LenProperties, EmptySeq DEF BuffersInv
<1>2. Len(full) + Bit(exposed) + Bit(filling # NoFrame) + Bit(Fetched) = Bit(trigger)
  BY DEF SwitchInv, Pictures
<1>3. /\ Bit(exposed) \in {0, 1} /\ Bit(filling # NoFrame) \in {0, 1}
      /\ Bit(Fetched) \in {0, 1} /\ Bit(trigger) \in {0, 1}
  BY DEF Bit
<1> QED
  BY <1>1, <1>2, <1>3

\* A task has its frame, and lowers the pin.
LEMMA SwitchFetched ==
  ASSUME CallsInv, BuffersInv, SwitchInv, NEW c \in Clients, TakeFrame(c)
  PROVE  SwitchInv'
PROOF
<1>1. /\ request[c].type = "get" /\ reply[c] # <<>> /\ reply[c] # <<NoFrame>>
      /\ request' = [request EXCEPT ![c] = [type |-> "return", index |-> Head(reply[c])]]
      /\ reply' = [reply EXCEPT ![c] = <<>>]
      /\ trigger' = (trigger /\ mode # "trigger")
      /\ UNCHANGED <<enabled, power, csi, mode, sensor, exposed, full, filling>>
  BY DEF TakeFrame, Got, flagVars, sensorVars, csiVars
<1>2. /\ \A d \in Clients : d # c => request'[d] = request[d] /\ reply'[d] = reply[d]
      /\ request'[c].type = "return"
  BY <1>1 DEF CallsInv, CameraTypes, AppTypes
<1>3. ~Switching
  BY <1>1, OthersCall DEF Nothing, Controls
<1>4. ~Switching'
  BY <1>2, <1>3 DEF Switching, Controls
<1>5. (On' <=> On) /\ (Off' <=> Off)
  BY <1>1 DEF On, Off
<1>6. On' \/ Off'
  BY <1>3, <1>5 DEF SwitchInv, Settled
<1>7. Discarding'
  BY <1>1, <1>2 DEF SwitchInv, Discarding
<1>8. ~trigger'
  BY <1>1 DEF SwitchInv, Triggered
<1>9. Pictures'
  <2>1. SUFFICES ASSUME InTrigger'
                 PROVE  Pictures'
    BY DEF Pictures
  <2>2. InTrigger
    BY <1>1, <1>3, <1>5, <2>1 DEF InTrigger
  <2>3. PICK x \in Frames : reply[c] = <<x>>
    BY <1>1 DEF CallsInv, CameraTypes, AppTypes
  <2>4. Fetched
    <3>1. Has(c) = {x} /\ x # NoFrame
      BY <1>1, <2>3, HasFacts, BufferAssumption DEF Frames, NoFrame
    <3> QED
      BY <1>1, <3>1 DEF Fetched
  <2>5. Bit(Fetched) = 1
    BY <2>4 DEF Bit
  <2>6. Len(full) = 0 /\ Bit(exposed) = 0 /\ Bit(filling # NoFrame) = 0
    BY <2>2, <2>5, PictureCount
  <2>7. \A d \in Clients : request'[d].type # "get"
    BY <1>1, <1>2, <2>2 DEF SwitchInv, Pictures
  <2>8. ~Fetched'
    BY <2>7 DEF Fetched
  <2>9. Bit(Fetched') = 0 /\ Bit(trigger') = 0
    BY <1>8, <2>8 DEF Bit
  <2>10. Len(full') = 0 /\ Bit(exposed') = 0 /\ Bit(filling' # NoFrame) = 0
    BY <1>1, <2>6
  <2> QED
    BY <2>7, <2>9, <2>10 DEF Pictures
<1> QED
  BY <1>4, <1>6, <1>7, <1>8, <1>9, SwitchedByNobody

\* A call returns.  Enable sets the flag.
LEMMA SwitchReturned ==
  ASSUME CallsInv, SwitchInv, BuffersInv, NEW c \in Clients, Return(c)
  PROVE  SwitchInv'
PROOF
<1>1. /\ pc[c] = "wait" /\ request[c].type # "get" /\ reply[c] # <<>>
      /\ enabled' = (enabled \/ request[c].type = "enable")
      /\ UNCHANGED <<handling, power, csi, mode, sensor, exposed, full, filling, trigger>>
  BY DEF Return, sensorVars, csiVars, taskVars
<1>2. /\ \A d \in Clients : d # c => request'[d] = request[d] /\ reply'[d] = reply[d]
      /\ request'[c] = Nothing /\ request[c] # Nothing
  BY DEF Return, CallsInv, CameraTypes, AppTypes, Calls
<1>3. Nothing.type = "nothing"
  BY DEF Nothing
<1>4. ~Switching'
  <2>1. request[c].type \in Controls => \A d \in Clients : d # c => request[d].type = "nothing"
    BY AloneSwitching
  <2>2. request[c].type \notin Controls => ~Switching
    BY <1>2, OthersCall
  <2> QED
    BY <1>2, <1>3, <2>1, <2>2 DEF Switching, Controls
<1>5. Discarding'
  BY <1>1, <1>2, <1>3 DEF SwitchInv, Discarding
<1>6. CASE request[c].type = "enable"
  <2>1. EnablingBy(c) /\ ~trigger
    BY <1>6, AloneSwitching DEF SwitchInv, Enabling, Triggered, Controls
  <2>2. On' /\ (mode = "trigger" => NoPicture)
    BY <1>1, <1>6, <2>1 DEF EnablingBy, On
  <2>3. \A d \in Clients : request'[d].type # "get"
    BY <1>2, <1>3, <1>6, AloneSwitching DEF Controls
  <2>4. Pictures'
    <3>1. SUFFICES ASSUME mode = "trigger"
                   PROVE  Pictures'
      BY <1>1 DEF Pictures, InTrigger
    <3>2. full' = <<>> /\ ~exposed' /\ filling' = NoFrame /\ ~trigger' /\ ~Fetched'
      BY <1>1, <2>1, <2>2, <2>3, <3>1 DEF NoPicture, Fetched
    <3>3. /\ Len(full') = 0 /\ Bit(exposed') = 0 /\ Bit(filling' # NoFrame) = 0
          /\ Bit(Fetched') = 0 /\ Bit(trigger') = 0
      BY <3>2 DEF Bit
    <3> QED
      BY <2>3, <3>3 DEF Pictures
  <2> QED
    BY <1>1, <1>4, <1>5, <2>1, <2>2, <2>4, SwitchedByNobody
<1>7. CASE request[c].type \in {"disable", "power"}
  <2>1. Off /\ ~trigger
    BY <1>1, <1>7, AloneSwitching
    DEF SwitchInv, Disabling, DisablingBy, Powering, Triggered, Controls
  <2>2. Off' /\ ~trigger' /\ ~On'
    BY <1>1, <1>7, <2>1 DEF Off, On
  <2>3. Pictures'
    BY <2>2 DEF Pictures, InTrigger
  <2> QED
    BY <1>4, <1>5, <2>2, <2>3, SwitchedByNobody
<1>8. CASE request[c].type \notin Controls
  <2>1. ~Switching /\ enabled' = enabled
    BY <1>1, <1>2, <1>8, OthersCall DEF CallsInv, CameraTypes, FlagTypes, Controls
  <2>2. (On' <=> On) /\ (Off' <=> Off)
    BY <1>1, <2>1 DEF On, Off
  <2>3. Fetched' <=> Fetched
    BY <1>1, <1>2, <1>3 DEF Fetched, Has
  <2>4. Bit(Fetched') = Bit(Fetched)
    BY <2>3 DEF Bit
  <2>5. Pictures'
    BY <1>1, <1>2, <1>3, <2>1, <2>2, <2>4 DEF SwitchInv, Pictures, InTrigger
  <2> QED
    BY <1>1, <1>4, <1>5, <2>1, <2>2, <2>5, SwitchedByNobody DEF SwitchInv, Settled, Triggered
<1> QED
  BY <1>6, <1>7, <1>8 DEF Controls

\* The CameraTask begins to switch the camera.
LEMMA SwitchBegun ==
  ASSUME CallsInv, SwitchInv, HandleEnable \/ HandleDisable \/ HandlePower
  PROVE  SwitchInv'
PROOF
<1>1. PICK type \in Controls :
        /\ Receive(type) /\ handling' = Head(queue)
        /\ UNCHANGED <<request, reply, mode, trigger>>
        /\ type = "enable" => HandleEnable
        /\ type = "disable" => HandleDisable
        /\ type = "power" => HandlePower
  BY DEF HandleEnable, HandleDisable, HandlePower, Block, Controls, flagVars, sensorVars
<1>2. PICK c \in Clients : /\ c = Head(queue).from /\ request[c] = Head(queue).what
                           /\ request[c].type = type /\ reply[c] = <<>>
  BY <1>1, Taken DEF Controls
<1>3. handling'.what.type = type /\ handling.what.type = "nothing"
  BY <1>1, <1>2 DEF Receive, TaskIdle, Nothing
<1>4. Switching /\ \A d \in Clients : d # c => request'[d].type = "nothing"
  BY <1>1, <1>2, AloneSwitching
<1>5. ~trigger'
  BY <1>1, <1>4 DEF SwitchInv, Triggered
<1>6. CASE type = "enable"
  <2>1. /\ csi' = TRUE /\ full' = <<>> /\ filling' = NoFrame
        /\ UNCHANGED <<enabled, power, sensor, exposed>>
    BY <1>1, <1>6 DEF HandleEnable, flagVars
  <2>2. EnablingBy(c)
    BY <1>2, <1>6 DEF SwitchInv, Enabling
  <2>3. EnablingBy(c)'
    BY <1>1, <1>2, <2>1, <2>2 DEF EnablingBy, Off
  <2> QED
    BY <1>1, <1>2, <1>4, <1>5, <1>6, <2>3, SwitchedBy
<1>7. CASE type = "disable"
  <2>1. ~enabled'
    BY <1>1, <1>7 DEF HandleDisable
  <2>2. DisablingBy(c)'
    BY <1>1, <1>2, <1>3, <1>7, <2>1 DEF DisablingBy
  <2> QED
    BY <1>1, <1>2, <1>4, <1>5, <1>7, <2>2, SwitchedBy
<1>8. CASE type = "power"
  <2>1. /\ enabled' = enabled
        /\ \/ UNCHANGED <<sensor, exposed>>
           \/ sensor' = "standby" /\ exposed' = FALSE
    BY <1>1, <1>8 DEF HandlePower, flagVars
  <2>2. Off
    BY <1>2, <1>8 DEF SwitchInv, Powering
  <2>3. Off'
    BY <2>1, <2>2 DEF Off
  <2> QED
    BY <1>1, <1>2, <1>4, <1>5, <1>8, <2>3, SwitchedBy
<1> QED
  BY <1>6, <1>7, <1>8 DEF Controls

\* The CameraTask has switched the camera.
LEMMA SwitchDone ==
  ASSUME CallsInv, SwitchInv, SetMode \/ TransferStop \/ SwReset
  PROVE  SwitchInv'
PROOF
<1>1. PICK type \in Controls :
        /\ handling.what.type = type /\ UNCHANGED <<request, enabled, power, trigger>>
        /\ reply' = [reply EXCEPT ![handling.from] = <<NoFrame>>]
        /\ type = "enable" => SetMode
        /\ type = "disable" => TransferStop
        /\ type = "power" => SwReset
  BY DEF SetMode, TransferStop, SwReset, Finish, Answer, Controls, flagVars
<1>2. PICK c \in Clients : /\ c = handling.from /\ request[c].type = type /\ reply[c] = <<>>
                           /\ type = "enable" => request[c] = handling.what
  BY <1>1 DEF CallsInv, Handled, Nothing, Controls
<1>3. reply'[c] # <<>>
  <2>1. reply'[c] = <<NoFrame>>
    BY <1>1, <1>2 DEF CallsInv, CameraTypes, AppTypes
  <2> QED
    BY <2>1
<1>4. Switching /\ \A d \in Clients : d # c => request'[d].type = "nothing"
  BY <1>1, <1>2, AloneSwitching
<1>5. ~trigger'
  BY <1>1, <1>4 DEF SwitchInv, Triggered
<1>6. CASE type = "enable"
  <2>1. /\ ~enabled /\ power /\ Off /\ csi /\ full = <<>> /\ filling = NoFrame
    BY <1>1, <1>2, <1>6 DEF SwitchInv, Enabling, EnablingBy
  <2>2. request[c].mode \in Modes
    BY <1>2, <1>6, RequestKinds DEF CallsInv, CameraTypes, AppTypes, Nothing
  <2>3. /\ mode' = request[c].mode /\ sensor' = mode'
        /\ UNCHANGED <<exposed, csi, full, filling>>
    BY <1>1, <1>2, <1>6, <2>1 DEF SetMode, csiVars
  <2>4. EnablingBy(c)'
    BY <1>1, <1>3, <2>1, <2>2, <2>3 DEF EnablingBy, Off, NoPicture
  <2> QED
    BY <1>1, <1>2, <1>4, <1>5, <1>6, <2>4, SwitchedBy
<1>7. CASE type = "disable"
  <2>1. sensor' = "standby" /\ exposed' = FALSE
    BY <1>1, <1>7 DEF TransferStop
  <2>2. ~enabled
    BY <1>1, <1>2, <1>7 DEF SwitchInv, Disabling, DisablingBy
  <2>3. DisablingBy(c)'
    BY <1>1, <1>3, <2>1, <2>2 DEF DisablingBy, Off
  <2> QED
    BY <1>1, <1>2, <1>4, <1>5, <1>7, <2>3, SwitchedBy
<1>8. CASE type = "power"
  <2>1. sensor' = "standby" /\ exposed' = FALSE
    BY <1>1, <1>8 DEF SwReset
  <2>2. Off
    BY <1>2, <1>8 DEF SwitchInv, Powering
  <2>3. Off'
    BY <1>1, <2>1, <2>2 DEF Off
  <2> QED
    BY <1>1, <1>2, <1>4, <1>5, <1>8, <2>3, SwitchedBy
<1> QED
  BY <1>6, <1>7, <1>8 DEF Controls

\* A frame, or none, is answered to GetFrame.
LEMMA SwitchAnswered ==
  ASSUME CallsInv, BuffersInv, SwitchInv, HandleGet
  PROVE  SwitchInv'
PROOF
<1>1. /\ Receive("get")
      /\ UNCHANGED <<handling, request, enabled, power, csi, mode, sensor, exposed, filling, trigger>>
      /\ \/ full = <<>> /\ full' = full /\ Answer(Head(queue).from, NoFrame)
         \/ full # <<>> /\ full' = Tail(full) /\ Answer(Head(queue).from, Head(full))
  BY DEF HandleGet, flagVars, sensorVars
<1>2. PICK c \in Clients : c = Head(queue).from /\ request[c].type = "get" /\ reply[c] = <<>>
  BY <1>1, Taken
<1>3. ~Switching
  BY <1>2, OthersCall DEF Nothing, Controls
<1>4. \A d \in Clients : d # c => reply'[d] = reply[d] /\ Has(d)' = Has(d)
  <2>1. \A d \in Clients : d # c => reply'[d] = reply[d]
    BY <1>1, <1>2 DEF Answer, CallsInv, CameraTypes, AppTypes
  <2> QED
    BY <1>1, <2>1 DEF Has
<1>5. Has(c) = {}
  BY <1>2, HasFacts
<1>6. CASE full = <<>>
  <2>1. reply'[c] = <<NoFrame>>
    BY <1>1, <1>2, <1>6 DEF Answer, CallsInv, CameraTypes, AppTypes
  <2>2. Has(c)' = {}
    BY <1>1, <1>2, <2>1 DEF Has
  <2>3. \A d \in Clients : Has(d)' = {} <=> Has(d) = {}
    BY <1>4, <1>5, <2>2
  <2>4. \A d \in Clients : request[d].type \notin Controls
    BY <1>3 DEF Switching
  <2> QED
    BY <1>1, <1>6, <2>3, <2>4, SwitchStays
<1>7. CASE full # <<>>
  <2>1. /\ full' = Tail(full) /\ Len(full') = Len(full) - 1 /\ Head(full) \in Frames
    BY <1>1, <1>7, TailOfBuffers DEF BuffersInv
  <2>2. reply'[c] = <<Head(full)>>
    BY <1>1, <1>2, <1>7 DEF Answer, CallsInv, CameraTypes, AppTypes
  <2>3. Has(c)' # {}
    <3>1. Head(full) # NoFrame
      BY <2>1, BufferAssumption DEF Frames, NoFrame
    <3>2. request'[c].type = "get" /\ reply'[c] # <<>> /\ Head(reply'[c]) = Head(full)
      BY <1>1, <1>2, <2>2
    <3> QED
      BY <3>1, <3>2 DEF Has
  <2>4. ~Switching' /\ (On' <=> On) /\ (Off' <=> Off)
    BY <1>1, <1>3 DEF Switching, On, Off
  <2>5. Discarding'
    BY <1>1 DEF SwitchInv, Discarding
  <2>6. Pictures'
    <3>1. SUFFICES ASSUME InTrigger'
                   PROVE  Pictures'
      BY DEF Pictures
    <3>2. InTrigger
      BY <1>1, <1>3, <2>4, <3>1 DEF InTrigger
    <3>3. Len(full) # 0
      BY <1>7, <3>2, PictureCount
    <3>4. Bit(Fetched') = 1
      <4>1. Fetched'
        BY <1>1, <1>2, <2>3 DEF Fetched
      <4> QED
        BY <4>1 DEF Bit
    <3>5. PICK n \in Nat : n = Len(full) /\ n >= 1
      BY <3>2, <3>3, PictureCount
    <3>6. /\ Bit(exposed) \in {0, 1} /\ Bit(filling # NoFrame) \in {0, 1}
          /\ Bit(Fetched) \in {0, 1} /\ Bit(trigger) \in {0, 1}
          /\ n + Bit(exposed) + Bit(filling # NoFrame) + Bit(Fetched) = Bit(trigger)
      BY <3>2, <3>5, PictureCount
    <3>7. n = 1 /\ Bit(exposed) = 0 /\ Bit(filling # NoFrame) = 0 /\ Bit(trigger) = 1
      BY <3>5, <3>6
    <3>8. Len(full') + Bit(exposed') + Bit(filling' # NoFrame) + Bit(Fetched') = Bit(trigger')
      <4>1. Bit(exposed') = 0 /\ Bit(filling' # NoFrame) = 0 /\ Bit(trigger') = 1
        BY <1>1, <3>7
      <4>2. Len(full') = 0
        BY <2>1, <3>5, <3>7
      <4> QED
        BY <3>4, <4>1, <4>2
    <3>9. \A d, e \in Clients : request'[d].type = "get" /\ request'[e].type = "get" => d = e
      BY <1>1, <3>2 DEF SwitchInv, Pictures
    <3> QED
      BY <3>8, <3>9 DEF Pictures
  <2> QED
    BY <1>1, <1>3, <2>4, <2>5, <2>6, SwitchedByNobody DEF SwitchInv, Settled, Triggered
<1> QED
  BY <1>6, <1>7

\* A frame is discarded, in streaming mode only.
LEMMA SwitchDiscarded ==
  ASSUME CallsInv, SwitchInv, DiscardFrame
  PROVE  SwitchInv'
PROOF
<1>1. /\ handling.what.type = "discard"
      /\ UNCHANGED <<request, reply, enabled, power, csi, mode, sensor, exposed, filling, trigger>>
  BY DEF DiscardFrame, appVars, flagVars, sensorVars
<1>2. PICK c \in Clients : request[c].type = "discard"
  BY <1>1 DEF CallsInv, Handled, Nothing
<1>3. ~Switching /\ mode = "streaming"
  BY <1>2, OthersCall DEF SwitchInv, Discarding, Nothing, Controls
<1>4. ~Switching' /\ (On' <=> On) /\ (Off' <=> Off)
  BY <1>1, <1>3 DEF Switching, On, Off
<1>5. Discarding' /\ Pictures'
  BY <1>1, <1>3 DEF SwitchInv, Discarding, Pictures, InTrigger
<1> QED
  BY <1>1, <1>3, <1>4, <1>5, SwitchedByNobody DEF SwitchInv, Settled, Triggered

\* A frame begins or is complete.
LEMMA SwitchFilled ==
  ASSUME CallsInv, BuffersInv, SwitchInv, FrameStart \/ FrameDone
  PROVE  SwitchInv'
PROOF
<1>1. /\ UNCHANGED <<request, reply, handling, enabled, power, csi, mode, sensor, trigger>>
      /\ sensor # "standby"
      /\ exposed \in BOOLEAN
      /\ exposed' = exposed \/ exposed' = FALSE
  BY DEF FrameStart, FrameDone, appVars, taskVars, flagVars, sensorVars,
     CallsInv, CameraTypes, FlagTypes
<1>2. (On' <=> On) /\ ~Off /\ (Switching' <=> Switching)
  BY <1>1 DEF On, Off, Switching
<1>3. CASE Switching
  <2>1. PICK c \in Clients : request[c].type \in Controls
    BY <1>3 DEF Switching
  <2>2. \A d \in Clients : d # c => request'[d].type = "nothing"
    BY <1>1, <2>1, AloneSwitching
  <2>3. ~trigger'
    BY <1>1, <1>3 DEF SwitchInv, Triggered
  <2>4. request[c].type # "power"
    BY <1>2 DEF SwitchInv, Powering
  <2>5. ASSUME request[c].type = "enable"
        PROVE  EnablingBy(c)'
    <3>1. EnablingBy(c) /\ reply[c] # <<>>
      BY <1>2, <2>5 DEF SwitchInv, Enabling, EnablingBy
    <3>2. mode = "trigger" => sensor = "trigger" /\ filling = NoFrame /\ ~exposed
      BY <3>1 DEF EnablingBy, NoPicture
    <3>3. mode # "trigger"
      BY <3>2 DEF FrameStart, FrameDone
    <3> QED
      BY <1>1, <3>1, <3>3 DEF EnablingBy
  <2>6. ASSUME request[c].type = "disable"
        PROVE  DisablingBy(c)'
    BY <1>1, <1>2, <2>6 DEF SwitchInv, Disabling, DisablingBy
  <2> QED
    BY <1>1, <2>1, <2>2, <2>3, <2>4, <2>5, <2>6, SwitchedBy
<1>4. CASE ~Switching
  <2>1. Discarding'
    BY <1>1 DEF SwitchInv, Discarding
  <2>2. Pictures'
    <3>1. SUFFICES ASSUME InTrigger'
                   PROVE  Pictures'
      BY DEF Pictures
    <3>2. InTrigger /\ sensor = "trigger"
      BY <1>1, <1>2, <1>4, <3>1 DEF InTrigger, On
    <3>3. Fetched' <=> Fetched
      BY <1>1 DEF Fetched, Has
    <3>4. Bit(Fetched') = Bit(Fetched) /\ Bit(trigger') = Bit(trigger)
      BY <1>1, <3>3 DEF Bit
    <3>5. \A f \in Frames : f # NoFrame
      BY BufferAssumption DEF Frames, NoFrame
    <3>6. CASE FrameStart
      <4>1. exposed /\ ~exposed' /\ filling = NoFrame /\ filling' # NoFrame /\ full' = full
        BY <3>2, <3>5, <3>6, TailOfBuffers DEF FrameStart, BuffersInv
      <4>2. /\ Bit(exposed) = 1 /\ Bit(exposed') = 0
            /\ Bit(filling # NoFrame) = 0 /\ Bit(filling' # NoFrame) = 1
        BY <4>1 DEF Bit
      <4>3. Len(full') + Bit(exposed') + Bit(filling' # NoFrame) + Bit(Fetched') = Bit(trigger')
        <5>1. Len(full) \in Nat /\ Bit(Fetched) \in {0, 1} /\ Len(full) + 1 + Bit(Fetched) = Bit(trigger)
          BY <3>2, <4>2, PictureCount
        <5>2. Len(full') = Len(full)
          BY <4>1
        <5> QED
          BY <3>4, <4>2, <5>1, <5>2
      <4> QED
        BY <1>1, <3>2, <4>3 DEF SwitchInv, Pictures
    <3>7. CASE FrameDone
      <4>1. /\ exposed' = exposed /\ filling # NoFrame /\ filling' = NoFrame
            /\ full' = Append(full, filling)
        BY <3>7 DEF FrameDone, sensorVars
      <4>2. Len(full') = Len(full) + 1
        BY <4>1, AppendProperties DEF BuffersInv
      <4>3. /\ Bit(exposed') = Bit(exposed)
            /\ Bit(filling # NoFrame) = 1 /\ Bit(filling' # NoFrame) = 0
        BY <4>1 DEF Bit
      <4>4. Len(full') + Bit(exposed') + Bit(filling' # NoFrame) + Bit(Fetched') = Bit(trigger')
        BY <3>2, <3>4, <4>2, <4>3, PictureCount
      <4> QED
        BY <1>1, <3>2, <4>4 DEF SwitchInv, Pictures
    <3> QED
      BY <3>6, <3>7
  <2>3. On
    BY <1>2, <1>4 DEF SwitchInv, Settled
  <2> QED
    BY <1>1, <1>2, <1>4, <2>1, <2>2, <2>3, SwitchedByNobody DEF SwitchInv, Triggered
<1> QED
  BY <1>3, <1>4

\* Steps of one task or of the CameraTask for it that leave the camera alone.
LEMMA SwitchStaysFor ==
  ASSUME CallsInv, CallsInv', SwitchInv, NEW c \in Clients,
         UNCHANGED <<request, enabled, power, csi, mode, sensor, exposed, full, filling, trigger>>,
         request[c].type \notin Controls,
         request[c].type = "get" => (Has(c)' = {} <=> Has(c) = {}),
         \A d \in Clients : d # c => reply'[d] = reply[d],
         handling'.what.type = "enable" <=> handling.what.type = "enable",
         handling'.what.type = "disable" <=> handling.what.type = "disable"
  PROVE  SwitchInv'
PROOF
<1>1. \A d \in Clients : request[d].type \in Controls => reply'[d] = reply[d]
  OBVIOUS
<1>2. \A d \in Clients : d # c => Has(d)' = Has(d)
  BY DEF Has
<1>3. \A d \in Clients : request[d].type = "get" => (Has(d)' = {} <=> Has(d) = {})
  BY <1>2
<1> QED
  BY <1>1, <1>3, SwitchStays

LEMMA SwitchKept ==
  ASSUME KeepToRules, CallsInv, CallsInv', BuffersInv, SwitchInv, [Next]_vars
  PROVE  SwitchInv'
PROOF
<1> USE DEF vars, appVars, taskVars, flagVars, sensorVars, csiVars
<1>1. ASSUME NEW c \in Clients, GetFrame(c) \/ Call(c)
      PROVE  SwitchInv'
  <2>1. PICK r \in Requests :
          /\ pc[c] = "idle" /\ Allowed(c, r) /\ Ask(c, r)
          /\ UNCHANGED <<handling, enabled, power, csi, mode, sensor, exposed, full, filling, trigger>>
    <3>1. [type |-> "get"] \in Requests
      BY DEF Requests
    <3> QED
      BY <1>1, <3>1 DEF GetFrame, Call
  <2> QED
    BY <2>1, SwitchAsked, OtherAsked
<1>2. ASSUME NEW c \in Clients, Trigger(c) \/ TakeFrame(c) \/ Return(c)
      PROVE  SwitchInv'
  BY <1>2, SwitchTriggered, SwitchFetched, SwitchReturned
<1>3. ASSUME NEW c \in Clients, Send(c) \/ ReturnFrame(c)
      PROVE  SwitchInv'
  BY <1>3, SwitchStays DEF Send, ReturnFrame, Has
<1>4. ASSUME NEW c \in Clients, AskAgain(c)
      PROVE  SwitchInv'
  <2>1. /\ request[c].type = "get" /\ reply[c] # <<>> /\ reply[c] = <<NoFrame>>
        /\ reply' = [reply EXCEPT ![c] = <<>>]
        /\ UNCHANGED <<handling, request, enabled, power, csi, mode, sensor, exposed, full,
                       filling, trigger>>
    BY <1>4 DEF AskAgain, Got
  <2>2. reply'[c] = <<>> /\ \A d \in Clients : d # c => reply'[d] = reply[d]
    BY <2>1 DEF CallsInv, CameraTypes, AppTypes
  <2>3. Has(c) = {}
    BY <2>1, HasFacts
  <2>4. Has(c)' = {}
    BY <2>1, <2>2 DEF Has
  <2> QED
    BY <2>1, <2>2, <2>3, <2>4, SwitchStaysFor DEF Controls
<1>5. CASE HandleReturn
  <2>1. PICK type \in {"return"} :
          /\ Receive(type) /\ Answer(Head(queue).from, NoFrame)
          /\ UNCHANGED <<handling, request, enabled, power, csi, mode, sensor, exposed, full,
                         filling, trigger>>
    BY <1>5 DEF HandleReturn
  <2>2. PICK c \in Clients : c = Head(queue).from /\ request[c].type = type
    BY <2>1, Taken
  <2>3. \A d \in Clients : d # c => reply'[d] = reply[d]
    BY <2>1, <2>2 DEF Answer, CallsInv, CameraTypes, AppTypes
  <2> QED
    BY <2>1, <2>2, <2>3, SwitchStaysFor DEF Controls
<1>6. CASE HandleDiscard \/ HandleTestPattern \/ HandleMotionDetectionConfig
  <2>1. PICK type \in {"discard", "pattern", "config"} :
          /\ Receive(type) /\ handling' = Head(queue)
          /\ UNCHANGED <<request, reply, enabled, power, csi, mode, sensor, exposed, full,
                         filling, trigger>>
    BY <1>6 DEF HandleDiscard, HandleTestPattern, HandleMotionDetectionConfig, Block
  <2>2. handling'.what.type = type /\ handling.what.type = "nothing"
    BY <2>1 DEF Receive, TaskIdle, Nothing
  <2> QED
    BY <2>1, <2>2, SwitchStays DEF Has
<1>7. CASE Discarded \/ PatternSet \/ Configured
  <2>1. PICK type \in {"discard", "pattern", "config"} :
          /\ handling.what.type = type /\ Finish(type)
          /\ UNCHANGED <<request, enabled, power, csi, mode, sensor, exposed, full, filling, trigger>>
    BY <1>7 DEF Discarded, PatternSet, Configured, Finish
  <2>2. /\ handling.from \in Clients /\ request[handling.from].type = type
        /\ \A d \in Clients : d # handling.from => reply'[d] = reply[d]
        /\ handling'.what.type = "nothing"
    <3>1. type \in Slow /\ Nothing.type = "nothing"
      BY DEF Slow, Nothing
    <3> QED
      BY <2>1, <3>1, CallsFinished DEF CallsInv
  <2> QED
    BY <2>1, <2>2, SwitchStaysFor DEF Controls
<1>8. CASE HandleMotionDetectionInterrupt \/ MotionInterrupt \/ UNCHANGED vars
  <2>1. UNCHANGED <<handling, request, reply, enabled, power, csi, mode, sensor, exposed, full,
                    filling, trigger>>
    BY <1>8 DEF HandleMotionDetectionInterrupt, MotionInterrupt
  <2> QED
    BY <2>1, SwitchStays DEF Has
<1> QED
  BY <1>1, <1>2, <1>3, <1>4, <1>5, <1>6, <1>7, <1>8, SwitchBegun, SwitchDone, SwitchAnswered,
     SwitchDiscarded, SwitchFilled DEF Next, App, Task

-----------------------------------------------------------------------------
(* What follows for the properties of Camera.                              *)

LEMMA DistinctCount ==
  ASSUME NEW s \in Seq(Frames), Distinct(s)
  PROVE  Cardinality({s[i] : i \in 1..Len(s)}) = Len(s)
PROOF
<1> DEFINE S == {s[i] : i \in 1..Len(s)}
<1>1. Len(s) \in Nat /\ DOMAIN s = 1..Len(s) /\ s \in [1..Len(s) -> S]
  BY LenProperties
<1>2. s \in Bijection(1..Len(s), S)
  BY <1>1 DEF Bijection, Injection, Surjection, IsInjective, Distinct
<1>3. ExistsBijection(1..Len(s), S)
  BY <1>2 DEF ExistsBijection
<1> QED
  BY <1>1, <1>3, FS_CountingElements

LEMMA DistinctConcat ==
  ASSUME NEW s \in Seq(Frames), NEW t \in Seq(Frames), Distinct(s), Distinct(t),
         \A f \in Frames : ~(In(f, s) /\ In(f, t))
  PROVE  /\ s \o t \in Seq(Frames) /\ Distinct(s \o t)
         /\ \A f : In(f, s \o t) => In(f, s) \/ In(f, t)
PROOF
<1>1. /\ s \o t \in Seq(Frames) /\ Len(s \o t) = Len(s) + Len(t)
      /\ \A i \in 1..(Len(s) + Len(t)) :
           (s \o t)[i] = IF i <= Len(s) THEN s[i] ELSE t[i - Len(s)]
  BY ConcatProperties
<1>2. /\ Len(s) \in Nat /\ DOMAIN s = 1..Len(s) /\ Len(t) \in Nat /\ DOMAIN t = 1..Len(t)
      /\ DOMAIN (s \o t) = 1..(Len(s) + Len(t))
  BY <1>1, LenProperties
<1>3. \A i \in DOMAIN (s \o t) :
        \/ i \in DOMAIN s /\ (s \o t)[i] = s[i]
        \/ i - Len(s) \in DOMAIN t /\ (s \o t)[i] = t[i - Len(s)]
  BY <1>1, <1>2
<1>4. \A f : In(f, s \o t) => In(f, s) \/ In(f, t)
  BY <1>3 DEF In
<1>5. \A i \in DOMAIN s : s[i] \in Frames
  BY <1>2, ElementOfSeq
<1>6. ASSUME NEW i \in DOMAIN (s \o t), NEW j \in DOMAIN (s \o t), (s \o t)[i] = (s \o t)[j]
      PROVE  i = j
  <2>0. i \in Nat /\ j \in Nat /\ Len(s) \in Nat
    BY <1>2
  <2>1. CASE i \in DOMAIN s /\ (s \o t)[i] = s[i] /\ j \in DOMAIN s /\ (s \o t)[j] = s[j]
    BY <1>6, <2>1 DEF Distinct
  <2>2. CASE /\ i - Len(s) \in DOMAIN t /\ (s \o t)[i] = t[i - Len(s)]
             /\ j - Len(s) \in DOMAIN t /\ (s \o t)[j] = t[j - Len(s)]
    <3>1. i - Len(s) = j - Len(s)
      BY <1>6, <2>2 DEF Distinct
    <3> QED
      BY <2>0, <3>1
  <2>3. CASE /\ i \in DOMAIN s /\ (s \o t)[i] = s[i]
             /\ j - Len(s) \in DOMAIN t /\ (s \o t)[j] = t[j - Len(s)]
    BY <1>5, <1>6, <2>3 DEF In
  <2>4. CASE /\ j \in DOMAIN s /\ (s \o t)[j] = s[j]
             /\ i - Len(s) \in DOMAIN t /\ (s \o t)[i] = t[i - Len(s)]
    BY <1>5, <1>6, <2>4 DEF In
  <2> QED
    BY <1>3, <2>1, <2>2, <2>3, <2>4
<1> QED
  BY <1>1, <1>4, <1>6 DEF Distinct

LEMMA OwnersFollow ==
  ASSUME CallsInv, BuffersInv
  PROVE  OneOwner
PROOF
<1> DEFINE last  == IF filling = NoFrame THEN <<>> ELSE <<filling>>
           InCsi == empty \o full \o last
<1>1. /\ empty \o full \in Seq(Frames) /\ Distinct(empty \o full)
      /\ \A f : In(f, empty \o full) => In(f, empty) \/ In(f, full)
  BY DistinctConcat DEF BuffersInv
<1>2. /\ last \in Seq(Frames) /\ Distinct(last)
      /\ \A f : In(f, last) => f = filling
  <2>1. CASE filling = NoFrame
    BY <2>1 DEF In, Distinct
  <2>2. CASE filling # NoFrame
    <3>1. last = <<filling>> /\ filling \in Frames
      BY <2>2 DEF BuffersInv
    <3>2. last \in Seq(Frames) /\ DOMAIN last = {1} /\ last[1] = filling
      BY <3>1
    <3> QED
      BY <3>2 DEF In, Distinct
  <2> QED
    BY <2>1, <2>2
<1>3. \A f \in Frames : ~(In(f, empty \o full) /\ In(f, last))
  BY <1>1, <1>2 DEF BuffersInv
<1>4. /\ InCsi \in Seq(Frames) /\ Distinct(InCsi)
      /\ \A f : In(f, InCsi) => In(f, empty) \/ In(f, full) \/ f = filling
  BY <1>1, <1>2, <1>3, DistinctConcat
<1> DEFINE Owned == {InCsi[i] : i \in 1..Len(InCsi)}
<1>5. Cardinality(Owned) = Len(InCsi)
  BY <1>4, DistinctCount
<1>6. \A f \in Owned : In(f, InCsi)
  BY <1>4, LenProperties DEF In
<1>7. \A c \in Clients : Has(c) \cap Owned = {}
  <2>1. \A c \in Clients : Has(c) \subseteq Frames
    BY HasFacts
  <2> QED
    BY <1>4, <1>6, <2>1 DEF BuffersInv
<1>8. \A c, d \in Clients : c # d => Has(c) \cap Has(d) = {}
  <2>1. \A c \in Clients : Has(c) \subseteq Frames
    BY HasFacts
  <2> QED
    BY <2>1 DEF BuffersInv
<1> QED
  BY <1>5, <1>7, <1>8 DEF OneOwner

LEMMA CameraFollows ==
  ASSUME SwitchInv
  PROVE  EnabledIsCapturing /\ TriggerMeansPicture
PROOF
<1>1. EnabledIsCapturing
  BY DEF SwitchInv, Settled, Switching, On, Off, EnabledIsCapturing
<1>2. TriggerMeansPicture
  <2>1. SUFFICES ASSUME \A c \in Clients : request[c].type \notin Controls, enabled, mode = "trigger"
                 PROVE  Len(full) + Bit(exposed) + Bit(filling # NoFrame) + Bit(Fetched) = Bit(trigger)
    BY DEF TriggerMeansPicture, Fetched
  <2>2. InTrigger
    BY <2>1 DEF SwitchInv, Settled, Switching, On, Off, InTrigger
  <2> QED
    BY <2>2 DEF SwitchInv, Pictures
<1> QED
  BY <1>1, <1>2

-----------------------------------------------------------------------------
(* The theorems.                                                           *)

CameraInv == CallsInv /\ BuffersInv /\ SwitchInv

LEMMA CameraInit ==
  ASSUME Init
  PROVE  CameraInv
PROOF
<1> USE DEF Init
<1>1. AppTypes /\ TaskTypes /\ FlagTypes
  <2>1. AppTypes
    BY DEF AppTypes
  <2>2. TaskTypes
    BY DEF TaskTypes
  <2>3. FlagTypes
    BY DEF FlagTypes
  <2> QED
    BY <2>1, <2>2, <2>3
<1>2. CallsInv
  BY <1>1 DEF CallsInv, CameraTypes, Queued, Handled, Calls, Alone, Nothing, Controls
<1>3. BuffersInv
  <2>1. \A c \in Clients : Has(c) = {}
    BY DEF Has, Nothing
  <2>2. \A f \in Frames : f # NoFrame
    BY BufferAssumption DEF Frames, NoFrame
  <2> QED
    BY <2>1, <2>2 DEF BuffersInv, Distinct, In
<1>4. SwitchInv
  <2>1. Off /\ ~On /\ ~trigger
    BY DEF Off, On
  <2>2. \A c \in Clients : request[c].type = "nothing"
    BY DEF Nothing
  <2> QED
    BY <2>1, <2>2 DEF SwitchInv, Settled, Enabling, Disabling, Powering, Discarding, Triggered,
       Pictures, InTrigger
<1> QED
  BY <1>2, <1>3, <1>4 DEF CameraInv

LEMMA CameraStep ==
  ASSUME KeepToRules, CameraInv, [Next]_vars
  PROVE  CameraInv'
PROOF
<1>1. CallsInv'
  BY CallsKept DEF CameraInv, BuffersInv
<1> QED
  BY <1>1, BuffersKept, SwitchKept DEF CameraInv

LEMMA CameraAlways ==
  ASSUME KeepToRules
  PROVE  Spec => []CameraInv
PROOF
<1>1. Init => CameraInv
  BY CameraInit
<1>2. CameraInv /\ [Next]_vars => CameraInv'
  BY CameraStep
<1> QED
  BY <1>1, <1>2, PTL DEF Spec

\* A frame buffer is at one place: with the CSI driver, full, or with one task.
\* For tasks that keep to the rules (HandleFrameRequest, GetFrame).
THEOREM OwnerIsOne ==
  ASSUME KeepToRules
  PROVE  Spec => []OneOwner
PROOF
<1>1. CameraInv => OneOwner
  BY OwnersFollow DEF CameraInv
<1> QED
  BY <1>1, CameraAlways, PTL

\* enabled_ tells the truth whenever no task is switching the camera (Enable,
\* Disable, HandleEnableRequest and HandleDisableRequest).
THEOREM FlagIsTrue ==
  ASSUME KeepToRules
  PROVE  Spec => []EnabledIsCapturing
PROOF
<1>1. CameraInv => EnabledIsCapturing
  BY CameraFollows DEF CameraInv
<1> QED
  BY <1>1, CameraAlways, PTL

\* In trigger mode the pin is high exactly as long as there is a picture to
\* fetch (Trigger, GetFrame).
THEOREM PinIsPicture ==
  ASSUME KeepToRules
  PROVE  Spec => []TriggerMeansPicture
PROOF
<1>1. CameraInv => TriggerMeansPicture
  BY CameraFollows DEF CameraInv
<1> QED
  BY <1>1, CameraAlways, PTL

-----------------------------------------------------------------------------
(* The motion interrupt.                                                   *)

\* The tasks keep to the rules, also to that about motion detection, and the
\* queue has more slots than there are tasks.
RoomForAll == /\ "motion" \in Rules
              /\ IsFiniteSet(Clients) /\ Cardinality(Clients) < QueueLength

IsMotion(m) == m.what.type = "motion"

\* The requests whose handler clears the interrupt, besides the motion request.
Configures == {"pattern", "config"}
Clears == {"enable", "power"} \cup Configures

\* At most one motion request is queued: the interrupt is not cleared before it
\* is handled, since it is ahead of every request that would clear it.
MotionInv ==
  /\ ~halted
  /\ \A c \in Clients : /\ request[c].type # "motion"
                        /\ request[c].type \in Configures => sensor # "streaming"
  /\ \A i \in DOMAIN queue : IsMotion(queue[i]) =>
       /\ irq
       /\ \A j \in DOMAIN queue : /\ IsMotion(queue[j]) => j = i
                                  /\ queue[j].what.type \in Clears => i < j
  /\ handling.what.type \in Clears => \A i \in DOMAIN queue : ~IsMotion(queue[i])

\* The sensor does not stream while such a request waits for its answer.
LEMMA NotStreaming ==
  ASSUME SwitchInv, MotionInv, NEW c \in Clients, request[c].type \in Clears, reply[c] = <<>>
  PROVE  sensor # "streaming"
PROOF
<1>1. CASE request[c].type = "enable"
  BY <1>1 DEF SwitchInv, Enabling, EnablingBy, Off
<1>2. CASE request[c].type = "power"
  BY <1>2 DEF SwitchInv, Powering, Off
<1>3. CASE request[c].type \in Configures
  BY <1>3 DEF MotionInv
<1> QED
  BY <1>1, <1>2, <1>3 DEF Clears

\* Steps after which the queue is the same and the interrupt is as it was, or is
\* cleared while no motion request is queued.
LEMMA MotionStays ==
  ASSUME MotionInv, UNCHANGED <<queue, request, halted>>,
         sensor' = sensor \/ sensor' # "streaming",
         irq' = irq \/ handling.what.type \in Clears,
         handling'.what.type \in {handling.what.type, "nothing"}
  PROVE  MotionInv'
PROOF
<1>1. "nothing" \notin Clears
  BY DEF Clears, Configures
<1>2. \A i \in DOMAIN queue : IsMotion(queue[i]) => irq'
  BY DEF MotionInv
<1> QED
  BY <1>1, <1>2 DEF MotionInv

\* A request leaves the queue.
LEMMA MotionReceived ==
  ASSUME CallsInv, MotionInv, NEW type, Receive(type), UNCHANGED <<request, halted>>,
         sensor' = sensor \/ sensor' # "streaming",
         irq' = irq \/ type \in Clears \cup {"motion"},
         handling' = handling \/ handling' = Head(queue)
  PROVE  MotionInv'
PROOF
<1>1. /\ queue' = Tail(queue) /\ queue \in Seq(Message) /\ queue # <<>> /\ handling.what = Nothing
      /\ Head(queue).what.type = type
  BY DEF Receive, TaskIdle, CallsInv, CameraTypes, TaskTypes
<1>2. 1 \in DOMAIN queue /\ queue[1].what.type = type
  BY <1>1, TailOfQueue
<1>3. \A i \in DOMAIN queue' : i + 1 \in DOMAIN queue /\ i + 1 # 1 /\ i \in Nat /\ queue'[i] = queue[i + 1]
  BY <1>1, TailOfQueue
<1>4. ASSUME NEW i \in DOMAIN queue', IsMotion(queue'[i])
      PROVE  /\ irq' /\ type \notin Clears
             /\ \A j \in DOMAIN queue' : /\ IsMotion(queue'[j]) => j = i
                                         /\ queue'[j].what.type \in Clears => i < j
  <2>1. PICK k \in DOMAIN queue : k = i + 1 /\ k # 1 /\ i \in Nat /\ IsMotion(queue[k])
    BY <1>3, <1>4
  <2>2. /\ irq
        /\ \A j \in DOMAIN queue : /\ IsMotion(queue[j]) => j = k
                                   /\ queue[j].what.type \in Clears => k < j
    BY <2>1 DEF MotionInv
  <2>3. type # "motion"
    BY <1>2, <2>1, <2>2 DEF IsMotion
  <2>4. type \notin Clears
    BY <1>2, <2>1, <2>2
  <2>5. \A j \in DOMAIN queue' : /\ IsMotion(queue'[j]) => j + 1 = i + 1
                                 /\ queue'[j].what.type \in Clears => i + 1 < j + 1
    BY <1>3, <2>1, <2>2
  <2>6. \A j \in DOMAIN queue' : /\ IsMotion(queue'[j]) => j = i
                                 /\ queue'[j].what.type \in Clears => i < j
    BY <1>3, <2>1, <2>5
  <2> QED
    BY <2>2, <2>3, <2>4, <2>6
<1>5. handling'.what.type \in Clears => \A i \in DOMAIN queue' : ~IsMotion(queue'[i])
  <2>1. "nothing" \notin Clears
    BY DEF Clears, Configures
  <2>2. handling'.what.type \in {type, "nothing"}
    BY <1>1 DEF Nothing
  <2> QED
    BY <1>4, <2>1, <2>2
<1>6. \A c \in Clients : /\ request'[c].type # "motion"
                         /\ request'[c].type \in Configures => sensor' # "streaming"
  BY DEF MotionInv
<1> QED
  BY <1>4, <1>5, <1>6 DEF MotionInv

\* A task's request goes to the end of the queue.
LEMMA MotionSent ==
  ASSUME CallsInv, MotionInv, NEW c \in Clients, Send(c)
  PROVE  MotionInv'
PROOF
<1>1. /\ queue' = Append(queue, [from |-> c, what |-> request[c]])
      /\ UNCHANGED <<request, handling, irq, sensor, halted>> /\ pc[c] = "send"
  BY DEF Send, sensorVars
<1>2. request[c] \in Requests
  BY <1>1 DEF CallsInv, CameraTypes, AppTypes, Calls
<1>3. PICK m \in Message : m = [from |-> c, what |-> request[c]]
  BY <1>2 DEF Message
<1>4. queue \in Seq(Message) /\ Len(queue) \in Nat /\ DOMAIN queue = 1..Len(queue)
  BY LenProperties DEF CallsInv, CameraTypes, TaskTypes
<1>5. \A i \in DOMAIN queue' :
        \/ i \in DOMAIN queue /\ queue'[i] = queue[i]
        \/ i = Len(queue) + 1 /\ queue'[i] = m
  BY <1>1, <1>3, <1>4, AppendedMessage
<1>6. ~IsMotion(m)
  BY <1>3 DEF MotionInv, IsMotion
<1>7. \A i \in DOMAIN queue : i < Len(queue) + 1
  BY <1>4
<1>8. \A i \in DOMAIN queue' : IsMotion(queue'[i]) =>
        /\ irq
        /\ \A j \in DOMAIN queue' : /\ IsMotion(queue'[j]) => j = i
                                    /\ queue'[j].what.type \in Clears => i < j
  BY <1>5, <1>6, <1>7 DEF MotionInv
<1>9. handling.what.type \in Clears => \A i \in DOMAIN queue' : ~IsMotion(queue'[i])
  BY <1>5, <1>6 DEF MotionInv
<1> QED
  BY <1>1, <1>8, <1>9 DEF MotionInv

\* What the tasks ask for is not a motion request, and they configure a camera that does
\* not stream.
LEMMA MotionAsked ==
  ASSUME KeepToRules, RoomForAll, CallsInv, SwitchInv, MotionInv, NEW c \in Clients,
         GetFrame(c) \/ Call(c) \/ Trigger(c) \/ AskAgain(c) \/ TakeFrame(c) \/ Return(c) \/ ReturnFrame(c)
  PROVE  MotionInv'
PROOF
<1>1. UNCHANGED <<queue, handling, irq, sensor, halted>>
  BY DEF GetFrame, Call, Trigger, AskAgain, TakeFrame, Return, ReturnFrame, taskVars, sensorVars
<1>2. request \in [Clients -> Requests \cup {Nothing}]
  BY DEF CallsInv, CameraTypes, AppTypes
<1>3. \A d \in Clients :
        \/ request'[d] = request[d]
        \/ /\ request'[d].type # "motion"
           /\ request'[d].type \in Configures => sensor # "streaming"
  <2>1. CASE GetFrame(c)
    BY <1>2, <2>1 DEF GetFrame, Ask, Configures
  <2>2. CASE Call(c)
    <3>1. PICK r \in Requests : /\ r.type # "motion" /\ request' = [request EXCEPT ![c] = r]
                                /\ Allowed(c, r) /\ pc[c] = "idle"
      BY <2>2 DEF Call, Ask, Controls
    <3>2. ASSUME r.type \in Configures
          PROVE  sensor # "streaming"
      <4>1. \A d \in Clients : request[d].type \notin Controls
        <5>1. \A d \in Clients \ {c} : pc[d] # "idle" => request[d].type \notin Controls
          BY <3>1 DEF Allowed, KeepToRules, InCall
        <5>2. Nothing.type \notin Controls
          BY DEF Nothing, Controls
        <5> QED
          BY <3>1, <5>1, <5>2 DEF CallsInv, Calls
      <4>2. On \/ Off
        BY <4>1 DEF SwitchInv, Settled, Switching
      <4>3. ~(enabled /\ mode = "streaming")
        BY <3>1, <3>2 DEF Allowed, RoomForAll, Configures
      <4> QED
        BY <4>2, <4>3 DEF On, Off
    <3> QED
      BY <1>2, <3>1, <3>2
  <2>3. CASE TakeFrame(c)
    BY <1>2, <2>3 DEF TakeFrame, Configures
  <2>4. CASE Return(c)
    BY <1>2, <2>4 DEF Return, Nothing, Configures
  <2>5. CASE Trigger(c) \/ AskAgain(c) \/ ReturnFrame(c)
    BY <2>5 DEF Trigger, AskAgain, ReturnFrame, appVars
  <2> QED
    BY <2>1, <2>2, <2>3, <2>4, <2>5
<1>4. \A d \in Clients : /\ request'[d].type # "motion"
                         /\ request'[d].type \in Configures => sensor' # "streaming"
  BY <1>1, <1>3 DEF MotionInv
<1> QED
  BY <1>1, <1>4 DEF MotionInv

\* The camera streams when its mode is set, and no task has asked to configure it.
LEMMA MotionStreams ==
  ASSUME CallsInv, MotionInv, SetMode
  PROVE  MotionInv'
PROOF
<1>1. /\ handling.what.type = "enable" /\ handling'.what.type = "nothing"
      /\ UNCHANGED <<queue, request, irq, halted>>
  BY DEF SetMode, Finish, Nothing
<1>2. handling.from \in Clients /\ request[handling.from].type = "enable"
  BY <1>1 DEF CallsInv, Handled, Nothing
<1>3. \A c \in Clients : request[c].type \notin Configures
  <2>1. \A c \in Clients : c # handling.from => request[c] = Nothing
    BY <1>2 DEF CallsInv, Alone, Controls
  <2> QED
    BY <1>2, <2>1 DEF Nothing, Configures
<1>4. "nothing" \notin Clears
  BY DEF Clears, Configures
<1> QED
  BY <1>1, <1>3, <1>4 DEF MotionInv

\* When the interrupt comes, each task has at most one request in the queue and no motion
\* request is left: there is room.
LEMMA MotionSeen ==
  ASSUME RoomForAll, CallsInv, SwitchInv, MotionInv, MotionInterrupt
  PROVE  MotionInv'
PROOF
<1>1. /\ sensor = "streaming" /\ ~irq /\ irq' = TRUE /\ UNCHANGED <<request, handling, sensor>>
  BY DEF MotionInterrupt, appVars
<1>2. queue \in Seq(Message) /\ Len(queue) \in Nat /\ DOMAIN queue = 1..Len(queue)
  BY LenProperties DEF CallsInv, CameraTypes, TaskTypes
<1>3. \A i \in DOMAIN queue : ~IsMotion(queue[i])
  BY <1>1 DEF MotionInv
<1>4. Len(queue) < QueueLength
  <2>1. \A i \in DOMAIN queue : queue[i].from \in Clients
    BY <1>3 DEF CallsInv, Queued, Waits, FromClient, IsMotion
  <2>2. \A i, j \in DOMAIN queue : queue[i].from = queue[j].from => i = j
    BY <1>3 DEF CallsInv, Queued, FromClient, IsMotion
  <2> DEFINE sender == [i \in 1..Len(queue) |-> queue[i].from]
  <2>3. sender \in Injection(1..Len(queue), Clients)
    <3>1. sender \in [1..Len(queue) -> Clients]
      BY <1>2, <2>1
    <3>2. \A i, j \in 1..Len(queue) : sender[i] = sender[j] => i = j
      BY <1>2, <2>2
    <3> QED
      BY <3>1, <3>2 DEF Injection, IsInjective
  <2>4. IsFiniteSet(Clients) /\ Cardinality(Clients) < QueueLength
    BY DEF RoomForAll
  <2>5. Cardinality(1..Len(queue)) <= Cardinality(Clients)
    BY <2>3, <2>4, FS_Injection
  <2>6. Cardinality(1..Len(queue)) = Len(queue)
    BY <1>2, FS_Interval
  <2>7. Cardinality(Clients) \in Nat
    BY <2>4, FS_CardinalityType
  <2> QED
    BY <1>2, <2>4, <2>5, <2>6, <2>7, QueueAssumption
<1>5. PICK m \in Message : m = [from |-> NoOne, what |-> Motion]
  BY DEF Message, Motion, Requests
<1>6. queue' = Append(queue, m) /\ halted' = halted
  BY <1>4, <1>5 DEF MotionInterrupt
<1>7. \A i \in DOMAIN queue' :
        \/ i \in DOMAIN queue /\ queue'[i] = queue[i]
        \/ i = Len(queue) + 1 /\ queue'[i] = m
  BY <1>2, <1>6, AppendedMessage
<1>8. m.what.type \notin Clears
  BY <1>5 DEF Motion, Clears, Configures
<1>9. \A i \in DOMAIN queue : queue[i].what.type \notin Clears
  <2>1. SUFFICES ASSUME NEW i \in DOMAIN queue, queue[i].what.type \in Clears PROVE FALSE
    OBVIOUS
  <2>2. PICK c \in Clients : request[c] = queue[i].what /\ reply[c] = <<>>
    BY <1>3, <2>1 DEF CallsInv, Queued, Waits, FromClient, IsMotion
  <2> QED
    BY <1>1, <2>1, <2>2, NotStreaming
<1>10. handling.what.type \notin Clears
  <2>1. SUFFICES ASSUME handling.what.type \in Clears PROVE FALSE
    OBVIOUS
  <2>2. handling.what # Nothing
    BY <2>1 DEF Nothing, Clears, Configures
  <2>3. /\ handling.from \in Clients /\ reply[handling.from] = <<>>
        /\ request[handling.from].type = handling.what.type
    BY <2>2 DEF CallsInv, Handled
  <2> QED
    BY <1>1, <2>1, <2>3, NotStreaming
<1>11. \A i \in DOMAIN queue' : IsMotion(queue'[i]) => i = Len(queue) + 1
  BY <1>3, <1>7
<1>12. \A i \in DOMAIN queue' : queue'[i].what.type \notin Clears
  BY <1>7, <1>8, <1>9
<1> QED
  BY <1>1, <1>6, <1>10, <1>11, <1>12 DEF MotionInv

LEMMA MotionKept ==
  ASSUME KeepToRules, RoomForAll, CallsInv, SwitchInv, MotionInv, [Next]_vars
  PROVE  MotionInv'
PROOF
<1>1. CASE \/ HandleEnable \/ HandleDisable \/ HandlePower \/ HandleDiscard
           \/ HandleTestPattern \/ HandleMotionDetectionConfig
  <2>1. PICK type : /\ Receive(type) /\ handling' = Head(queue) /\ UNCHANGED <<request, halted>>
                    /\ sensor' = sensor \/ sensor' # "streaming"
                    /\ irq' = irq \/ type \in Clears
    BY <1>1 DEF HandleEnable, HandleDisable, HandlePower, HandleDiscard, HandleTestPattern,
       HandleMotionDetectionConfig, Block, Clears, Configures, sensorVars
  <2> QED
    BY <2>1, MotionReceived
<1>2. CASE HandleGet \/ HandleReturn \/ HandleMotionDetectionInterrupt
  <2>1. PICK type : /\ Receive(type) /\ UNCHANGED <<request, handling, sensor, halted>>
                    /\ irq' = irq \/ type = "motion"
    BY <1>2 DEF HandleGet, HandleReturn, HandleMotionDetectionInterrupt, appVars, sensorVars
  <2> QED
    BY <2>1, MotionReceived
<1>3. CASE TransferStop \/ SwReset \/ Discarded \/ PatternSet \/ Configured
  <2>1. /\ UNCHANGED <<queue, request, halted>> /\ handling'.what.type = "nothing"
        /\ sensor' = sensor \/ sensor' # "streaming"
        /\ irq' = irq \/ handling.what.type \in {"power", "pattern", "config"}
    BY <1>3 DEF TransferStop, SwReset, Discarded, PatternSet, Configured, Finish, Nothing, sensorVars
  <2> QED
    BY <2>1, MotionStays DEF Clears, Configures
<1>4. CASE DiscardFrame
  <2>1. UNCHANGED <<queue, request, irq, sensor, halted>> /\ handling.what.type = "discard"
    BY <1>4 DEF DiscardFrame, appVars, sensorVars
  <2>2. handling'.what.type = "discard"
    BY <1>4 DEF DiscardFrame, CallsInv, CameraTypes, TaskTypes, Requests, Nothing
  <2> QED
    BY <2>1, <2>2, MotionStays
<1>5. CASE FrameStart \/ FrameDone \/ UNCHANGED vars
  <2>1. UNCHANGED <<queue, request, irq, sensor, halted, handling>>
    BY <1>5 DEF FrameStart, FrameDone, vars, appVars, taskVars, sensorVars
  <2> QED
    BY <2>1, MotionStays
<1> QED
  BY <1>1, <1>2, <1>3, <1>4, <1>5, MotionStreams, MotionSeen, MotionSent, MotionAsked
     DEF Next, Task, App

\* The motion interrupt always finds room in the request queue, so that the CHECK of
\* SendRequestAsync never stops the board: for any number of tasks that keep to the rules
\* and a queue with more slots than tasks, whenever the interrupt comes.
THEOREM InterruptHasRoom ==
  ASSUME KeepToRules, RoomForAll
  PROVE  Spec => []InterruptFits
PROOF
<1>1. Init => MotionInv
  BY DEF Init, MotionInv, Nothing, Clears, Configures
<1>2. CameraInv /\ MotionInv /\ [Next]_vars => MotionInv'
  BY MotionKept DEF CameraInv
<1>3. MotionInv => InterruptFits
  BY DEF MotionInv, InterruptFits
<1> QED
  BY <1>1, <1>2, <1>3, CameraAlways, PTL DEF Spec
=============================================================================
