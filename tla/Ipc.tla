-------------------------------- MODULE Ipc --------------------------------
(***************************************************************************)
(* Messages between the M7 and the M4 core.                                *)
(*                                                                         *)
(* On each core tasks call Ipc::SendMessage, which hands a pointer to the  *)
(* message on the caller's stack to the core's tx task and waits on one    *)
(* binary semaphore.  The tx task copies the message to a message buffer   *)
(* in shared memory and raises an event on the other core, whose rx task   *)
(* handles the messages.  The M7 starts the M4; until the M4 reports back  *)
(* the tx and rx tasks of the M7 are suspended, and the first thing the M7 *)
(* sends is the address of the buffer that the M4 is to send through.      *)
(*                                                                         *)
(* Sources: libs/base/ipc.{h,cc}, ipc_m7.{h,cc}, ipc_m4.{h,cc},            *)
(* libs/FreeRTOS/multicore.c, the boot code in main_freertos_m4.cc and the *)
(* console hand-over in console_m7.cc and console_m4.cc.  The message      *)
(* buffers and MCMGR are external.  An IPC task has the highest priority   *)
(* and equal priorities are not time-sliced, so that the tx task runs from *)
(* taking a notification until it blocks.                                  *)
(***************************************************************************)
EXTENDS Naturals, Sequences

CONSTANTS Apps,        \* application tasks that send messages
          AppCore,     \* AppCore[a]: the core a runs on
          NULL,        \* no notification pending
          MaxSends,    \* bound: messages an application task sends
          Capacity,    \* messages that fit into a message buffer (7)
          Replies,     \* cores whose message handler answers with a message
          Serialized   \* the tasks of a core call SendMessage one at a time

Cores    == {"M7", "M4"}
Other(c) == IF c = "M7" THEN "M4" ELSE "M7"

\* Tasks that send: applications, the M7's M4ConsoleTaskFn ("console"), and the
\* rx task of each core (named like the core), whose handler may answer.
Tasks   == Apps \cup {"console"} \cup Cores
Core(t) == IF t \in Apps THEN AppCore[t] ELSE IF t = "console" THEN "M7" ELSE t

ASSUME IpcAssumption ==
  /\ Apps \cap (Cores \cup {"console", "address", "garbage", NULL}) = {}
  /\ NULL \notin Cores \cup {"console"}
  /\ AppCore \in [Apps -> Cores]
  /\ MaxSends \in Nat /\ Capacity \in Nat \ {0}
  /\ Replies \subseteq Cores
  /\ Serialized \in BOOLEAN

VARIABLES
  call,      \* call[t]: where task t is in SendMessage
  count,     \* count[t]: messages task t has sent or is sending
  note,      \* note[c]: task whose message pointer is c's pending notification
  sem,       \* sem[c]: tx_semaphore_
  tx, rx,    \* tx[c], rx[c]: state of the tx and the rx task of core c
  sending,   \* sending[c]: task whose message found the buffer full
  buffer,    \* buffer[c]: message buffer that core c sends through
  handling,  \* handling[c]: messages received and not yet handled (at most one)
  event,     \* event[c]: inter-core events raised for core c
  m4,        \* boot stage of the M4
  console,   \* console_buffer of the M4 is set
  listening, \* cores whose application has registered a message handler
  dropped,   \* application messages that found no handler
  halted     \* cores on which a CHECK failed

boot == <<m4, console, listening, dropped>>
vars == <<call, count, note, sem, tx, rx, sending, buffer, handling, event, boot, halted>>

ADDRESS == <<"address", 0>>   \* the M7's first message: &rx_queue_
GARBAGE == <<"garbage", 0>>   \* read through a pointer to a dead stack frame

Events  == {"alive", "ipc", "console"}
Message == (Tasks \X Nat) \cup {ADDRESS, GARBAGE}

TypeOK ==
  /\ call \in [Tasks -> {"idle", "notify", "take"}]
  /\ count \in [Tasks -> Nat]
  /\ note \in [Cores -> Tasks \cup {NULL}]
  /\ sem \in [Cores -> {0, 1}]
  /\ tx \in [Cores -> {"suspended", "start", "wait", "blocked"}]
  /\ rx \in [Cores -> {"suspended", "ready", "blocked", "reply"}]
  /\ sending \in [Cores -> Tasks \cup {NULL}]
  /\ buffer \in [Cores -> Seq(Message)]
  /\ handling \in [Cores -> Seq(Message)]
  /\ event \in [Cores -> SUBSET Events]
  /\ m4 \in {"off", "boot", "wait", "app"}
  /\ console \in BOOLEAN
  /\ listening \subseteq Cores
  /\ dropped \subseteq Message
  /\ halted \subseteq Cores

Init ==
  /\ call  = [t \in Tasks |-> "idle"]
  /\ count = [t \in Tasks |-> 0]
  /\ note  = [c \in Cores |-> NULL]
  /\ sem   = [c \in Cores |-> 0]
  /\ tx = [c \in Cores |-> "suspended"] /\ rx = [c \in Cores |-> "suspended"]
  /\ sending  = [c \in Cores |-> NULL]
  /\ buffer   = [c \in Cores |-> <<>>]
  /\ handling = [c \in Cores |-> <<>>]
  /\ event    = [c \in Cores |-> {}]
  /\ m4 = "off" /\ console = FALSE /\ listening = {"M7"} /\ dropped = {}
  /\ halted = {}

Up(c) == c \notin halted

----------------------------------------------------------------------------
(* Boot                                                                     *)

\* IpcM7::StartM4, called by an application on the M7.
StartM4 ==
  /\ Up("M7") /\ m4 = "off"
  /\ m4' = "boot"
  /\ UNCHANGED <<call, count, note, sem, tx, rx, sending, buffer, handling, event,
                 console, listening, dropped, halted>>

\* IpcM4::Init: both tasks are created suspended, rx is resumed, the M7 is told with
\* MCMGR_TriggerEvent, which replaces nothing.
InitM4 ==
  /\ m4 = "boot"
  /\ m4' = "wait"
  /\ rx' = [rx EXCEPT !["M4"] = "ready"]
  /\ event' = [event EXCEPT !["M7"] = @ \cup {"alive"}]
  /\ UNCHANGED <<call, count, note, sem, tx, sending, buffer, handling,
                 console, listening, dropped, halted>>

\* ConsoleM4Init has seen the console buffer: app_main registers its handler.
AppMainM4 ==
  /\ Up("M4") /\ m4 = "wait" /\ console
  /\ m4' = "app"
  /\ listening' = listening \cup {"M4"}
  /\ UNCHANGED <<call, count, note, sem, tx, rx, sending, buffer, handling, event,
                 console, dropped, halted>>

----------------------------------------------------------------------------
(* Ipc::SendMessage                                                         *)

Busy(c) == \E t \in Tasks : Core(t) = c /\ call[t] # "idle"

\* The M7 tells the M4 its console buffer, once; an application sends what it
\* likes, on the M4 from app_main on.
SendMessage(t) ==
  /\ Up(Core(t)) /\ call[t] = "idle"
  /\ Serialized => ~Busy(Core(t))
  /\ count[t] < IF t = "console" THEN 1 ELSE MaxSends
  /\ Core(t) = "M4" => m4 = "app"
  /\ call'  = [call EXCEPT ![t] = "notify"]
  /\ count' = [count EXCEPT ![t] = @ + 1]
  /\ UNCHANGED <<note, sem, tx, rx, sending, buffer, handling, event, boot, halted>>

\* xTaskNotifyIndexed with eSetValueWithoutOverwrite: the caller spins until no
\* other notification is pending.
Notify(t) ==
  /\ Up(Core(t)) /\ call[t] = "notify" /\ note[Core(t)] = NULL
  /\ note' = [note EXCEPT ![Core(t)] = t]
  /\ call' = [call EXCEPT ![t] = "take"]
  /\ UNCHANGED <<count, sem, tx, rx, sending, buffer, handling, event, boot, halted>>

\* Mutant: SendMessage returns without waiting for the semaphore.
TakeWithoutWaiting(t) ==
  /\ Up(Core(t)) /\ call[t] = "take"
  /\ call' = [call EXCEPT ![t] = "idle"]
  /\ rx' = IF t \in Cores THEN [rx EXCEPT ![t] = "ready"] ELSE rx
  /\ UNCHANGED <<count, note, sem, tx, sending, buffer, handling, event, boot, halted>>

\* Any waiting caller may take the semaphore, whoever's message it stands for.
Take(t) ==
  /\ Up(Core(t)) /\ call[t] = "take" /\ sem[Core(t)] = 1
  /\ sem'  = [sem EXCEPT ![Core(t)] = 0]
  /\ call' = [call EXCEPT ![t] = "idle"]
  /\ rx' = IF t \in Cores THEN [rx EXCEPT ![t] = "ready"] ELSE rx
  /\ UNCHANGED <<count, note, tx, sending, buffer, handling, event, boot, halted>>

----------------------------------------------------------------------------
(* Ipc::TxTaskFn                                                            *)

\* What the tx task finds at the address SendMessage was given.
Deref(t) == IF call[t] = "take" THEN <<t, count[t]>> ELSE GARBAGE

\* MCMGR_TriggerEventForce: an event the core has not taken yet is replaced.
Raise(c, e) == event' = [event EXCEPT ![c] = {e}]

Room(c) == Len(buffer[c]) < Capacity

\* IpcM7::TxTaskFn first sends the address of the M7's receive buffer.
TxAddress ==
  /\ Up("M7") /\ tx["M7"] = "start"
  /\ tx' = [tx EXCEPT !["M7"] = "wait"]
  /\ buffer' = [buffer EXCEPT !["M7"] = Append(@, ADDRESS)]
  /\ Raise("M4", "ipc")
  /\ UNCHANGED <<call, count, note, sem, rx, sending, handling, boot, halted>>

\* Mutant: the semaphore is not given.
TransmitWithoutGive(c, t) ==
  /\ buffer' = [buffer EXCEPT ![c] = Append(@, Deref(t))]
  /\ Raise(Other(c), "ipc")
  /\ UNCHANGED <<sem, halted>>

\* xMessageBufferSend, then CHECK(xSemaphoreGive(tx_semaphore_) == pdTRUE).
Transmit(c, t) ==
  /\ buffer' = [buffer EXCEPT ![c] = Append(@, Deref(t))]
  /\ Raise(Other(c), "ipc")
  /\ sem' = [sem EXCEPT ![c] = 1]
  /\ halted' = IF sem[c] = 1 THEN halted \cup {c} ELSE halted

\* A full buffer blocks the tx task, for good: it is the receiver's kernel that
\* would wake it, and FreeRTOSConfig.h redefines sbSEND_COMPLETED for the other
\* core but not sbRECEIVE_COMPLETED.
TxSend(c) ==
  /\ Up(c) /\ tx[c] = "wait" /\ note[c] # NULL
  /\ note' = [note EXCEPT ![c] = NULL]
  /\ \/ /\ Room(c)
        /\ Transmit(c, note[c])
        /\ UNCHANGED <<tx, sending>>
     \/ /\ ~Room(c)
        /\ tx' = [tx EXCEPT ![c] = "blocked"]
        /\ sending' = [sending EXCEPT ![c] = note[c]]
        /\ UNCHANGED <<buffer, event, sem, halted>>
  /\ UNCHANGED <<call, count, rx, handling, boot>>

----------------------------------------------------------------------------
(* Inter-core events                                                        *)

\* Mutant: a message event wakes nobody.
IsrIgnored(c, e) ==
  /\ e \in event[c]
  /\ event' = [event EXCEPT ![c] = @ \ {e}]
  /\ tx' = IF e = "alive" THEN [tx EXCEPT ![c] = "start"] ELSE tx
  /\ rx' = IF e = "alive" THEN [rx EXCEPT ![c] = "ready"] ELSE rx
  /\ UNCHANGED <<call, count, note, sem, sending, buffer, handling, boot, halted>>

\* IpcM7::RemoteAppEventHandler resumes both tasks of the M7;
\* Ipc::FreeRtosMessageEventHandler wakes the task that waits on the buffer.
Isr(c, e) ==
  /\ e \in event[c]
  /\ event' = [event EXCEPT ![c] = @ \ {e}]
  /\ \/ /\ e = "alive"
        /\ tx' = [tx EXCEPT ![c] = "start"]
        /\ rx' = [rx EXCEPT ![c] = "ready"]
     \/ /\ e = "ipc"
        /\ rx' = IF rx[c] = "blocked" THEN [rx EXCEPT ![c] = "ready"] ELSE rx
        /\ UNCHANGED tx
     \/ /\ e = "console"
        /\ UNCHANGED <<tx, rx>>
  /\ UNCHANGED <<call, count, note, sem, sending, buffer, handling, boot, halted>>

\* _write on the M4 sends its output through a stream buffer of its own, which
\* raises the same kind of event on the M7.
PrintM4 ==
  /\ Up("M4") /\ console /\ "console" \notin event["M7"]
  /\ Raise("M7", "console")
  /\ UNCHANGED <<call, count, note, sem, tx, rx, sending, buffer, handling, boot, halted>>

----------------------------------------------------------------------------
(* Ipc::RxTaskFn                                                            *)

\* Mutant: the task goes to sleep without looking into the buffer again.
RxBlockUnchecked(c) ==
  /\ Up(c) /\ rx[c] = "ready" /\ handling[c] = <<>>
  /\ rx' = [rx EXCEPT ![c] = "blocked"]
  /\ UNCHANGED <<call, count, note, sem, tx, sending, buffer, handling, event, boot, halted>>

RxBlock(c) ==
  /\ Up(c) /\ rx[c] = "ready" /\ buffer[Other(c)] = <<>> /\ handling[c] = <<>>
  /\ rx' = [rx EXCEPT ![c] = "blocked"]
  /\ UNCHANGED <<call, count, note, sem, tx, sending, buffer, handling, event, boot, halted>>

\* IpcM4::RxTaskFn: the first receive has room for an address only.  It yields
\* the M4's send buffer and starts the tx task, or the rx task gives up.
RxAddress ==
  /\ Up("M4") /\ rx["M4"] = "ready" /\ tx["M4"] = "suspended" /\ buffer["M7"] # <<>>
  /\ IF Head(buffer["M7"]) = ADDRESS
       THEN /\ buffer' = [buffer EXCEPT !["M7"] = Tail(@)]
            /\ tx' = [tx EXCEPT !["M4"] = "wait"]
            /\ UNCHANGED rx
       ELSE /\ rx' = [rx EXCEPT !["M4"] = "suspended"]
            /\ UNCHANGED <<buffer, tx>>
  /\ UNCHANGED <<call, count, note, sem, sending, handling, event, boot, halted>>

\* Mutant: a received message stays in the buffer.
RxReceiveCopy(c) ==
  /\ Up(c) /\ rx[c] = "ready"
  /\ c = "M4" => tx[c] # "suspended"
  /\ buffer[Other(c)] # <<>> /\ handling[c] = <<>>
  /\ handling' = [handling EXCEPT ![c] = <<Head(buffer[Other(c)])>>]
  /\ UNCHANGED <<call, count, note, sem, tx, rx, sending, buffer, event, boot, halted>>

RxReceive(c) ==
  /\ Up(c) /\ rx[c] = "ready"
  /\ c = "M4" => tx[c] # "suspended"
  /\ buffer[Other(c)] # <<>> /\ handling[c] = <<>>
  /\ handling' = [handling EXCEPT ![c] = <<Head(buffer[Other(c)])>>]
  /\ buffer' = [buffer EXCEPT ![Other(c)] = Tail(@)]
  /\ UNCHANGED <<call, count, note, sem, tx, rx, sending, event, boot, halted>>

\* HandleSystemMessage sets the console buffer; HandleAppMessage calls the
\* registered handler, which may answer by SendMessage; without one the message
\* is lost.
RxHandle(c) ==
  /\ Up(c) /\ rx[c] = "ready" /\ handling[c] # <<>>
  /\ handling' = [handling EXCEPT ![c] = <<>>]
  /\ LET m == handling[c][1]
     IN  \/ /\ m[1] = "console"
            /\ console' = TRUE
            /\ UNCHANGED <<call, count, rx, dropped>>
         \/ /\ m[1] # "console" /\ c \in listening /\ c \in Replies /\ m[1] \in Apps
            /\ Serialized => ~Busy(c)
            /\ rx'    = [rx EXCEPT ![c] = "reply"]
            /\ call'  = [call EXCEPT ![c] = "notify"]
            /\ count' = [count EXCEPT ![c] = @ + 1]
            /\ UNCHANGED <<console, dropped>>
         \/ /\ m[1] # "console" /\ c \in listening /\ ~(c \in Replies /\ m[1] \in Apps)
            /\ UNCHANGED <<call, count, rx, console, dropped>>
         \/ /\ m[1] # "console" /\ c \notin listening
            /\ dropped' = dropped \cup {m}
            /\ UNCHANGED <<call, count, rx, console>>
  /\ UNCHANGED <<note, sem, tx, sending, buffer, event, m4, listening, halted>>

----------------------------------------------------------------------------
Send(t) == Notify(t) \/ Take(t)
Tx(c)   == TxSend(c) \/ (c = "M7" /\ TxAddress)
Rx(c)   == RxBlock(c) \/ RxReceive(c) \/ RxHandle(c) \/ (c = "M4" /\ RxAddress)

Next ==
  \/ StartM4 \/ InitM4 \/ AppMainM4 \/ PrintM4
  \/ \E t \in Apps \cup {"console"} : SendMessage(t)
  \/ \E t \in Tasks : Send(t)
  \/ \E c \in Cores : Tx(c) \/ Rx(c)
  \/ \E c \in Cores, e \in Events : Isr(c, e)

(***************************************************************************)
(* The tasks of a core are scheduled, a semaphore goes to its waiters in   *)
(* turn (hence strong fairness for a caller), interrupts are served, and   *)
(* the M4 boots once it is started.  Nobody has to send anything.          *)
(***************************************************************************)
Fairness ==
  /\ WF_vars(InitM4) /\ WF_vars(AppMainM4) /\ WF_vars(SendMessage("console"))
  /\ \A t \in Tasks : SF_vars(Send(t))
  /\ \A c \in Cores : /\ WF_vars(Tx(c)) /\ WF_vars(Rx(c))
                     /\ \A e \in Events : WF_vars(Isr(c, e))

Spec     == Init /\ [][Next]_vars
FairSpec == Spec /\ Fairness

----------------------------------------------------------------------------
(* Properties                                                               *)

\* CHECK(xSemaphoreGive(tx_semaphore_) == pdTRUE) (ipc.cc:56) never fails: the
\* semaphore has been taken when the next message has been sent.
GiveSucceeds == halted = {}

\* The tx task follows a message pointer only while the task on whose stack the
\* message lies is still inside SendMessage.
NoDanglingMessage ==
  \A c \in Cores : \A t \in {note[c], sending[c]} \ {NULL} : call[t] = "take"

\* The rx task sleeps on a buffer with a message in it, and no event is on its way that
\* would wake it.
Overslept(c) == rx[c] = "blocked" /\ buffer[Other(c)] # <<>> /\ "ipc" \notin event[c]

\* An rx task oversleeps in one way only: output that the M4 prints raises an event on
\* the M7 in the place of one that the M7 has not taken yet (multicore.c:22-27).  The M4
\* never does, and no order of sending, receiving, interrupts and going to sleep makes
\* the M7 do so.
WakeupsKept ==
  [][\A c \in Cores : Overslept(c)' => Overslept(c) \/ (c = "M7" /\ PrintM4)]_vars

\* The stage of a call of SendMessage: the message has been taken over when the tx
\* task has no pointer to it any more.
Stage(t) ==
  CASE call[t] = "idle"   -> "idle"
    [] call[t] = "notify" -> "called"
    [] call[t] = "take"   -> IF t \in {note[Core(t)], sending[Core(t)]}
                             THEN "called" ELSE "taken"

\* What core c has sent and the other has not handled; the address is no message.
WithoutAddress(s) == IF s # <<>> /\ Head(s) = ADDRESS THEN Tail(s) ELSE s
Unhandled(c) == handling[Other(c)] \o WithoutAddress(buffer[c])

\* SendMessage takes each message over once, before it returns, and the other core
\* handles the messages of a core in that order.
Channel == INSTANCE IpcChannel WITH call <- [t \in Tasks |-> Stage(t)],
                                    link <- [c \in Cores |-> Unhandled(c)]
RefinesChannel == Channel!Spec

\* Once the M4 has been started, a call of SendMessage returns, provided that its
\* core has not filled the buffer faster than the other core emptied it.
SendReturns ==
  \A t \in Tasks : call[t] # "idle" /\ m4 # "off"
                  ~> call[t] = "idle" \/ tx[Core(t)] = "blocked"

\* Every message that is in a buffer is received, but for those of the M4 whose event
\* gave way to its output: they wait for the event of the next message.
MessagesReceived ==
  \A c \in Cores : buffer[c] # <<>> ~> buffer[c] = <<>> \/ (c = "M4" /\ Overslept("M7"))
============================================================================
