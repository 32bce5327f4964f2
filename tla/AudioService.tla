---------------------------- MODULE AudioService ----------------------------
(***************************************************************************)
(* AudioService: tasks register callbacks that receive the samples of the  *)
(* microphone.  A task of the service takes their requests from a queue    *)
(* and, while there is a callback, reads the ring buffer of an AudioReader *)
(* and calls the callbacks.  The AudioReader powers the microphone for as  *)
(* long as it exists; the DMA interrupt fills its ring buffer.             *)
(*                                                                         *)
(* Sources: libs/audio/audio_service.{h,cc}, and of audio_driver.cc what   *)
(* the AudioReader calls.  A frame is what one DMA buffer holds.           *)
(***************************************************************************)
EXTENDS Naturals, Sequences, FiniteSets

CONSTANTS Clients,      \* tasks that add and remove callbacks
          NULL,         \* no id, no client
          QueueLength,  \* slots of queue_ (5)
          RingFrames,   \* frames the ring buffer holds (num_dma_buffers)
          DropFrames,   \* frames dropped when the microphone starts
          Records,      \* TRUE: AudioDriver::Enable succeeds, frames arrive
          MaxIds        \* bound: calls of AddCallback in a behaviour

ASSUME AudioAssumption ==
  /\ IsFiniteSet(Clients) /\ NULL \notin Nat \cup Clients
  /\ {QueueLength, RingFrames} \subseteq Nat \ {0}
  /\ {DropFrames, MaxIds} \subseteq Nat /\ Records \in BOOLEAN

VARIABLES
  pc,         \* pc[c]: where client c is in AddCallback or RemoveCallback
  owned,      \* owned[c]: ids AddCallback has returned to c, less those removed
  argument,   \* argument[c]: the id c is asking to remove
  reply,      \* reply[c]: the reply queue of c's request, one int long
  ended,      \* ids whose callback has returned false
  life,       \* "alive", or how far the destructor has come
  queue,      \* queue_
  callbacks,  \* callbacks registered in Run
  idCounter,  \* id_counter
  task,       \* where Run is
  toCall,     \* callbacks that have still to be called in this round
  toRemove,   \* callbacks_to_remove
  reader,     \* an AudioReader exists: the microphone is powered
  ring,       \* frames in its ring buffer
  toDrop      \* frames Drop has still to discard

clientVars == <<pc, owned, argument, reply, ended, life>>
runVars    == <<queue, callbacks, idCounter, task, toCall, toRemove>>
micVars    == <<reader, ring, toDrop>>
vars == <<clientVars, runVars, micVars>>

Ids == 0..(MaxIds - 1)
Cb  == [id: Ids, client: Clients]
Messages == [type: {"Add", "Remove"}, from: Clients] \cup [type: {"Stop"}, from: {NULL}]

TypeOK ==
  /\ pc \in [Clients -> {"idle", "addSend", "addWait", "removeSend", "removeWait"}]
  /\ owned \in [Clients -> SUBSET Ids]
  /\ argument \in [Clients -> Ids \cup {NULL}]
  /\ reply \in [Clients -> Seq(Nat)]
  /\ ended \subseteq Ids
  /\ life \in {"alive", "stopSend", "stopWait", "dead"}
  /\ queue \in Seq(Messages)
  /\ callbacks \subseteq Cb /\ toCall \subseteq Cb
  /\ idCounter \in 0..MaxIds
  /\ task \in {"receive", "open", "drop", "fill", "call", "suspended"}
  /\ toRemove \subseteq Ids
  /\ reader \in BOOLEAN /\ ring \in 0..RingFrames /\ toDrop \in 0..DropFrames

Init ==
  /\ pc = [c \in Clients |-> "idle"] /\ owned = [c \in Clients |-> {}]
  /\ argument = [c \in Clients |-> NULL] /\ reply = [c \in Clients |-> <<>>]
  /\ ended = {} /\ life = "alive"
  /\ queue = <<>> /\ callbacks = {} /\ idCounter = 0
  /\ task = "receive" /\ toCall = {} /\ toRemove = {}
  /\ reader = FALSE /\ ring = 0 /\ toDrop = 0

Enqueue(m) == /\ Len(queue) < QueueLength
              /\ queue' = Append(queue, m)

----------------------------------------------------------------------------
(* The client tasks                                                        *)

\* Bound: at most MaxIds calls of AddCallback are made or under way.
AddsLeft == idCounter + Cardinality({d \in Clients : pc[d] = "addSend"})
              + Len(SelectSeq(queue, LAMBDA m : m.type = "Add")) < MaxIds

AddCallback(c) ==
  /\ life = "alive" /\ pc[c] = "idle" /\ AddsLeft
  /\ pc' = [pc EXCEPT ![c] = "addSend"]
  /\ UNCHANGED <<owned, argument, reply, ended, life, runVars, micVars>>

\* A client removes a callback it has added, whether or not the callback has
\* returned false in the meantime.
RemoveCallback(c) ==
  /\ life = "alive" /\ pc[c] = "idle"
  /\ \E id \in owned[c] : argument' = [argument EXCEPT ![c] = id]
  /\ pc' = [pc EXCEPT ![c] = "removeSend"]
  /\ UNCHANGED <<owned, reply, ended, life, runVars, micVars>>

Send(c) ==
  /\ \/ /\ pc[c] = "addSend"
        /\ Enqueue([type |-> "Add", from |-> c])
        /\ pc' = [pc EXCEPT ![c] = "addWait"]
     \/ /\ pc[c] = "removeSend"
        /\ Enqueue([type |-> "Remove", from |-> c])
        /\ pc' = [pc EXCEPT ![c] = "removeWait"]
  /\ UNCHANGED <<owned, argument, reply, ended, life,
                 callbacks, idCounter, task, toCall, toRemove, micVars>>

\* The reply arrives; the private reply queue is deleted.
Return(c) ==
  /\ pc[c] \in {"addWait", "removeWait"} /\ reply[c] # <<>>
  /\ owned' = [owned EXCEPT ![c] = IF pc[c] = "addWait" THEN @ \cup {Head(reply[c])}
                                                        ELSE @ \ {argument[c]}]
  /\ argument' = [argument EXCEPT ![c] = NULL]
  /\ reply' = [reply EXCEPT ![c] = <<>>]
  /\ pc' = [pc EXCEPT ![c] = "idle"]
  /\ UNCHANGED <<ended, life, runVars, micVars>>

\* ~AudioService: nobody may be in a call of an object that is being destroyed.
Destroy ==
  /\ life = "alive" /\ \A c \in Clients : pc[c] = "idle"
  /\ life' = "stopSend"
  /\ UNCHANGED <<pc, owned, argument, reply, ended, runVars, micVars>>

SendStop ==
  /\ life = "stopSend"
  /\ Enqueue([type |-> "Stop", from |-> NULL])
  /\ life' = "stopWait"
  /\ UNCHANGED <<pc, owned, argument, reply, ended,
                 callbacks, idCounter, task, toCall, toRemove, micVars>>

\* Mutant: the destructor does not wait for the task to suspend itself.
DestroyedAtOnce ==
  /\ life = "stopWait"
  /\ life' = "dead"
  /\ UNCHANGED <<pc, owned, argument, reply, ended, runVars, micVars>>

\* The destructor polls eTaskGetState until the task has suspended itself.
Destroyed ==
  /\ life = "stopWait" /\ task = "suspended"
  /\ life' = "dead"
  /\ UNCHANGED <<pc, owned, argument, reply, ended, runVars, micVars>>

----------------------------------------------------------------------------
(* AudioService::Run                                                       *)

Receive(type) == /\ task = "receive"
                 /\ queue # <<>> /\ Head(queue).type = type
                 /\ queue' = Tail(queue)

Requester == Head(queue).from

HandleAdd ==
  /\ Receive("Add")
  /\ callbacks' = callbacks \cup {[id |-> idCounter, client |-> Requester]}
  /\ reply' = [reply EXCEPT ![Requester] = <<idCounter>>]
  /\ idCounter' = idCounter + 1
  /\ UNCHANGED <<pc, owned, argument, ended, life, task, toCall, toRemove, micVars>>

\* EraseCallbackById's result, as the int that is sent back.
Found == IF argument[Requester] \in {cb.id : cb \in callbacks} THEN 1 ELSE 0

\* Mutant: the callback that was added last is erased.
HandleRemoveLast ==
  /\ Receive("Remove")
  /\ callbacks' = {cb \in callbacks : cb.id # idCounter - 1}
  /\ reply' = [reply EXCEPT ![Requester] = <<Found>>]
  /\ UNCHANGED <<pc, owned, argument, ended, life, idCounter, task, toCall,
                 toRemove, micVars>>

\* Mutant: RemoveCallback is not answered when nothing was found.
HandleRemoveSilent ==
  /\ Receive("Remove")
  /\ callbacks' = {cb \in callbacks : cb.id # argument[Requester]}
  /\ reply' = [reply EXCEPT ![Requester] = IF Found = 1 THEN <<1>> ELSE <<>>]
  /\ UNCHANGED <<pc, owned, argument, ended, life, idCounter, task, toCall,
                 toRemove, micVars>>

\* Whatever was removed, the reader is left alone: `continue` takes Run back to
\* xQueueReceive, which waits for ever when no callback is left.
HandleRemove ==
  /\ Receive("Remove")
  /\ callbacks' = {cb \in callbacks : cb.id # argument[Requester]}
  /\ reply' = [reply EXCEPT ![Requester] = <<Found>>]
  /\ UNCHANGED <<pc, owned, argument, ended, life, idCounter, task, toCall,
                 toRemove, micVars>>

\* Mutant: Run returns without destroying the reader.
HandleStopKeepingReader ==
  /\ Receive("Stop")
  /\ task' = "suspended"
  /\ UNCHANGED <<clientVars, callbacks, idCounter, toCall, toRemove, micVars>>

\* Run returns: the vectors and the reader are destroyed, the task suspends.
HandleStop ==
  /\ Receive("Stop")
  /\ callbacks' = {}
  /\ reader' = FALSE /\ ring' = 0
  /\ task' = "suspended"
  /\ UNCHANGED <<clientVars, idCounter, toCall, toRemove, toDrop>>

\* Mutant: the microphone is never started.
NoRequestWithoutReader ==
  /\ task = "receive" /\ queue = <<>> /\ callbacks # {} /\ reader
  /\ task' = "fill"
  /\ UNCHANGED <<clientVars, queue, callbacks, idCounter, toCall, toRemove, micVars>>

\* With a callback registered xQueueReceive does not wait.
NoRequest ==
  /\ task = "receive" /\ queue = <<>> /\ callbacks # {}
  /\ task' = IF reader THEN "fill" ELSE "open"
  /\ UNCHANGED <<clientVars, queue, callbacks, idCounter, toCall, toRemove, micVars>>

\* AudioReader::AudioReader and the start of Drop.
OpenReader ==
  /\ task = "open"
  /\ reader' = TRUE /\ ring' = 0
  /\ toDrop' = DropFrames
  /\ task' = "drop"
  /\ UNCHANGED <<clientVars, queue, callbacks, idCounter, toCall, toRemove>>

\* FillBuffer inside Drop: a timeout does not count.
Drop ==
  /\ task = "drop"
  /\ \/ /\ toDrop = 0
        /\ task' = "fill"
        /\ UNCHANGED <<ring, toDrop>>
     \/ /\ toDrop > 0 /\ ring > 0
        /\ ring' = ring - 1 /\ toDrop' = toDrop - 1
        /\ UNCHANGED task
  /\ UNCHANGED <<clientVars, queue, callbacks, idCounter, toCall, toRemove, reader>>

\* FillBuffer, with a frame or after a timeout; then the callbacks are called.
FillBuffer ==
  /\ task = "fill"
  /\ ring' = IF ring > 0 THEN ring - 1 ELSE 0
  /\ task' = "call" /\ toCall' = callbacks /\ toRemove' = {}
  /\ UNCHANGED <<clientVars, queue, callbacks, idCounter, reader, toDrop>>

Call(cb) ==
  /\ task = "call" /\ cb \in toCall
  /\ toCall' = toCall \ {cb}
  /\ \/ UNCHANGED <<toRemove, ended>>
     \/ /\ toRemove' = toRemove \cup {cb.id}
        /\ ended' = ended \cup {cb.id}
  /\ UNCHANGED <<pc, owned, argument, reply, life, queue, callbacks, idCounter,
                 task, micVars>>

\* Mutant: callbacks that returned false are kept.
EndRoundKeeping ==
  /\ task = "call" /\ toCall = {}
  /\ task' = "receive"
  /\ UNCHANGED <<clientVars, queue, callbacks, idCounter, toCall, toRemove, micVars>>

\* Callbacks that returned false are erased, and the reader if none is left.
EndRound ==
  /\ task = "call" /\ toCall = {}
  /\ callbacks' = {cb \in callbacks : cb.id \notin toRemove}
  /\ \/ /\ callbacks' = {}
        /\ reader' = FALSE /\ ring' = 0
     \/ /\ callbacks' # {}
        /\ UNCHANGED <<reader, ring>>
  /\ task' = "receive"
  /\ UNCHANGED <<clientVars, queue, idCounter, toCall, toRemove, toDrop>>

Run == \/ HandleAdd \/ HandleRemove \/ HandleStop \/ NoRequest
       \/ OpenReader \/ Drop \/ FillBuffer \/ EndRound
       \/ \E cb \in toCall : Call(cb)

\* AudioReader::Callback, from the DMA interrupt; a full ring takes nothing.
Callback ==
  /\ reader /\ Records /\ ring < RingFrames
  /\ ring' = ring + 1
  /\ UNCHANGED <<clientVars, runVars, reader, toDrop>>

Client(c) == AddCallback(c) \/ RemoveCallback(c) \/ Send(c) \/ Return(c)
Next == \/ \E c \in Clients : Client(c)
        \/ Destroy \/ SendStop \/ Destroyed \/ Run \/ Callback

(***************************************************************************)
(* The service's task and the caller of a function are scheduled, blocked  *)
(* senders get their turn, and the DMA interrupt keeps coming.  Nobody has *)
(* to call anything.                                                       *)
(***************************************************************************)
Fairness == /\ WF_vars(Run) /\ WF_vars(Callback)
            /\ WF_vars(SendStop) /\ WF_vars(Destroyed)
            /\ \A c \in Clients : SF_vars(Send(c)) /\ WF_vars(Return(c))

Spec     == Init /\ [][Next]_vars
FairSpec == Spec /\ Fairness

----------------------------------------------------------------------------
(* Properties                                                              *)

\* A callback can be called only between AddCallback, which returns "a unique id"
\* (audio_service.h:273), and the return of RemoveCallback: when RemoveCallback has
\* returned, the context of the callback is no longer used.  Nor is a callback
\* called again once it has returned false.
NoCallAfterRemove ==
  /\ \A cb \in callbacks \cup toCall :
       cb.id \in owned[cb.client] \/ (pc[cb.client] = "addWait" /\ reply[cb.client] = <<cb.id>>)
  /\ \A cb \in toCall : cb.id \notin ended

\* RemoveCallback returns false only for a callback that ended itself by returning
\* false, however that races with the request (audio_service.h:284).
RemovesOwnCallback ==
  \A c \in Clients :
    pc[c] = "removeWait" /\ reply[c] = <<0>> => argument[c] \in ended

\* The destructor returns with the task out of Run and the microphone off: "powered
\* off as soon as the AudioService is destroyed" (audio_service.h:218).
DestroyedIsSilent == life = "dead" => task = "suspended" /\ ~reader

\* "The microphone is powered off as soon as ... all callbacks are removed with
\* RemoveCallback()" (audio_service.h:218-220): once the last callback has been
\* removed the reader goes, or a callback is added again.
MicPowersOff == callbacks = {} /\ reader ~> callbacks # {} \/ ~reader

\* AddCallback, RemoveCallback and the destructor return.
CallsReturn ==
  /\ \A c \in Clients : pc[c] # "idle" ~> pc[c] = "idle"
  /\ life = "stopSend" ~> life = "dead"

\* As long as a callback is registered, rounds of calls keep coming, starting with
\* the ring buffer's first frames after those that are dropped.
CallbacksServed == callbacks # {} ~> task = "call" \/ callbacks = {}
=============================================================================
