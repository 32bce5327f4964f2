------------------------------- MODULE Console -------------------------------
(***************************************************************************)
(* The console of the M7 (libs/base/console_m7.cc) and the USB serial      *)
(* function it writes to (libs/cdc_acm/cdc_acm.cc).                        *)
(*                                                                         *)
(* Input: the receive task puts characters into a ring, Read takes them    *)
(* out; both hold rx_mutex_.  A character is the number of its place in    *)
(* the input, modulo RingSize + 1, which tells any two of the ring apart.  *)
(*                                                                         *)
(* Output: tasks queue messages, the transmit task sends them one by one   *)
(* with CdcAcm::Transmit, and the USB task, which has a higher priority    *)
(* and may come in at any point, gives the semaphore that Transmit waits   *)
(* for.  A message is short, full (a multiple of the endpoint's packet     *)
(* size, which an empty packet must follow) or too long.  The notification *)
(* of the line state and the copy for the debug UART carry no state.       *)
(***************************************************************************)
EXTENDS Integers, Sequences, SequencesExt

CONSTANTS
  RingSize,     \* kRxBufferSize
  ReadSizes,    \* what callers pass to Read
  QueueSize,    \* messages that console_queue_ holds
  MaxTimeouts   \* how often the host takes nothing for 200 ms

ASSUME ConsoleAssumption ==
  /\ RingSize \in Nat \ {0, 1} /\ ReadSizes \subseteq Nat \ {0}
  /\ QueueSize \in Nat \ {0} /\ MaxTimeouts \in Nat

VARIABLES
  rxBuffer, rxRead, rxWrite, rxAvailable,  \* rx_buffer_ and its counters
  unread,        \* the characters received and not returned, at most the
                 \* RingSize - 1 latest ones
  received,      \* the characters received, modulo RingSize + 1
  crashed,       \* Read has copied out of all bounds
  consoleQueue,  \* console_queue_
  transmitting,  \* where the transmit task is
  message,       \* the message it sends
  canTransmit,   \* can_transmit_
  attached,      \* the host has configured the device
  inFlight,      \* what the bulk-in endpoint sends: none, a message, empty
  semaphore,     \* tx_semaphore_
  halted,        \* a CHECK has failed
  mixed,         \* a message was overwritten while it was sent, or refused
  timeouts       \* Transmit has given up so often

rx == <<rxBuffer, rxRead, rxWrite, rxAvailable, unread, received, crashed>>
tx == <<consoleQueue, transmitting, message, canTransmit, attached, inFlight,
        semaphore, halted, mixed, timeouts>>
consoleVars == <<rx, tx>>

Messages == {"short", "full", "long"}
-----------------------------------------------------------------------------
(* Input. *)

\* Mutant of Advance: a full ring does not move its read index.
AdvanceStaying(next) ==
  /\ rxAvailable' = IF next = rxRead THEN rxAvailable ELSE rxAvailable + 1
  /\ UNCHANGED rxRead

\* A full ring loses its oldest character.
Advance(next) ==
  IF next = rxRead
  THEN rxRead' = (rxRead + 1) % RingSize /\ UNCHANGED rxAvailable
  ELSE rxAvailable' = rxAvailable + 1 /\ UNCHANGED rxRead

LatestOf(s) == IF Len(s) < RingSize THEN s ELSE Tail(s)

RxChar ==
  LET next == (rxWrite + 1) % RingSize IN
  /\ received' = (received + 1) % (RingSize + 1)
  /\ rxBuffer' = [rxBuffer EXCEPT ![rxWrite] = received]
  /\ rxWrite' = next
  /\ Advance(next)
  /\ unread' = LatestOf(Append(unread, received))
  /\ UNCHANGED <<crashed, tx>>

\* When the characters wrap, the first memcpy takes all up to the end of the
\* ring, however few are asked for.  If that is too many, what is left to copy
\* is negative, which the second memcpy takes for some 4 GB: it runs into
\* addresses where there is no memory, with rx_mutex_ held, and the board is
\* gone, so that it does not matter what has been overwritten before.
Read(size) ==
  LET count == IF size < rxAvailable THEN size ELSE rxAvailable
      tooMany == rxRead > rxWrite /\ RingSize - rxRead > count
  IN /\ count > 0
     /\ \/ /\ tooMany
           /\ crashed' = TRUE
           /\ UNCHANGED <<rxRead, rxAvailable, unread>>
        \/ /\ ~tooMany
           /\ rxAvailable' = rxAvailable - count
           /\ rxRead' = (rxRead + count) % RingSize
           /\ unread' = SubSeq(unread, count + 1, Len(unread))
           /\ UNCHANGED crashed
     /\ UNCHANGED <<rxBuffer, rxWrite, received, tx>>
-----------------------------------------------------------------------------
(* Output. *)

Sending == UNCHANGED <<rx, canTransmit, attached>>

Write(m) ==
  /\ Len(consoleQueue) < QueueSize
  /\ consoleQueue' = Append(consoleQueue, m)
  /\ Sending
  /\ UNCHANGED <<transmitting, message, inFlight, semaphore, halted, mixed,
                 timeouts>>

ReceiveMessage ==
  /\ ~halted /\ transmitting = "receive" /\ consoleQueue # <<>>
  /\ message' = Head(consoleQueue)
  /\ consoleQueue' = Tail(consoleQueue)
  /\ transmitting' = "transmit"
  /\ Sending
  /\ UNCHANGED <<inFlight, semaphore, halted, mixed, timeouts>>

Return == transmitting' = "receive" /\ message' = "none"

\* Transmit up to the copy into tx_buffer_.
Transmit ==
  /\ ~halted /\ transmitting = "transmit"
  /\ \/ /\ ~canTransmit \/ message = "long"
        /\ Return /\ UNCHANGED mixed
     \/ /\ canTransmit /\ message # "long"
        /\ transmitting' = "send"
        /\ mixed' = (mixed \/ inFlight \in Messages)
        /\ UNCHANGED message
  /\ Sending
  /\ UNCHANGED <<consoleQueue, inFlight, semaphore, halted, timeouts>>

\* USB_DeviceCdcAcmSend fails without a host or while the endpoint is busy.
Send ==
  /\ ~halted /\ transmitting = "send"
  /\ \/ /\ ~attached \/ inFlight # "none"
        /\ Return
        /\ mixed' = (mixed \/ attached)
        /\ UNCHANGED inFlight
     \/ /\ attached /\ inFlight = "none"
        /\ inFlight' = message
        /\ transmitting' = "take"
        /\ UNCHANGED <<message, mixed>>
  /\ Sending
  /\ UNCHANGED <<consoleQueue, semaphore, halted, timeouts>>

Take ==
  /\ ~halted /\ transmitting = "take" /\ semaphore
  /\ semaphore' = FALSE
  /\ Return
  /\ Sending
  /\ UNCHANGED <<consoleQueue, inFlight, halted, mixed, timeouts>>

TakeTimeout ==
  /\ ~halted /\ transmitting = "take" /\ ~semaphore
  /\ timeouts < MaxTimeouts
  /\ timeouts' = timeouts + 1
  /\ Return
  /\ Sending
  /\ UNCHANGED <<consoleQueue, inFlight, semaphore, halted, mixed>>

\* CHECK(xSemaphoreGive(tx_semaphore_) == pdTRUE)
Give ==
  /\ semaphore' = TRUE
  /\ halted' = semaphore

\* Mutant of SendEmptyPacket: the semaphore is given as well.
SendEmptyPacketGiving == inFlight' = "empty" /\ Give

\* The end of a message that fills its last packet.
SendEmptyPacket == inFlight' = "empty" /\ UNCHANGED <<semaphore, halted>>

\* The host has taken what the endpoint sent: kUSB_DeviceCdcEventSendResponse.
SendResponse ==
  /\ ~halted /\ inFlight # "none"
  /\ \/ inFlight = "full" /\ SendEmptyPacket
     \/ /\ inFlight # "full"
        /\ inFlight' = "none"
        /\ Give
  /\ Sending
  /\ UNCHANGED <<consoleQueue, transmitting, message, mixed, timeouts>>

\* The bus is reset or unplugged: a transfer is cancelled, which the handler
\* takes for one of a length that is no multiple of the packet size; a
\* cancelled empty packet has neither a buffer nor length zero.
Detach ==
  /\ ~halted /\ attached
  /\ attached' = FALSE
  /\ inFlight' = "none"
  /\ IF inFlight \in Messages THEN Give ELSE UNCHANGED <<semaphore, halted>>
  /\ UNCHANGED <<rx, consoleQueue, transmitting, message, canTransmit, mixed,
                 timeouts>>

SetConfiguration ==
  /\ ~halted /\ ~attached
  /\ attached' = TRUE
  /\ UNCHANGED <<rx, consoleQueue, transmitting, message, canTransmit,
                 inFlight, semaphore, halted, mixed, timeouts>>

\* A terminal program opens or closes the port.
SetControlLineState ==
  /\ ~halted /\ attached
  /\ canTransmit' = ~canTransmit
  /\ UNCHANGED <<rx, consoleQueue, transmitting, message, attached, inFlight,
                 semaphore, halted, mixed, timeouts>>

ConsoleInit ==
  /\ rxBuffer = [i \in 0..(RingSize - 1) |-> 0]
  /\ rxRead = 0 /\ rxWrite = 0 /\ rxAvailable = 0
  /\ unread = <<>> /\ received = 0 /\ crashed = FALSE
  /\ consoleQueue = <<>>
  /\ transmitting = "receive" /\ message = "none"
  /\ canTransmit = FALSE /\ attached = FALSE /\ inFlight = "none"
  /\ semaphore = FALSE /\ halted = FALSE /\ mixed = FALSE /\ timeouts = 0

Input == ~crashed /\ (RxChar \/ \E size \in ReadSizes : Read(size))

Output ==
  /\ ~crashed
  /\ \/ \E m \in Messages : Write(m)
     \/ ReceiveMessage \/ Transmit \/ Send \/ Take \/ TakeTimeout
     \/ SendResponse \/ Detach \/ SetConfiguration \/ SetControlLineState

ConsoleNext == Input \/ Output

ConsoleSpec == ConsoleInit /\ [][ConsoleNext]_consoleVars
-----------------------------------------------------------------------------
\* As long as no Read has crashed, the ring holds the latest characters that
\* have not been read, oldest first, however often its indices have wrapped
\* around and whatever it has lost: the count that Read relies on is kept apart
\* from the two indices.
RingHoldsLatest ==
  ~crashed =>
    unread = [i \in 1..rxAvailable |-> rxBuffer[(rxRead + i - 1) % RingSize]]

\* As long as the host takes its data within 200 ms, messages are sent one at
\* a time: none is overwritten in tx_buffer_ while the endpoint sends it, none
\* is refused because the endpoint is busy, and the handler finds the
\* semaphore taken, although the USB task comes in at any point, the host may
\* disconnect, and full packets need a second transfer.
OneByOne == timeouts = 0 => ~mixed /\ ~halted

\* CHECK(xSemaphoreGive(tx_semaphore_) == pdTRUE) in CdcAcm::Handler.
GiveAccepted == ~halted
=============================================================================
