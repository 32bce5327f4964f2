---------------------------- MODULE ConsoleProofs -----------------------------
(***************************************************************************)
(* Proofs about Console, for a ring of any size, reads of any sizes and a  *)
(* queue of any length: the ring holds the latest characters that have not *)
(* been read until a Read crashes, none does if all reads ask for as many  *)
(* characters as the ring can hold, and messages are sent one at a time as *)
(* long as the host takes its data in time.                                *)
(***************************************************************************)
EXTENDS Console, SequenceTheorems, TLAPS

-----------------------------------------------------------------------------
(* Input.  The indices and the count agree: the write index is the count   *)
(* ahead of the read index, around the ring.                               *)

Positions == 0..(RingSize - 1)
Wrap(n) == IF n < RingSize THEN n ELSE n - RingSize

RingInv ==
  /\ rxBuffer \in [Positions -> Nat] /\ received \in Nat
  /\ rxRead \in Positions /\ rxAvailable \in Positions
  /\ rxWrite = Wrap(rxRead + rxAvailable)
  /\ unread \in Seq(Nat) /\ Len(unread) = rxAvailable
  /\ \A i \in 1..rxAvailable : unread[i] = rxBuffer[Wrap(rxRead + i - 1)]

\* The ring's indices are at most twice around it before they are reduced.
LEMMA AroundTheRing ==
  ASSUME NEW n \in Nat, n < 2 * RingSize
  PROVE  n % RingSize = Wrap(n)
PROOF
<1>1. RingSize \in Nat /\ RingSize > 1
  BY ConsoleAssumption
<1>2. CASE n < RingSize
  BY <1>1, <1>2 DEF Wrap
<1>3. CASE n >= RingSize
  BY <1>1, <1>3 DEF Wrap
<1> QED
  BY <1>1, <1>2, <1>3

LEMMA RingInit ==
  ASSUME ConsoleInit
  PROVE  RingInv
PROOF
<1>1. RingSize \in Nat /\ RingSize > 1
  BY ConsoleAssumption
<1>2. unread \in Seq(Nat) /\ Len(unread) = 0
  BY DEF ConsoleInit
<1> QED
  BY <1>1, <1>2 DEF ConsoleInit, RingInv, Positions, Wrap

LEMMA RxCharInv ==
  ASSUME RingInv, RxChar
  PROVE  RingInv'
PROOF
<1>1. RingSize \in Nat /\ RingSize > 1
  BY ConsoleAssumption
<1>2. /\ rxBuffer \in [Positions -> Nat] /\ received \in Nat
      /\ rxRead \in Nat /\ rxRead < RingSize /\ rxAvailable \in Nat /\ rxAvailable < RingSize
      /\ unread \in Seq(Nat) /\ Len(unread) = rxAvailable
      /\ \A i \in 1..rxAvailable : unread[i] = rxBuffer[Wrap(rxRead + i - 1)]
  BY <1>1 DEF RingInv, Positions
<1>3. rxWrite = Wrap(rxRead + rxAvailable) /\ rxWrite \in Positions
  BY <1>1, <1>2 DEF RingInv, Positions, Wrap
<1>4. (rxWrite + 1) % RingSize = Wrap(rxWrite + 1) /\ (rxRead + 1) % RingSize = Wrap(rxRead + 1)
  <2>1. rxWrite + 1 \in Nat /\ rxWrite + 1 < 2 * RingSize
    BY <1>1, <1>3 DEF Positions
  <2>2. rxRead + 1 \in Nat /\ rxRead + 1 < 2 * RingSize
    BY <1>1, <1>2
  <2> QED
    BY <2>1, <2>2, AroundTheRing
<1>5. /\ rxBuffer' = [rxBuffer EXCEPT ![rxWrite] = received]
      /\ rxWrite' = Wrap(rxWrite + 1)
      /\ IF Wrap(rxWrite + 1) = rxRead
         THEN rxRead' = Wrap(rxRead + 1) /\ rxAvailable' = rxAvailable
         ELSE rxAvailable' = rxAvailable + 1 /\ rxRead' = rxRead
      /\ unread' = LatestOf(Append(unread, received))
  BY <1>4, Zenon DEF RxChar, Advance
<1>6. received' \in Nat
  BY <1>1, <1>2 DEF RxChar
<1>7. Wrap(rxWrite + 1) = rxRead <=> rxAvailable = RingSize - 1
  BY <1>1, <1>2, <1>3 DEF Wrap
<1>8. /\ rxBuffer' \in [Positions -> Nat] /\ rxBuffer'[rxWrite] = received
      /\ \A p \in Positions : p # rxWrite => rxBuffer'[p] = rxBuffer[p]
  BY <1>2, <1>3, <1>5
<1>9. PICK more \in Seq(Nat) : more = Append(unread, received)
  BY <1>2, AppendProperties
<1>10. /\ Len(more) = rxAvailable + 1 /\ more[rxAvailable + 1] = received
       /\ \A i \in 1..rxAvailable : more[i] = unread[i]
  BY <1>2, <1>9, AppendProperties
<1>11. ASSUME NEW i \in 1..(rxAvailable + 1)
       PROVE  more[i] = rxBuffer'[Wrap(rxRead + i - 1)]
  <2>1. CASE i = rxAvailable + 1
    <3>1. Wrap(rxRead + i - 1) = rxWrite
      BY <1>1, <1>2, <1>3, <2>1 DEF Wrap
    <3> QED
      BY <1>8, <1>10, <2>1, <3>1
  <2>2. CASE i \in 1..rxAvailable
    <3>1. Wrap(rxRead + i - 1) \in Positions /\ Wrap(rxRead + i - 1) # rxWrite
      BY <1>1, <1>2, <1>3, <2>2 DEF Wrap, Positions
    <3> QED
      BY <1>2, <1>8, <1>10, <2>2, <3>1
  <2> QED
    BY <1>2, <2>1, <2>2
<1>12. CASE rxAvailable # RingSize - 1
  <2>1. rxAvailable' = rxAvailable + 1 /\ rxRead' = rxRead
    BY <1>5, <1>7, <1>12
  <2>2. unread' = more
    BY <1>1, <1>2, <1>5, <1>9, <1>10, <1>12 DEF LatestOf
  <2>3. rxWrite' = Wrap(rxRead' + rxAvailable')
    BY <1>1, <1>2, <1>3, <1>5, <1>12, <2>1 DEF Wrap
  <2>4. rxRead' \in Positions /\ rxAvailable' \in Positions
    BY <1>1, <1>2, <1>12, <2>1 DEF Positions
  <2>5. \A i \in 1..rxAvailable' : unread'[i] = rxBuffer'[Wrap(rxRead' + i - 1)]
    BY <1>11, <2>1, <2>2
  <2>6. unread' \in Seq(Nat) /\ Len(unread') = rxAvailable'
    BY <1>9, <1>10, <2>1, <2>2
  <2> QED
    BY <1>6, <1>8, <2>3, <2>4, <2>5, <2>6 DEF RingInv, Wrap
<1>13. CASE rxAvailable = RingSize - 1
  <2>1. rxRead' = Wrap(rxRead + 1) /\ rxAvailable' = rxAvailable
    BY <1>5, <1>7, <1>13
  <2>2. unread' = Tail(more) /\ more # <<>>
    <3>1. Len(more) = RingSize
      BY <1>1, <1>2, <1>10, <1>13
    <3>2. more # <<>>
      BY <1>1, <1>9, <3>1, EmptySeq
    <3> QED
      BY <1>1, <1>5, <1>9, <3>1, <3>2 DEF LatestOf
  <2>3. /\ unread' \in Seq(Nat) /\ Len(unread') = rxAvailable
        /\ \A i \in 1..rxAvailable : unread'[i] = more[i + 1]
    BY <1>2, <1>10, <2>2, HeadTailProperties
  <2>4. rxRead' \in Positions /\ rxAvailable' \in Positions
    BY <1>1, <1>2, <2>1 DEF Positions, Wrap
  <2>5. ASSUME NEW i \in 1..rxAvailable
        PROVE  unread'[i] = rxBuffer'[Wrap(rxRead' + i - 1)]
    <3>1. PICK j \in 1..(rxAvailable + 1) : j = i + 1
      BY <1>2
    <3>2. Wrap(rxRead' + i - 1) = Wrap(rxRead + j - 1)
      BY <1>1, <1>2, <1>13, <2>1, <3>1 DEF Wrap
    <3> QED
      BY <1>11, <2>3, <3>1, <3>2
  <2>6. rxWrite' = Wrap(rxRead' + rxAvailable')
    BY <1>1, <1>2, <1>3, <1>5, <1>13, <2>1 DEF Wrap
  <2> QED
    BY <1>6, <1>8, <2>1, <2>3, <2>4, <2>5, <2>6 DEF RingInv, Wrap
<1> QED
  BY <1>12, <1>13

\* Characters are taken out of the ring.
Takes(size, count) ==
  /\ count = IF size < rxAvailable THEN size ELSE rxAvailable
  /\ count > 0
  /\ rxAvailable' = rxAvailable - count
  /\ rxRead' = (rxRead + count) % RingSize
  /\ unread' = SubSeq(unread, count + 1, Len(unread))
  /\ UNCHANGED <<rxBuffer, rxWrite, received>>

LEMMA TakenInv ==
  ASSUME RingInv, NEW size \in ReadSizes, NEW count, Takes(size, count)
  PROVE  RingInv'
PROOF
<1>1. RingSize \in Nat /\ RingSize > 1 /\ size \in Nat
  BY ConsoleAssumption
<1>2. /\ rxRead \in Nat /\ rxRead < RingSize /\ rxAvailable \in Nat /\ rxAvailable < RingSize
      /\ unread \in Seq(Nat) /\ Len(unread) = rxAvailable
      /\ rxWrite = Wrap(rxRead + rxAvailable)
      /\ \A i \in 1..rxAvailable : unread[i] = rxBuffer[Wrap(rxRead + i - 1)]
  BY <1>1 DEF RingInv, Positions
<1>4. count \in Nat /\ count > 0 /\ count <= rxAvailable
  BY <1>1, <1>2 DEF Takes
<1>4a. rxAvailable' = rxAvailable - count /\ UNCHANGED <<rxBuffer, rxWrite, received>>
  BY DEF Takes
<1>5. rxRead' = Wrap(rxRead + count)
  <2>1. rxRead + count \in Nat /\ rxRead + count < 2 * RingSize
    BY <1>1, <1>2, <1>4
  <2> QED
    BY <2>1, AroundTheRing DEF Takes
<1>6. rxRead' \in Positions /\ rxAvailable' \in Positions
  <2>1. rxAvailable' \in 0..(RingSize - 1)
    BY <1>1, <1>2, <1>4, <1>4a
  <2>2. rxRead + count \in Nat /\ rxRead + count < 2 * RingSize
    BY <1>1, <1>2, <1>4
  <2>3. Wrap(rxRead + count) \in 0..(RingSize - 1)
    BY <1>1, <2>2 DEF Wrap
  <2> QED
    BY <1>5, <2>1, <2>3 DEF Positions
<1>7. /\ unread' \in Seq(Nat) /\ Len(unread') = rxAvailable'
      /\ \A i \in 1..rxAvailable' : unread'[i] = unread[count + i]
  <2>1. /\ count + 1 \in Int /\ Len(unread) \in Int
        /\ \A i \in (count + 1)..Len(unread) : unread[i] \in Nat
    BY <1>2, <1>4
  <2>2. /\ unread' \in Seq(Nat)
        /\ Len(unread') = IF count + 1 <= Len(unread) THEN Len(unread) - (count + 1) + 1 ELSE 0
        /\ \A i \in 1..(Len(unread) - (count + 1) + 1) : unread'[i] = unread[count + 1 + i - 1]
    <3>1. unread' = SubSeq(unread, count + 1, Len(unread))
      BY DEF Takes
    <3> QED
      BY <2>1, <3>1, SubSeqProperties
  <2>3. Len(unread') = rxAvailable'
    BY <1>2, <1>4, <1>4a, <2>2
  <2>4. ASSUME NEW i \in 1..rxAvailable'
        PROVE  unread'[i] = unread[count + i]
    <3>1. i \in 1..(Len(unread) - (count + 1) + 1) /\ count + 1 + i - 1 = count + i
      BY <1>2, <1>4, <1>4a
    <3> QED
      BY <2>2, <3>1
  <2> QED
    BY <2>2, <2>3, <2>4
<1>8. ASSUME NEW i \in 1..rxAvailable'
      PROVE  unread'[i] = rxBuffer'[Wrap(rxRead' + i - 1)]
  <2>1. PICK j \in 1..rxAvailable : j = count + i
    BY <1>2, <1>4, <1>4a
  <2>2. Wrap(rxRead' + i - 1) = Wrap(rxRead + j - 1)
    BY <1>1, <1>2, <1>4, <1>4a, <1>5, <2>1 DEF Wrap
  <2> QED
    BY <1>2, <1>4a, <1>7, <2>1, <2>2
<1>9. rxWrite' = Wrap(rxRead' + rxAvailable')
  BY <1>1, <1>2, <1>4, <1>4a, <1>5 DEF Wrap
<1> QED
  BY <1>2, <1>4a, <1>6, <1>7, <1>8, <1>9 DEF RingInv, Wrap

LEMMA ReadInv ==
  ASSUME RingInv, NEW size \in ReadSizes, Read(size)
  PROVE  RingInv'
PROOF
<1>1. CASE UNCHANGED <<rxRead, rxAvailable, unread>>
  BY <1>1 DEF Read, RingInv, Wrap
<1>2. PICK count : UNCHANGED <<rxRead, rxAvailable, unread>> \/ Takes(size, count)
  BY Zenon DEF Read, Takes
<1> QED
  BY <1>1, <1>2, TakenInv

LEMMA InputInv ==
  ASSUME RingInv, [ConsoleNext]_consoleVars
  PROVE  RingInv'
PROOF
<1>1. CASE Output \/ UNCHANGED consoleVars
  <2>1. UNCHANGED rx
    BY <1>1 DEF Output, Write, ReceiveMessage, Transmit, Send, Take, TakeTimeout,
       SendResponse, Detach, SetConfiguration, SetControlLineState, Sending, consoleVars
  <2> QED
    BY <2>1 DEF rx, RingInv, Wrap
<1> QED
  BY <1>1, RxCharInv, ReadInv DEF ConsoleNext, Input

\* Until a Read has crashed, the characters that the next one will return are the latest
\* ones, in order, however often the ring has wrapped around (RingHoldsLatest).
THEOREM RingIsRight == ConsoleSpec => []RingHoldsLatest
PROOF
<1>1. ConsoleInit => RingInv
  BY RingInit
<1>2. RingInv /\ [ConsoleNext]_consoleVars => RingInv'
  BY InputInv
<1>3. ASSUME RingInv
      PROVE  RingHoldsLatest
  <2>1. /\ RingSize \in Nat /\ RingSize > 1
        /\ rxRead \in Nat /\ rxRead < RingSize /\ rxAvailable \in Nat /\ rxAvailable < RingSize
    BY <1>3, ConsoleAssumption DEF RingInv, Positions
  <2>2. ASSUME NEW i \in 1..rxAvailable
        PROVE  unread[i] = rxBuffer[(rxRead + i - 1) % RingSize]
    <3>1. rxRead + i - 1 \in Nat /\ rxRead + i - 1 < 2 * RingSize
      BY <2>1
    <3>2. (rxRead + i - 1) % RingSize = Wrap(rxRead + i - 1)
      BY <3>1, AroundTheRing
    <3>3. unread[i] = rxBuffer[Wrap(rxRead + i - 1)]
      BY <1>3 DEF RingInv
    <3> QED
      BY <3>2, <3>3
  <2>3. unread \in Seq(Nat) /\ Len(unread) = rxAvailable
    BY <1>3 DEF RingInv
  <2>4. unread = [i \in 1..rxAvailable |-> unread[i]]
    BY <2>3
  <2> QED
    BY <2>2, <2>4, Zenon DEF RingHoldsLatest
<1> QED
  BY <1>1, <1>2, <1>3, PTL DEF ConsoleSpec

\* No Read copies out of bounds, and so crashes, if every caller asks for as many characters
\* as the ring can hold, so that the count is that of all characters in it.
THEOREM LongReadsAreSafe ==
  ASSUME \A size \in ReadSizes : size >= RingSize - 1
  PROVE  ConsoleSpec => [](crashed = FALSE)
PROOF
<1>1. ConsoleInit => RingInv /\ crashed = FALSE
  BY RingInit DEF ConsoleInit
<1>2. RingInv /\ crashed = FALSE /\ [ConsoleNext]_consoleVars => (RingInv /\ crashed = FALSE)'
  <2> SUFFICES ASSUME RingInv, crashed = FALSE, [ConsoleNext]_consoleVars
               PROVE  RingInv' /\ crashed' = FALSE
    OBVIOUS
  <2>1. ASSUME NEW size \in ReadSizes, Read(size)
        PROVE  crashed' = FALSE
    <3>1. /\ RingSize \in Nat /\ RingSize > 1 /\ size \in Nat /\ size >= RingSize - 1
          /\ rxRead \in 0..(RingSize - 1) /\ rxAvailable \in 0..(RingSize - 1)
          /\ rxWrite = Wrap(rxRead + rxAvailable)
      BY ConsoleAssumption DEF RingInv, Positions
    <3>2. rxRead > rxWrite => RingSize - rxRead <= rxAvailable
      BY <3>1 DEF Wrap
    <3>3. (IF size < rxAvailable THEN size ELSE rxAvailable) = rxAvailable
      BY <3>1
    <3>4. ~(rxRead > rxWrite /\ RingSize - rxRead > rxAvailable)
      BY <3>1, <3>2
    <3>5. crashed' = crashed
      BY <2>1, <3>3, <3>4 DEF Read
    <3> QED
      BY <3>5
  <2>2. ASSUME RxChar \/ Output \/ UNCHANGED consoleVars
        PROVE  crashed' = FALSE
    <3>1. crashed' = crashed
      BY <2>2 DEF RxChar, Output, Write, ReceiveMessage, Transmit, Send, Take, TakeTimeout,
         SendResponse, Detach, SetConfiguration, SetControlLineState, Sending, consoleVars, rx
    <3> QED
      BY <3>1
  <2>3. crashed' = FALSE
    BY <2>1, <2>2 DEF ConsoleNext, Input
  <2> QED
    BY <2>3, InputInv
<1> QED
  BY <1>1, <1>2, PTL DEF ConsoleSpec

-----------------------------------------------------------------------------
(* Output.  Until a wait has timed out the endpoint is busy only while the *)
(* transmit task waits for it.                                             *)

SendInv ==
  /\ timeouts \in Nat /\ semaphore \in BOOLEAN /\ mixed \in BOOLEAN /\ halted \in BOOLEAN
  /\ timeouts = 0 =>
       /\ inFlight # "none" => transmitting = "take" /\ ~semaphore
       /\ semaphore => transmitting = "take"
       /\ ~mixed /\ ~halted

\* As long as no wait times out, no message is overwritten or refused while another
\* one is sent, and the CHECK of the handler succeeds (OneByOne).
THEOREM MessagesOneByOne == ConsoleSpec => []OneByOne
PROOF
<1>1. ConsoleInit => SendInv
  <2>1. ConsoleInit => /\ semaphore = FALSE /\ mixed = FALSE /\ halted = FALSE
                       /\ timeouts = 0 /\ inFlight = "none"
    BY Zenon DEF ConsoleInit
  <2>2. ConsoleInit => semaphore \in BOOLEAN /\ mixed \in BOOLEAN /\ halted \in BOOLEAN
    BY <2>1
  <2>3. ConsoleInit => ~semaphore /\ ~mixed /\ ~halted
    BY <2>1
  <2> QED
    BY <2>1, <2>2, <2>3 DEF SendInv
<1>2. ASSUME SendInv, [ConsoleNext]_consoleVars
      PROVE  SendInv'
  <2>1. CASE Input \/ UNCHANGED consoleVars
    <3>1. UNCHANGED <<timeouts, semaphore, mixed, halted, inFlight, transmitting>>
      BY <2>1 DEF Input, RxChar, Read, tx, consoleVars
    <3> QED
      BY <1>2, <3>1 DEF SendInv
  <2>2. CASE (\E m \in Messages : Write(m)) \/ SetConfiguration \/ SetControlLineState
    <3>1. UNCHANGED <<timeouts, semaphore, mixed, halted, inFlight, transmitting>>
      BY <2>2 DEF Write, SetConfiguration, SetControlLineState
    <3> QED
      BY <1>2, <3>1 DEF SendInv
  <2>3. CASE ReceiveMessage
    BY <1>2, <2>3 DEF ReceiveMessage, SendInv
  <2>4. CASE Transmit
    <3>1. /\ transmitting = "transmit" /\ transmitting' \in {"receive", "send"}
          /\ UNCHANGED <<inFlight, semaphore, halted, timeouts>>
          /\ mixed' = mixed \/ mixed' = (mixed \/ inFlight \in Messages)
      BY <2>4 DEF Transmit, Return
    <3>2. mixed' \in BOOLEAN
      BY <1>2, <3>1 DEF SendInv
    <3>3. timeouts = 0 => ~mixed' /\ inFlight = "none" /\ ~semaphore
      BY <1>2, <3>1 DEF SendInv, Messages
    <3> QED
      BY <1>2, <3>1, <3>2, <3>3 DEF SendInv
  <2>5. CASE Send
    <3>1. /\ transmitting = "send" /\ UNCHANGED <<semaphore, halted, timeouts>>
          /\ \/ /\ ~attached \/ inFlight # "none"
                /\ mixed' = (mixed \/ attached) /\ inFlight' = inFlight
             \/ transmitting' = "take" /\ mixed' = mixed
      BY <2>5 DEF Send
    <3>2. mixed' \in BOOLEAN
      BY <1>2, <3>1 DEF SendInv
    <3>3. timeouts = 0 => /\ inFlight = "none" /\ ~semaphore /\ ~mixed /\ ~halted
                          /\ ~mixed'
      BY <1>2, <3>1 DEF SendInv
    <3> QED
      BY <1>2, <3>1, <3>2, <3>3 DEF SendInv
  <2>6. CASE Take
    BY <1>2, <2>6 DEF Take, SendInv
  <2>7. CASE TakeTimeout
    BY <1>2, <2>7 DEF TakeTimeout, SendInv
  <2>8. CASE SendResponse \/ Detach
    <3>1. /\ inFlight' \in {"none", "empty"} /\ UNCHANGED <<mixed, timeouts, transmitting>>
          /\ \/ semaphore' = semaphore /\ halted' = halted
                /\ (inFlight' = "empty" => inFlight # "none")
             \/ /\ semaphore' = TRUE /\ halted' = semaphore
                /\ inFlight # "none" /\ inFlight' = "none"
      BY <2>8 DEF SendResponse, Detach, Give, SendEmptyPacket, Messages
    <3>2. semaphore' \in BOOLEAN /\ halted' \in BOOLEAN
      <4>1. CASE semaphore' = semaphore /\ halted' = halted
        BY <1>2, <4>1 DEF SendInv
      <4>2. CASE semaphore' = TRUE /\ halted' = semaphore
        BY <1>2, <4>2 DEF SendInv
      <4> QED
        BY <3>1, <4>1, <4>2
    <3>3. timeouts = 0 => /\ inFlight' # "none" => transmitting = "take" /\ ~semaphore'
                          /\ semaphore' => transmitting = "take"
                          /\ ~halted'
      BY <1>2, <3>1 DEF SendInv
    <3> QED
      BY <1>2, <3>1, <3>2, <3>3 DEF SendInv
  <2> QED
    BY <1>2, <2>1, <2>2, <2>3, <2>4, <2>5, <2>6, <2>7, <2>8 DEF ConsoleNext, Output
<1>3. SendInv => OneByOne
  BY DEF SendInv, OneByOne
<1> QED
  BY <1>1, <1>2, <1>3, PTL DEF ConsoleSpec
=============================================================================
