----------------------------- MODULE BoardProofs ------------------------------
(***************************************************************************)
(* Proofs about the parts of a board, and about the board: every part of   *)
(* it behaves as its own specification says, so that what is proved about  *)
(* flashing, the console, the pins, the RPC server and the cascade holds   *)
(* on the board.                                                           *)
(***************************************************************************)
EXTENDS Board, ConsoleProofs, CascadeProofs, SequenceTheorems, TLAPS

-----------------------------------------------------------------------------
(* The RPC server: a connection has a buffer as long as it has a request   *)
(* or a response, or has been cut off; unless it has been cut off, the     *)
(* buffer holds what has been received of its request, and nothing else.   *)

ReceivedOf(c) == [i \in 1..packets[c] |-> Part(request[c], i)]

RpcInv ==
  /\ posting \in SUBSET Connections /\ sending \in SUBSET Connections
  /\ posting \cap sending = {}
  /\ request \in [Connections -> Requests \cup {"none"}]
  /\ packets \in [Connections -> 0..RequestPackets]
  /\ \A c \in posting : request[c] \in Requests
  /\ DOMAIN buffers = posting \cup sending \cup cutOff
  /\ \A c \in posting \ cutOff : buffers[c] = ReceivedOf(c)
  /\ \A c \in sending \ cutOff : buffers[c] = Reply(request[c])

\* A buffer is set, and the other ones stay.
LEMMA BufferSet ==
  ASSUME NEW c, NEW contents, buffers' = WithBuffer(c, contents)
  PROVE  /\ DOMAIN buffers' = DOMAIN buffers \cup {c} /\ buffers'[c] = contents
         /\ \A d \in DOMAIN buffers : d # c => buffers'[d] = buffers[d]
PROOF
  BY DEF WithBuffer

\* One packet more is appended to those received.
LEMMA PacketAppended ==
  ASSUME NEW r, NEW n \in Nat
  PROVE  Append([i \in 1..n |-> Part(r, i)], Part(r, n + 1)) = [i \in 1..(n + 1) |-> Part(r, i)]
PROOF
<1> DEFINE S == {Part(r, i) : i \in 1..(n + 1)}
           s == [i \in 1..n |-> Part(r, i)]
           t == [i \in 1..(n + 1) |-> Part(r, i)]
<1>1. s \in Seq(S) /\ Len(s) = n /\ \A i \in 1..n : s[i] = Part(r, i)
  OBVIOUS
<1>2. t \in Seq(S) /\ Len(t) = n + 1 /\ \A i \in 1..(n + 1) : t[i] = Part(r, i)
  OBVIOUS
<1>3. Part(r, n + 1) \in S
  OBVIOUS
<1> HIDE DEF S, s, t
<1>4. /\ Append(s, Part(r, n + 1)) \in Seq(S) /\ Len(Append(s, Part(r, n + 1))) = n + 1
      /\ \A i \in 1..n : Append(s, Part(r, n + 1))[i] = s[i]
      /\ Append(s, Part(r, n + 1))[n + 1] = Part(r, n + 1)
  BY <1>1, <1>3, AppendProperties
<1>5. \A i \in 1..(n + 1) : Append(s, Part(r, n + 1))[i] = t[i]
  BY <1>1, <1>2, <1>4
<1>6. Append(s, Part(r, n + 1)) = t
  BY <1>2, <1>4, <1>5, SeqEqual
<1> QED
  BY <1>6 DEF s, t

\* A request that is all there gets its own reply.
LEMMA ProcessReplies ==
  ASSUME NEW r \in Requests
  PROVE  Process([i \in 1..RequestPackets |-> Part(r, i)]) = Reply(r)
PROOF
<1> DEFINE whole(q) == [i \in 1..RequestPackets |-> Part(q, i)]
           answered == {q \in Requests : whole(r) = whole(q)}
<1>1. RequestPackets \in Nat /\ 1 \in 1..RequestPackets
  BY JsonRpcAssumption
<1>2. ASSUME NEW q \in Requests, whole(r) = whole(q)
      PROVE  q = r
  <2>1. whole(r)[1] = Part(r, 1) /\ whole(q)[1] = Part(q, 1)
    BY <1>1
  <2>2. Part(r, 1) = Part(q, 1)
    BY <1>2, <2>1
  <2>3. Part(r, 1).request = r /\ Part(q, 1).request = q
    BY DEF Part
  <2> QED
    BY <2>2, <2>3
<1>3. answered = {r}
  BY <1>2
<1>4. (CHOOSE q \in answered : TRUE) = r
  BY <1>3
<1>5. Process(whole(r)) = IF answered = {} THEN Reply("error")
                          ELSE Reply(CHOOSE q \in answered : TRUE)
  BY DEF Process
<1> QED
  BY <1>3, <1>4, <1>5

LEMMA RpcNextInv ==
  ASSUME RpcInv, [RpcNext]_rpcVars
  PROVE  RpcInv'
PROOF
<1>0. RequestPackets \in Nat /\ RequestPackets > 0
  BY JsonRpcAssumption
<1>1. ASSUME NEW c \in Connections, NEW r \in Requests, PostBegin(c, r)
      PROVE  RpcInv'
  <2>1. /\ c \notin posting /\ c \notin sending
        /\ posting' = posting \cup {c} /\ sending' = sending /\ cutOff' = cutOff
        /\ request' = [request EXCEPT ![c] = r] /\ packets' = [packets EXCEPT ![c] = 0]
    BY <1>1 DEF PostBegin
  <2>2. /\ DOMAIN buffers' = DOMAIN buffers \cup {c} /\ buffers'[c] = Buffer(c)
        /\ \A d \in DOMAIN buffers : d # c => buffers'[d] = buffers[d]
    BY <1>1, BufferSet DEF PostBegin
  <2>3. /\ request' \in [Connections -> Requests \cup {"none"}] /\ request'[c] = r
        /\ packets' \in [Connections -> 0..RequestPackets] /\ packets'[c] = 0
        /\ \A d \in Connections : d # c => request'[d] = request[d] /\ packets'[d] = packets[d]
    BY <1>0, <2>1 DEF RpcInv
  <2>4. \A d \in posting : ReceivedOf(d)' = ReceivedOf(d)
    BY <2>1, <2>3 DEF RpcInv, ReceivedOf
  <2>5. c \notin cutOff => buffers'[c] = ReceivedOf(c)'
    <3>1. ReceivedOf(c)' = [i \in 1..0 |-> Part(r, i)]
      BY <2>3 DEF ReceivedOf
    <3>2. [i \in 1..0 |-> Part(r, i)] = <<>>
      <4> DEFINE s == [i \in 1..0 |-> Part(r, i)]
      <4>1. s \in Seq({r}) /\ Len(s) = 0
        OBVIOUS
      <4> QED
        BY <4>1, EmptySeq
    <3>3. c \notin cutOff => c \notin DOMAIN buffers
      BY <2>1 DEF RpcInv
    <3> QED
      BY <2>2, <3>1, <3>2, <3>3 DEF Buffer
  <2> QED
    BY <2>1, <2>2, <2>3, <2>4, <2>5 DEF RpcInv
<1>2. ASSUME NEW c \in Connections, PostReceiveData(c)
      PROVE  RpcInv'
  <2>1. /\ c \in posting /\ packets[c] < RequestPackets
        /\ packets' = [packets EXCEPT ![c] = packets[c] + 1]
        /\ UNCHANGED <<posting, sending, request, cutOff>>
    BY <1>2 DEF PostReceiveData
  <2>2. c \in DOMAIN buffers /\ packets[c] \in Nat
    BY <1>0, <2>1 DEF RpcInv
  <2>3. /\ packets' \in [Connections -> 0..RequestPackets] /\ packets'[c] = packets[c] + 1
        /\ \A d \in Connections : d # c => packets'[d] = packets[d]
    BY <1>0, <2>1 DEF RpcInv
  <2>4. buffers' = WithBuffer(c, Append(buffers[c], Part(request[c], packets[c] + 1)))
    BY <1>2, <2>2, <2>3 DEF PostReceiveData, Buffer
  <2>5. /\ DOMAIN buffers' = DOMAIN buffers
        /\ buffers'[c] = Append(buffers[c], Part(request[c], packets[c] + 1))
        /\ \A d \in DOMAIN buffers : d # c => buffers'[d] = buffers[d]
    BY <2>2, <2>4, BufferSet
  <2>6. c \notin cutOff => buffers'[c] = ReceivedOf(c)'
    <3>1. c \notin cutOff => buffers[c] = [i \in 1..packets[c] |-> Part(request[c], i)]
      BY <2>1 DEF RpcInv, ReceivedOf
    <3>2. ReceivedOf(c)' = [i \in 1..(packets[c] + 1) |-> Part(request[c], i)]
      BY <2>1, <2>3 DEF ReceivedOf
    <3> QED
      BY <2>2, <2>5, <3>1, <3>2, PacketAppended
  <2>7. \A d \in posting : d # c => ReceivedOf(d)' = ReceivedOf(d)
    BY <2>1, <2>3 DEF RpcInv, ReceivedOf
  <2>8. \A d \in posting \ cutOff : buffers'[d] = ReceivedOf(d)'
    BY <2>5, <2>6, <2>7 DEF RpcInv
  <2>9. \A d \in sending : d # c /\ d \in DOMAIN buffers
    BY <2>1 DEF RpcInv
  <2> QED
    BY <2>1, <2>3, <2>5, <2>8, <2>9 DEF RpcInv, Reply
<1>3. ASSUME NEW c \in Connections, PostFinished(c)
      PROVE  RpcInv'
  <2>1. /\ c \in posting /\ packets[c] = RequestPackets
        /\ posting' = posting \ {c} /\ sending' = sending \cup {c}
        /\ UNCHANGED <<request, packets, cutOff>>
    BY <1>3 DEF PostFinished
  <2>2. c \in DOMAIN buffers /\ request[c] \in Requests
    BY <2>1 DEF RpcInv
  <2>3. buffers' = WithBuffer(c, Process(buffers[c]))
    BY <1>3, <2>2 DEF PostFinished, Buffer
  <2>4. /\ DOMAIN buffers' = DOMAIN buffers /\ buffers'[c] = Process(buffers[c])
        /\ \A d \in DOMAIN buffers : d # c => buffers'[d] = buffers[d]
    BY <2>2, <2>3, BufferSet
  <2>5. c \notin cutOff => buffers'[c] = Reply(request[c])
    <3>1. c \notin cutOff => buffers[c] = [i \in 1..RequestPackets |-> Part(request[c], i)]
      BY <2>1 DEF RpcInv, ReceivedOf
    <3> QED
      BY <2>2, <2>4, <3>1, ProcessReplies
  <2>6. \A d \in posting : ReceivedOf(d)' = ReceivedOf(d)
    BY <2>1 DEF ReceivedOf
  <2> QED
    BY <2>1, <2>4, <2>5, <2>6 DEF RpcInv
<1>4. ASSUME NEW c \in Connections, PostCutOff(c)
      PROVE  RpcInv'
  <2>1. /\ c \in posting
        /\ posting' = posting \ {c} /\ cutOff' = cutOff \cup {c}
        /\ UNCHANGED <<request, packets, sending>>
    BY <1>4 DEF PostCutOff
  <2>2. /\ DOMAIN buffers' = DOMAIN buffers \cup {c}
        /\ \A d \in DOMAIN buffers : d # c => buffers'[d] = buffers[d]
    BY <1>4, BufferSet DEF PostCutOff
  <2>3. \A d \in posting : ReceivedOf(d)' = ReceivedOf(d)
    BY <2>1 DEF ReceivedOf
  <2> QED
    BY <2>1, <2>2, <2>3 DEF RpcInv
<1>5. ASSUME NEW c \in Connections, FsCloseCustom(c)
      PROVE  RpcInv'
  <2>1. /\ c \in sending
        /\ sending' = sending \ {c} /\ cutOff' = cutOff \ {c}
        /\ UNCHANGED <<posting, request, packets>>
    BY <1>5 DEF FsCloseCustom
  <2>2. /\ DOMAIN buffers' = DOMAIN buffers \ {c}
        /\ \A d \in DOMAIN buffers : d # c => buffers'[d] = buffers[d]
    BY <1>5 DEF FsCloseCustom, Erased, Restrict
  <2>3. \A d \in posting : ReceivedOf(d)' = ReceivedOf(d)
    BY <2>1 DEF ReceivedOf
  <2> QED
    BY <2>1, <2>2, <2>3 DEF RpcInv
<1>6. CASE UNCHANGED rpcVars
  BY <1>6 DEF rpcVars, RpcInv, ReceivedOf
<1> QED
  BY <1>1, <1>2, <1>3, <1>4, <1>5, <1>6 DEF RpcNext

\* Every response that is sent is the reply to the connection's own request, whatever
\* happens on other connections, unless a request was cut off at that address since the
\* last response; and no buffer outlives what it is for (RepliesBelong).
THEOREM RepliesAreOwn == RpcSpec => []RepliesBelong
PROOF
<1>1. RpcInit => RpcInv
  BY JsonRpcAssumption DEF RpcInit, RpcInv
<1>2. RpcInv /\ [RpcNext]_rpcVars => RpcInv'
  BY RpcNextInv
<1>3. RpcInv => RepliesBelong
  BY DEF RpcInv, RepliesBelong
<1> QED
  BY <1>1, <1>2, <1>3, PTL DEF RpcSpec

-----------------------------------------------------------------------------
(* Flashing: how far an undisturbed run has come, counted in reports, tells *)
(* what the elf_loader has open and which files are written in full.        *)

\* The reports of one file, and the number of them.
FileLength == Packets + 7
FileReport(p, j) ==
  CASE j = 1 -> Report("target", "path")
    [] j = 5 -> Report("target", "filesystem")
    [] j \in {2, 6} -> Report("setsize", p)
    [] j \in {4, FileLength} -> Report("done", p)
    [] OTHER -> Report("bytes", p)

Format == Report("format", "none")
ResetReport == Report("reset_to_flash", "none")
Resets == {"reset_to_bootloader", "reset_to_flash"}
Reports == [cmd: {"target", "setsize", "bytes", "done", "format"} \cup Resets,
            arg: Paths \cup {"none", "ram", "path", "filesystem"}]

FlashTypes ==
  /\ fs \in [Paths -> {"none", "empty", "partial", "old", "new"}]
  /\ todo \in Seq(Reports) /\ pipe \in Seq(Reports) /\ Len(pipe) <= 1
  /\ hid \in {"closed", "open", "lost"} /\ disturbed \in BOOLEAN /\ failed \in BOOLEAN
  /\ hid # "closed" => tool \in Sessions
  /\ current \in Nat \ {0}
  /\ tool \notin {"ProgramDataFiles", "ResetToFlash", "idle", "error", "done"} => current = 1

\* The elf_loader waits for reports, and nothing else makes it act.
Waiting == mode = "elfloader" /\ ~timer /\ loader = "none" /\ mounted

\* What h reports of file p have made of the elf_loader.
BoardAt(p, h) ==
  /\ h \in 1..4 => target = "path"
  /\ h = 3 => path = p
  /\ h \in 4..(FileLength - 1) => handle = p
  /\ h \in 5..FileLength => target = "filesystem"
  /\ h \in {4, 5} => got = 0
  /\ h \in 6..(FileLength - 1) => got = h - 6
  /\ h = FileLength => fs[p] = "new"

Flashed(n) == \A i \in 1..n : fs[FilesToWrite[i]] = "new"

\* Reports of the current file that have been written; none before the format.
Written == FileLength - Len(todo)

\* The reports up to the last one that was written have been handled, or all but that one.
Progress ==
  \/ pipe = <<>> /\ Flashed(current - 1) /\ BoardAt(FilesToWrite[current], Written)
  \/ /\ Written >= 1 /\ pipe = <<FileReport(FilesToWrite[current], Written)>>
     /\ Flashed(current - 1) /\ BoardAt(FilesToWrite[current], Written - 1)
  \/ /\ Written = 0 /\ current > 1
     /\ pipe = <<FileReport(FilesToWrite[current - 1], FileLength)>>
     /\ Flashed(current - 2) /\ BoardAt(FilesToWrite[current - 1], FileLength - 1)
  \/ Written = 0 /\ current = 1 /\ pipe = <<Format>>

\* The user has not interfered with this run, and littlefs has not failed in it.
Smooth == ~disturbed /\ ~failed

ProgramInv ==
  tool = "ProgramDataFiles" /\ Smooth =>
    /\ Waiting /\ hid # "lost"
    /\ current \in 1..Len(FilesToWrite) /\ Len(todo) <= FileLength + 1
    /\ Len(todo) = FileLength + 1 => current = 1 /\ pipe = <<>>
    /\ \A j \in 1..Len(todo) :
         todo[j] = IF Written + j = 0 THEN Format
                   ELSE FileReport(FilesToWrite[current], Written + j)
    /\ todo = <<>> => current = Len(FilesToWrite)
    /\ Progress

\* All files are on the flash; the reset that is to start them comes, or has come.
Booting == /\ loader \in {"none", "flash", "suspended"}
           /\ mode = "app" /\ elf \in ToSet(FilesToWrite) => app = "new"
Complete ==
  /\ Flashed(Len(FilesToWrite))
  /\ \/ pipe = <<ResetReport>> /\ Waiting
     \/ pipe = <<>> /\ Booting

\* The last report of the last file may not have been handled yet.
AllSent ==
  LET final == FilesToWrite[Len(FilesToWrite)]
  IN  /\ Waiting /\ hid # "lost" /\ todo = <<ResetReport>>
      /\ \/ pipe = <<>> /\ Flashed(Len(FilesToWrite))
         \/ /\ pipe = <<FileReport(final, FileLength)>>
            /\ Flashed(Len(FilesToWrite) - 1) /\ BoardAt(final, FileLength - 1)

ResetInv == tool = "ResetToFlash" /\ Smooth => AllSent \/ (todo = <<>> /\ Complete)

PromiseInv ==
  /\ promised # {} => tool = "done"
  /\ promised # {} /\ ~failed => promised = ToSet(FilesToWrite) /\ Complete

\* Images and files are sent without a reset, and no timer is there to start anything.
NoReset(reports) == \A j \in 1..Len(reports) : reports[j].cmd \notin Resets
SendingInv ==
  tool \in {"ProgramElfloader", "ProgramDataFiles"} /\ ~disturbed =>
    ~timer /\ loader # "flash" /\ NoReset(todo) /\ NoReset(pipe)

FlashInv == FlashTypes /\ ProgramInv /\ ResetInv /\ PromiseInv /\ SendingInv

LEMMA FilesAre ==
  /\ FilesToWrite \in Seq(Paths) /\ Len(FilesToWrite) \in Nat /\ Len(FilesToWrite) >= 1
  /\ \A i \in 1..Len(FilesToWrite) : FilesToWrite[i] \in Paths /\ FilesToWrite[i] # "none"
  /\ elf \in ToSet(FilesToWrite) => \E i \in 1..Len(FilesToWrite) : FilesToWrite[i] = elf
  /\ \A p \in ToSet(FilesToWrite) : \E i \in 1..Len(FilesToWrite) : FilesToWrite[i] = p
PROOF
<1> DEFINE data == IF opts.data THEN DataFiles ELSE <<>>
           program == IF opts.program THEN <<elf>> ELSE <<>>
<1>1. DataFiles \in Seq(Paths)
  <2>1. DataFiles \in Seq(STRING \ {"none"})
    BY FlashingAssumption
  <2>2. \A i \in 1..Len(DataFiles) : DataFiles[i] \in Paths
    BY <2>1 DEF Paths, ToSet
  <2> QED
    BY <2>1, <2>2
<1>2. "none" \notin Paths
  <2>1. "none" \notin ToSet(DataFiles)
    BY FlashingAssumption DEF ToSet
  <2> QED
    BY <2>1 DEF Paths, elf, settings
<1>3. data \in Seq(Paths) /\ program \in Seq(Paths) /\ <<settings>> \in Seq(Paths)
  <2>1. elf \in Paths /\ settings \in Paths
    BY DEF Paths
  <2> QED
    BY <1>1, <2>1
<1> HIDE DEF data, program
<1>4. data \o program \in Seq(Paths)
  BY <1>3, ConcatProperties
<1>5. /\ FilesToWrite \in Seq(Paths)
      /\ Len(FilesToWrite) = Len(data \o program) + 1
  <2>1. FilesToWrite = data \o program \o <<settings>>
    BY DEF FilesToWrite, data, program
  <2>2. Len(<<settings>>) = 1
    OBVIOUS
  <2> QED
    BY <1>3, <1>4, <2>1, <2>2, ConcatProperties
<1>6. Len(data \o program) \in Nat
  BY <1>4, LenProperties
<1>7. DOMAIN FilesToWrite = 1..Len(FilesToWrite)
  BY <1>5, LenProperties
<1>8. \A p \in ToSet(FilesToWrite) : \E i \in 1..Len(FilesToWrite) : FilesToWrite[i] = p
  BY <1>7 DEF ToSet
<1>9. \A i \in 1..Len(FilesToWrite) : FilesToWrite[i] \in Paths
  BY <1>5
<1> QED
  BY <1>2, <1>5, <1>6, <1>8, <1>9

\* The elements of a concatenation.
LEMMA ConcatIs ==
  ASSUME NEW S, NEW s \in Seq(S), NEW t \in Seq(S)
  PROVE  /\ s \o t \in Seq(S) /\ Len(s \o t) = Len(s) + Len(t)
         /\ \A j \in 1..Len(s) : (s \o t)[j] = s[j]
         /\ \A j \in 1..Len(t) : (s \o t)[Len(s) + j] = t[j]
PROOF
<1>1. s \o t \in Seq(S) /\ Len(s \o t) = Len(s) + Len(t)
  BY ConcatProperties
<1>2. Len(s) \in Nat /\ Len(t) \in Nat
  BY LenProperties
<1>3. \A j \in 1..Len(s) : (s \o t)[j] = s[j]
  BY <1>2, ConcatProperties
<1>4. \A j \in 1..Len(t) : (s \o t)[Len(s) + j] = t[j]
  <2>1. SUFFICES ASSUME NEW j \in 1..Len(t) PROVE (s \o t)[Len(s) + j] = t[j]
    OBVIOUS
  <2>2. Len(s) + j \in 1..(Len(s) + Len(t)) /\ ~(Len(s) + j <= Len(s)) /\ Len(s) + j - Len(s) = j
    BY <1>2
  <2> QED
    BY <2>2, ConcatProperties
<1> QED
  BY <1>1, <1>3, <1>4

\* The reports of one transfer, one by one.
LEMMA TransferDataIs ==
  ASSUME NEW S, NEW what, NEW arg, NEW n \in Nat,
         Report("target", what) \in S, Report("setsize", arg) \in S,
         Report("bytes", arg) \in S, Report("done", arg) \in S
  PROVE  /\ TransferData(what, arg, n) \in Seq(S) /\ Len(TransferData(what, arg, n)) = n + 3
         /\ TransferData(what, arg, n)[1] = Report("target", what)
         /\ TransferData(what, arg, n)[2] = Report("setsize", arg)
         /\ \A j \in 1..n : TransferData(what, arg, n)[2 + j] = Report("bytes", arg)
         /\ TransferData(what, arg, n)[n + 3] = Report("done", arg)
PROOF
<1> DEFINE a == <<Report("target", what), Report("setsize", arg)>>
           b == [i \in 1..n |-> Report("bytes", arg)]
           d == <<Report("done", arg)>>
           c == a \o b
<1>1. a \in Seq(S) /\ Len(a) = 2 /\ a[1] = Report("target", what) /\ a[2] = Report("setsize", arg)
  OBVIOUS
<1>2. b \in Seq(S) /\ Len(b) = n /\ \A j \in 1..n : b[j] = Report("bytes", arg)
  OBVIOUS
<1>3. d \in Seq(S) /\ Len(d) = 1 /\ d[1] = Report("done", arg)
  OBVIOUS
<1>4. TransferData(what, arg, n) = c \o d
  BY DEF TransferData
<1> HIDE DEF a, b, d
<1>5. /\ c \in Seq(S) /\ Len(c) = 2 + n /\ c[1] = a[1] /\ c[2] = a[2]
      /\ \A j \in 1..n : c[2 + j] = b[j]
  <2>1. a \in Seq(S) /\ b \in Seq(S)
    BY <1>1, <1>2
  <2>2. /\ c \in Seq(S) /\ Len(c) = Len(a) + Len(b)
        /\ \A j \in 1..Len(a) : c[j] = a[j]
        /\ \A j \in 1..Len(b) : c[Len(a) + j] = b[j]
    BY <2>1, ConcatIs
  <2> HIDE DEF c
  <2> QED
    BY <1>1, <1>2, <2>2
<1> HIDE DEF c
<1>6. /\ c \o d \in Seq(S) /\ Len(c \o d) = n + 3
      /\ \A j \in 1..(n + 2) : (c \o d)[j] = c[j]
      /\ (c \o d)[n + 3] = d[1]
  <2>1. c \in Seq(S) /\ d \in Seq(S)
    BY <1>3, <1>5
  <2>2. /\ c \o d \in Seq(S) /\ Len(c \o d) = Len(c) + Len(d)
        /\ \A j \in 1..Len(c) : (c \o d)[j] = c[j]
        /\ \A j \in 1..Len(d) : (c \o d)[Len(c) + j] = d[j]
    BY <2>1, ConcatIs
  <2>3. Len(c) = n + 2 /\ Len(d) = 1 /\ n + 2 + 1 = n + 3 /\ 1 \in 1..1
    BY <1>3, <1>5
  <2>4. (c \o d)[n + 2 + 1] = d[1]
    BY <2>2, <2>3
  <2> QED
    BY <2>2, <2>3, <2>4
<1>7. \A j \in 1..n : (c \o d)[2 + j] = Report("bytes", arg)
  <2> SUFFICES ASSUME NEW j \in 1..n PROVE (c \o d)[2 + j] = Report("bytes", arg)
    OBVIOUS
  <2>1. PICK i \in 1..(n + 2) : i = 2 + j
    OBVIOUS
  <2>2. (c \o d)[i] = c[i]
    BY <1>6
  <2>3. c[2 + j] = b[j] /\ b[j] = Report("bytes", arg)
    BY <1>2, <1>5
  <2> QED
    BY <2>1, <2>2, <2>3
<1>8. 1 \in 1..(n + 2) /\ 2 \in 1..(n + 2)
  OBVIOUS
<1> QED
  BY <1>1, <1>3, <1>4, <1>5, <1>6, <1>7, <1>8

\* The reports of one file, one by one.
LEMMA TransferFileIs ==
  ASSUME NEW p \in Paths
  PROVE  /\ FileLength \in Nat /\ FileLength >= 8
         /\ TransferFile(p) \in Seq(Reports) /\ Len(TransferFile(p)) = FileLength
         /\ \A j \in 1..FileLength : TransferFile(p)[j] = FileReport(p, j)
         /\ \A j \in 1..FileLength : FileReport(p, j) \in Reports
PROOF
<1> DEFINE a == TransferData("path", p, 1)
           b == TransferData("filesystem", p, Packets)
<1>1. Packets \in Nat /\ Packets >= 1 /\ FileLength = Packets + 7
  BY FlashingAssumption DEF FileLength
<1>2. /\ Report("target", "path") \in Reports /\ Report("target", "filesystem") \in Reports
      /\ Report("setsize", p) \in Reports /\ Report("bytes", p) \in Reports
      /\ Report("done", p) \in Reports
  BY DEF Report, Reports
<1>3. /\ a \in Seq(Reports) /\ Len(a) = 1 + 3 /\ a[1] = Report("target", "path")
      /\ a[2] = Report("setsize", p) /\ a[1 + 3] = Report("done", p)
      /\ \A j \in 1..1 : a[2 + j] = Report("bytes", p)
  <2>1. ASSUME NEW n \in Nat, n = 1
        PROVE  LET t == TransferData("path", p, n)
               IN  /\ t \in Seq(Reports) /\ Len(t) = n + 3 /\ t[1] = Report("target", "path")
                   /\ t[2] = Report("setsize", p) /\ t[n + 3] = Report("done", p)
                   /\ \A j \in 1..n : t[2 + j] = Report("bytes", p)
    BY <1>2, TransferDataIs
  <2>2. PICK n \in Nat : n = 1
    OBVIOUS
  <2> QED
    BY <2>1, <2>2
<1>4. /\ b \in Seq(Reports) /\ Len(b) = Packets + 3 /\ b[1] = Report("target", "filesystem")
      /\ b[2] = Report("setsize", p) /\ b[Packets + 3] = Report("done", p)
      /\ \A j \in 1..Packets : b[2 + j] = Report("bytes", p)
  BY <1>1, <1>2, TransferDataIs
<1>5. TransferFile(p) = a \o b
  BY DEF TransferFile
<1> HIDE DEF a, b
<1>6. /\ a \o b \in Seq(Reports) /\ Len(a \o b) = FileLength
      /\ \A j \in 1..4 : (a \o b)[j] = a[j]
      /\ \A j \in 1..(Packets + 3) : (a \o b)[4 + j] = b[j]
  <2>1. a \in Seq(Reports) /\ b \in Seq(Reports)
    BY <1>3, <1>4
  <2>2. /\ a \o b \in Seq(Reports) /\ Len(a \o b) = Len(a) + Len(b)
        /\ \A j \in 1..Len(a) : (a \o b)[j] = a[j]
        /\ \A j \in 1..Len(b) : (a \o b)[Len(a) + j] = b[j]
    BY <2>1, ConcatIs
  <2>3. Len(a) = 4 /\ Len(b) = Packets + 3 /\ 4 + (Packets + 3) = FileLength
    BY <1>1, <1>3, <1>4
  <2> QED
    BY <2>2, <2>3
<1>7. \A j \in 1..4 : (a \o b)[j] = FileReport(p, j)
  <2>1. a[1] = Report("target", "path") /\ a[2] = Report("setsize", p)
        /\ a[3] = Report("bytes", p) /\ a[4] = Report("done", p)
    BY <1>3
  <2>2. /\ FileReport(p, 1) = Report("target", "path") /\ FileReport(p, 2) = Report("setsize", p)
        /\ FileReport(p, 3) = Report("bytes", p) /\ FileReport(p, 4) = Report("done", p)
    BY <1>1 DEF FileReport
  <2> SUFFICES ASSUME NEW j \in 1..4 PROVE (a \o b)[j] = FileReport(p, j)
    OBVIOUS
  <2>3. (a \o b)[j] = a[j]
    BY <1>6
  <2>4. j = 1 \/ j = 2 \/ j = 3 \/ j = 4
    OBVIOUS
  <2> QED
    BY <2>1, <2>2, <2>3, <2>4
<1>8. \A j \in 1..(Packets + 3) : b[j] = FileReport(p, 4 + j)
  <2>1. SUFFICES ASSUME NEW j \in 1..(Packets + 3) PROVE b[j] = FileReport(p, 4 + j)
    OBVIOUS
  <2>2. CASE j \in {1, 2, Packets + 3}
    BY <1>1, <1>4, <2>2 DEF FileReport
  <2>3. CASE j \in 3..(Packets + 2)
    <3>1. j - 2 \in 1..Packets /\ 2 + (j - 2) = j
      BY <1>1, <2>3
    <3>2. b[j] = Report("bytes", p)
      BY <1>4, <3>1
    <3> QED
      BY <1>1, <2>3, <3>2 DEF FileReport
  <2>4. j \in {1, 2, Packets + 3} \/ j \in 3..(Packets + 2)
    BY <1>1
  <2> QED
    BY <2>2, <2>3, <2>4
<1>9. \A j \in 1..FileLength : (a \o b)[j] = FileReport(p, j)
  <2>1. SUFFICES ASSUME NEW j \in 1..FileLength PROVE (a \o b)[j] = FileReport(p, j)
    OBVIOUS
  <2>2. CASE j \in 1..4
    BY <1>7, <2>2
  <2>3. CASE j \in 5..FileLength
    <3>1. j - 4 \in 1..(Packets + 3) /\ 4 + (j - 4) = j
      BY <1>1, <2>3
    <3> QED
      BY <1>6, <1>8, <3>1
  <2>4. j \in 1..4 \/ j \in 5..FileLength
    BY <1>1
  <2> QED
    BY <2>2, <2>3, <2>4
<1>10. \A j \in 1..FileLength : FileReport(p, j) \in Reports
  BY <1>2 DEF FileReport
<1> QED
  BY <1>1, <1>5, <1>6, <1>9, <1>10

\* What a report of a file says.
LEMMA FileReportIs ==
  ASSUME NEW p, NEW h \in 1..FileLength
  PROVE  /\ h = 1 => FileReport(p, h).cmd = "target" /\ FileReport(p, h).arg = "path"
         /\ h = 5 => FileReport(p, h).cmd = "target" /\ FileReport(p, h).arg = "filesystem"
         /\ h \in {2, 6} => FileReport(p, h).cmd = "setsize"
         /\ h \in {4, FileLength} => FileReport(p, h).cmd = "done"
         /\ h = 3 \/ h \in 7..(FileLength - 1) =>
              FileReport(p, h).cmd = "bytes" /\ FileReport(p, h).arg = p
         /\ FileReport(p, h).cmd \in {"target", "setsize", "bytes", "done"}
PROOF
<1>1. FileLength \in Nat /\ FileLength >= 8
  BY FlashingAssumption DEF FileLength
<1>2. h = 3 \/ h \in 7..(FileLength - 1) => FileReport(p, h) = Report("bytes", p)
  BY <1>1 DEF FileReport
<1>3. h = 1 => FileReport(p, h) = Report("target", "path")
  BY <1>1 DEF FileReport
<1>4. h = 5 => FileReport(p, h) = Report("target", "filesystem")
  BY <1>1 DEF FileReport
<1>5. h \in {2, 6} => FileReport(p, h) = Report("setsize", p)
  BY <1>1 DEF FileReport
<1>6. h \in {4, FileLength} => FileReport(p, h) = Report("done", p)
  BY <1>1 DEF FileReport
<1>7. h \in {1, 2, 3, 4, 5, 6, FileLength} \/ h \in 7..(FileLength - 1)
  BY <1>1
<1> QED
  BY <1>2, <1>3, <1>4, <1>5, <1>6, <1>7 DEF Report

\* A file that is complete stays so when another one, or it again, is opened or closed in full.
Keeps == \A q \in Paths : fs[q] = "new" => fs'[q] = "new"

\* The elf_loader handles the report of a file that comes next, and littlefs does not fail.
LEMMA Handled ==
  ASSUME FlashTypes, Waiting, NEW p \in Paths, p # "none", NEW h \in 1..FileLength,
         BoardAt(p, h - 1), RecvData(FileReport(p, h)), ~failed'
  PROVE  /\ BoardAt(p, h)' /\ Waiting' /\ Keeps /\ pipe' = <<>> /\ hid' = hid
         /\ fs' \in [Paths -> {"none", "empty", "partial", "old", "new"}]
PROOF
<1> DEFINE r == FileReport(p, h)
<1>1. Packets \in Nat /\ Packets >= 1 /\ FileLength = Packets + 7
  BY FlashingAssumption DEF FileLength
<1>2. fs \in [Paths -> {"none", "empty", "partial", "old", "new"}]
  BY DEF FlashTypes
<1>3. /\ mode' = mode /\ timer' = FALSE /\ pipe' = <<>> /\ hid' = hid
      /\ target' = IF r.cmd = "target" THEN r.arg ELSE target
      /\ path' = IF r.cmd = "bytes" /\ target = "path" THEN r.arg ELSE path
      /\ r.cmd = "done" => RecvDone
      /\ r.cmd = "bytes" /\ target = "filesystem" => WriteFile
      /\ r.cmd = "bytes" /\ target = "path" => UNCHANGED <<fs, handle, got, loader, mounted>>
      /\ r.cmd = "setsize" /\ target # "ram" => UNCHANGED <<fs, handle, got, loader, mounted>>
      /\ r.cmd = "target" => UNCHANGED <<fs, handle, got, loader, mounted>>
  BY DEF RecvData
<1>4. mode = "elfloader" /\ loader = "none" /\ mounted
  BY DEF Waiting
<1> HIDE DEF r
<1>5. ASSUME loader' = loader, fs' = fs, mounted' = mounted, BoardAt(p, h)'
      PROVE  /\ BoardAt(p, h)' /\ Waiting' /\ Keeps /\ pipe' = <<>> /\ hid' = hid
             /\ fs' \in [Paths -> {"none", "empty", "partial", "old", "new"}]
  BY <1>2, <1>3, <1>4, <1>5 DEF Waiting, Keeps
<1>6. CASE h = 1
  <2>1. r.cmd = "target" /\ r.arg = "path"
    BY <1>6, FileReportIs DEF r
  <2>2. target' = "path" /\ loader' = loader /\ fs' = fs /\ mounted' = mounted
    BY <1>3, <2>1
  <2> QED
    BY <1>1, <1>5, <1>6, <2>2 DEF BoardAt
<1>7. CASE h = 2
  <2>1. r.cmd = "setsize" /\ target = "path"
    BY <1>1, <1>7, FileReportIs DEF r, BoardAt
  <2>2. target' = "path" /\ loader' = loader /\ fs' = fs /\ mounted' = mounted
    BY <1>3, <2>1
  <2> QED
    BY <1>1, <1>5, <1>7, <2>2 DEF BoardAt
<1>8. CASE h = 3
  <2>1. r.cmd = "bytes" /\ r.arg = p /\ target = "path"
    BY <1>1, <1>8, FileReportIs DEF r, BoardAt
  <2>2. target' = "path" /\ path' = p /\ loader' = loader /\ fs' = fs /\ mounted' = mounted
    BY <1>3, <2>1
  <2> QED
    BY <1>1, <1>5, <1>8, <2>2 DEF BoardAt
<1>9. CASE h = 4
  <2>1. r.cmd = "done" /\ target = "path" /\ path = p
    BY <1>1, <1>9, FileReportIs DEF r, BoardAt
  <2>2. /\ target' = "path" /\ handle' = p /\ got' = 0 /\ loader' = loader
        /\ mounted' = mounted
        /\ fs' = [fs EXCEPT ![p] = IF fs[p] = "none" THEN "empty" ELSE fs[p]]
    BY <1>3, <1>4, <2>1 DEF RecvDone, OpenFile, LfsFails
  <2>3. /\ fs' \in [Paths -> {"none", "empty", "partial", "old", "new"}] /\ Keeps
    BY <1>2, <2>2 DEF Keeps
  <2>4. BoardAt(p, h)'
    BY <1>1, <1>9, <2>2 DEF BoardAt
  <2> QED
    BY <1>3, <1>4, <2>2, <2>3, <2>4 DEF Waiting
<1>10. CASE h = 5
  <2>1. r.cmd = "target" /\ r.arg = "filesystem" /\ handle = p /\ got = 0
    BY <1>1, <1>10, FileReportIs DEF r, BoardAt
  <2>2. /\ target' = "filesystem" /\ loader' = loader /\ fs' = fs /\ handle' = p /\ got' = 0
        /\ mounted' = mounted
    BY <1>3, <2>1
  <2> QED
    BY <1>1, <1>5, <1>10, <2>2 DEF BoardAt
<1>11. CASE h = 6
  <2>1. r.cmd = "setsize" /\ target = "filesystem" /\ handle = p /\ got = 0
    BY <1>1, <1>11, FileReportIs DEF r, BoardAt
  <2>2. /\ target' = "filesystem" /\ loader' = loader /\ fs' = fs /\ handle' = p /\ got' = 0
        /\ mounted' = mounted
    BY <1>3, <2>1
  <2> QED
    BY <1>1, <1>5, <1>11, <2>2 DEF BoardAt
<1>12. CASE h \in 7..(FileLength - 1)
  <2>1. r.cmd = "bytes" /\ target = "filesystem" /\ handle = p /\ got = (h - 1) - 6
    BY <1>1, <1>12, FileReportIs DEF r, BoardAt
  <2>2. /\ target' = "filesystem" /\ loader' = loader /\ fs' = fs /\ handle' = p
        /\ got' = h - 6 /\ mounted' = mounted
    BY <1>3, <2>1 DEF WriteFile, LfsFails
  <2> QED
    BY <1>1, <1>5, <1>12, <2>2 DEF BoardAt
<1>13. CASE h = FileLength
  <2>1. r.cmd = "done" /\ target = "filesystem" /\ handle = p /\ got = Packets
    BY <1>1, <1>13, FileReportIs DEF r, BoardAt
  <2>2. /\ target' = "filesystem" /\ loader' = loader /\ fs' = [fs EXCEPT ![p] = "new"]
        /\ mounted' = mounted
    BY <1>3, <2>1 DEF RecvDone, CloseFile, LfsFails
  <2>3. /\ fs' \in [Paths -> {"none", "empty", "partial", "old", "new"}] /\ Keeps
        /\ fs'[p] = "new"
    BY <1>2, <2>2 DEF Keeps
  <2>4. BoardAt(p, h)'
    BY <1>1, <1>13, <2>2, <2>3 DEF BoardAt
  <2> QED
    BY <1>3, <1>4, <2>2, <2>3, <2>4 DEF Waiting
<1>14. h \in {1, 2, 3, 4, 5, 6, FileLength} \/ h \in 7..(FileLength - 1)
  BY <1>1
<1> QED
  BY <1>6, <1>7, <1>8, <1>9, <1>10, <1>11, <1>12, <1>13, <1>14

\* As long as littlefs has not failed, it is mounted and the file is open when it is needed.
LEMMA NoneStrays ==
  ASSUME Waiting, NEW p \in Paths, p # "none", NEW h \in 1..FileLength, BoardAt(p, h - 1)
  PROVE  ~Strays(FileReport(p, h))
PROOF
<1>1. FileLength \in Nat /\ FileLength >= 8 /\ mounted
  BY FlashingAssumption DEF FileLength, Waiting
<1>2. CASE h \in {1, 2, 5, 6}
  <2>1. FileReport(p, h).cmd \in {"target", "setsize"}
    BY <1>1, <1>2, FileReportIs
  <2> QED
    BY <1>1, <2>1 DEF Strays
<1>3. CASE h \in {3, 4}
  <2>1. target = "path"
    BY <1>1, <1>3 DEF BoardAt
  <2> QED
    BY <1>1, <2>1 DEF Strays
<1>4. CASE h \in 7..FileLength
  <2>1. handle = p
    BY <1>1, <1>4 DEF BoardAt
  <2> QED
    BY <1>1, <2>1 DEF Strays
<1> QED
  BY <1>1, <1>2, <1>3, <1>4

LEMMA FilesStay ==
  ASSUME opts' = opts
  PROVE  FilesToWrite' = FilesToWrite
BY DEF FilesToWrite

LEMMA FlashedStay ==
  ASSUME opts' = opts, Keeps, NEW n \in Nat, n <= Len(FilesToWrite), Flashed(n)
  PROVE  Flashed(n)'
PROOF
<1>1. Len(FilesToWrite) \in Nat /\ \A i \in 1..Len(FilesToWrite) : FilesToWrite[i] \in Paths
  BY FilesAre
<1>2. FilesToWrite' = FilesToWrite
  BY FilesStay
<1> QED
  BY <1>1, <1>2 DEF Flashed, Keeps

\* In most of its states the tool has told the board nothing yet.
LEMMA Elsewhere ==
  ASSUME FlashTypes', promised' = {},
         tool' \notin {"ProgramDataFiles", "ResetToFlash", "ProgramElfloader"}
  PROVE  FlashInv'
BY DEF FlashInv, ProgramInv, ResetInv, PromiseInv, SendingInv

LEMMA OnePipe ==
  ASSUME FlashTypes, pipe # <<>>
  PROVE  pipe = <<Head(pipe)>> /\ Head(pipe) \in Reports
PROOF
<1>1. pipe \in Seq(Reports) /\ Len(pipe) = 1
  <2>1. pipe \in Seq(Reports)
    BY DEF FlashTypes
  <2>2. Len(pipe) <= 1
    BY DEF FlashTypes
  <2>3. Len(pipe) # 0
    BY <2>1, EmptySeq
  <2>4. PICK n \in Nat : n = Len(pipe)
    BY <2>1, LenProperties
  <2>5. n = 1
    BY <2>2, <2>3, <2>4
  <2> QED
    BY <2>1, <2>4, <2>5
<1>2. Head(pipe) = pipe[1] /\ pipe[1] \in Reports /\ DOMAIN pipe = 1..1
  BY <1>1, LenProperties, HeadTailProperties
<1>3. pipe = <<pipe[1]>>
  <2>1. pipe = [i \in 1..1 |-> pipe[i]]
    BY <1>1, <1>2
  <2>2. <<pipe[1]>> = [i \in 1..1 |-> pipe[i]]
    OBVIOUS
  <2> QED
    BY <2>1, <2>2
<1> QED
  BY <1>2, <1>3

\* What the handling of a report leaves, whatever it says.
LEMMA RecvIs ==
  ASSUME FlashTypes, Recv
  PROVE  /\ FlashTypes' /\ pipe' = <<>>
         /\ UNCHANGED <<tool, opts, todo, current, promised, disturbed>>
         /\ Head(pipe).cmd \notin Resets =>
              /\ RecvData(Head(pipe)) \/ Strays(Head(pipe))
              /\ timer' = FALSE /\ loader' \in {loader, "ram", "none"}
         /\ Head(pipe).cmd = "reset_to_flash" =>
              PowerOn /\ fs' = fs /\ failed' = failed
PROOF
<1> DEFINE r == Head(pipe)
           Files == [Paths -> {"none", "empty", "partial", "old", "new"}]
<1>1. fs \in Files /\ r \in Reports
  BY OnePipe DEF FlashTypes, Recv
<1>2. UNCHANGED <<tool, opts, todo, current, promised, disturbed>>
  BY DEF Recv
<1>3. CASE r.cmd = "reset_to_bootloader"
  <2>1. ~Strays(r)
    BY <1>3 DEF Strays
  <2>2. StartRom("sdp") /\ fs' = fs
    BY <1>3, <2>1 DEF Recv
  <2>3. pipe' = <<>> /\ hid' = (IF hid = "open" THEN "lost" ELSE hid) /\ failed' = failed
    BY <2>2 DEF StartRom, LeaveBus
  <2> QED
    BY <1>1, <1>2, <1>3, <2>2, <2>3 DEF FlashTypes, Resets
<1>4. CASE r.cmd = "reset_to_flash"
  <2>1. ~Strays(r)
    BY <1>4 DEF Strays
  <2>2. PowerOn /\ fs' = fs
    BY <1>4, <2>1 DEF Recv
  <2>3. pipe' = <<>> /\ hid' = (IF hid = "open" THEN "lost" ELSE hid) /\ failed' = failed
    BY <2>2 DEF PowerOn, StartElfloader, StartRom, LeaveBus
  <2> QED
    BY <1>1, <1>2, <1>4, <2>2, <2>3 DEF FlashTypes, Resets
<1>5. CASE RecvData(r) /\ r.cmd \notin Resets
  <2>1. timer' = FALSE /\ pipe' = <<>> /\ hid' = hid
    BY <1>5 DEF RecvData
  <2>2. fs' \in Files /\ loader' \in {loader, "ram"} /\ failed' \in {failed, TRUE}
    <3>1. CASE r.cmd = "done"
      <4>1. RecvDone
        BY <1>5, <3>1 DEF RecvData
      <4>2. OpenFile => fs' \in Files /\ loader' = loader /\ failed' \in {failed, TRUE}
        BY <1>1 DEF OpenFile, LfsWorks, LfsFails
      <4>3. CloseFile => fs' \in Files /\ loader' = loader /\ failed' \in {failed, TRUE}
        BY <1>1 DEF CloseFile, LfsWorks, LfsFails
      <4> QED
        BY <1>1, <4>1, <4>2, <4>3 DEF RecvDone
    <3>2. CASE r.cmd = "format"
      <4>1. FormatFs
        BY <1>5, <3>2 DEF RecvData
      <4>2. NoFiles \in Files
        BY DEF NoFiles
      <4> QED
        BY <1>1, <4>1, <4>2 DEF FormatFs, LfsWorks, LfsFails
    <3>3. CASE r.cmd \notin {"done", "format"}
      <4>1. fs' = fs /\ loader' = loader /\ failed' \in {failed, TRUE}
        BY <1>5, <3>3 DEF RecvData, WriteFile, LfsWorks, LfsFails
      <4> QED
        BY <1>1, <4>1
    <3> QED
      BY <3>1, <3>2, <3>3
  <2>3. failed' \in BOOLEAN
    BY <2>2 DEF FlashTypes
  <2>4. pipe' \in Seq(Reports) /\ Len(pipe') <= 1
    BY <2>1
  <2>5. FlashTypes'
    BY <1>2, <2>1, <2>2, <2>3, <2>4 DEF FlashTypes
  <2> QED
    BY <1>2, <1>5, <2>1, <2>2, <2>5 DEF Resets
<1>6. CASE Strays(r) /\ StandStill
  <2>1. /\ timer' = FALSE /\ loader' = "none" /\ fs' = fs /\ failed' = failed /\ pipe' = <<>>
        /\ hid' = IF hid = "open" THEN "lost" ELSE hid
    BY <1>6 DEF StandStill, LeaveBus
  <2>2. r.cmd \notin Resets
    BY <1>6 DEF Strays, Resets
  <2> QED
    BY <1>1, <1>2, <1>6, <2>1, <2>2 DEF FlashTypes, Resets
<1> QED
  BY <1>3, <1>4, <1>5, <1>6 DEF Recv, Resets

LEMMA PowerOnBoots ==
  ASSUME PowerOn
  PROVE  Booting' /\ pipe' = <<>> /\ (hid # "open" => hid' = hid)
BY DEF PowerOn, StartElfloader, StartRom, LeaveBus, Booting

LEMMA CompleteRecv ==
  ASSUME FlashTypes, Complete, Recv
  PROVE  Complete'
PROOF
<1>1. pipe = <<ResetReport>> /\ opts' = opts /\ Flashed(Len(FilesToWrite))
  BY DEF Complete, Recv
<1>2. Head(pipe).cmd = "reset_to_flash"
  BY <1>1 DEF ResetReport, Report
<1>3. PowerOn /\ fs' = fs /\ pipe' = <<>>
  BY <1>2, RecvIs
<1>4. Flashed(Len(FilesToWrite))'
  BY <1>1, <1>3, FilesStay DEF Flashed
<1> QED
  BY <1>3, <1>4, PowerOnBoots DEF Complete

\* The last report that was written is handled.
LEMMA ProgressRecv ==
  ASSUME FlashTypes, Waiting, Progress, current \in 1..Len(FilesToWrite),
         Len(todo) <= FileLength, Recv, ~failed'
  PROVE  Progress' /\ Waiting' /\ hid' = hid
PROOF
<1>1. /\ FlashTypes' /\ pipe' = <<>> /\ opts' = opts /\ todo' = todo /\ current' = current
      /\ FilesToWrite' = FilesToWrite /\ Written' = Written
  <2>1. FlashTypes' /\ pipe' = <<>> /\ opts' = opts /\ todo' = todo /\ current' = current
    BY RecvIs
  <2> QED
    BY <2>1, FilesStay DEF Written
<1>2. /\ Len(FilesToWrite) \in Nat /\ FileLength \in Nat /\ FileLength >= 8 /\ Len(todo) \in Nat
      /\ \A i \in 1..Len(FilesToWrite) : FilesToWrite[i] \in Paths /\ FilesToWrite[i] # "none"
  BY FilesAre, FlashingAssumption DEF FileLength, FlashTypes
<1>3. pipe # <<>>
  BY DEF Recv
<1>4. Written \in 0..FileLength
  BY <1>2 DEF Written
<1>5. ASSUME NEW p \in Paths, p # "none", NEW h \in 1..FileLength, BoardAt(p, h - 1),
             pipe = <<FileReport(p, h)>>
      PROVE  BoardAt(p, h)' /\ Waiting' /\ Keeps /\ hid' = hid
  <2>1. Head(pipe) = FileReport(p, h)
    BY <1>5
  <2>2. Head(pipe).cmd \notin Resets
    BY <2>1, FileReportIs DEF Resets
  <2>3. RecvData(FileReport(p, h))
    BY <1>5, <2>1, <2>2, RecvIs, NoneStrays
  <2> QED
    BY <1>5, <2>3, Handled
<1>6. CASE /\ Written >= 1 /\ pipe = <<FileReport(FilesToWrite[current], Written)>>
           /\ Flashed(current - 1) /\ BoardAt(FilesToWrite[current], Written - 1)
  <2>1. PICK p \in Paths : p = FilesToWrite[current] /\ p # "none"
    BY <1>2
  <2>2. PICK h \in 1..FileLength : h = Written
    BY <1>4, <1>6
  <2>3. BoardAt(p, h)' /\ Waiting' /\ Keeps /\ hid' = hid
    BY <1>5, <1>6, <2>1, <2>2
  <2>4. PICK n \in Nat : n = current - 1 /\ n <= Len(FilesToWrite)
    BY <1>2
  <2>5. Flashed(n)'
    BY <1>1, <1>6, <2>3, <2>4, FlashedStay
  <2>6. FilesToWrite'[current'] = p /\ Written' = h /\ current' - 1 = n
    BY <1>1, <2>1, <2>2, <2>4
  <2> QED
    BY <1>1, <2>3, <2>5, <2>6 DEF Progress, BoardAt, Flashed
<1>7. CASE /\ Written = 0 /\ current > 1
           /\ pipe = <<FileReport(FilesToWrite[current - 1], FileLength)>>
           /\ Flashed(current - 2) /\ BoardAt(FilesToWrite[current - 1], FileLength - 1)
  <2>1. PICK n \in Nat : n = current - 1 /\ n >= 1 /\ n <= Len(FilesToWrite)
    BY <1>2, <1>7
  <2>2. PICK p \in Paths : p = FilesToWrite[n] /\ p # "none"
    BY <1>2, <2>1
  <2>3. PICK h \in 1..FileLength : h = FileLength
    BY <1>2
  <2>4. BoardAt(p, h)' /\ Waiting' /\ Keeps /\ hid' = hid
    BY <1>5, <1>7, <2>1, <2>2, <2>3
  <2>5. PICK m \in Nat : m = n - 1
    BY <2>1
  <2>6. m = current - 2 /\ m <= Len(FilesToWrite)
    BY <1>2, <2>1, <2>5
  <2>7. Flashed(m)'
    BY <1>1, <1>7, <2>4, <2>6, FlashedStay
  <2>8. fs'[p] = "new"
    BY <1>2, <2>3, <2>4 DEF BoardAt
  <2>9. Flashed(n)'
    <3>1. \A i \in 1..n : i \in 1..m \/ i = n
      BY <2>1, <2>5
    <3> QED
      BY <1>1, <2>2, <2>7, <2>8, <3>1 DEF Flashed
  <2>10. FilesToWrite' = FilesToWrite /\ Written' = 0 /\ current' - 1 = n
    BY <1>1, <1>7, <2>1
  <2> QED
    BY <1>1, <1>2, <2>4, <2>9, <2>10 DEF Progress, BoardAt, Flashed
<1>8. CASE Written = 0 /\ current = 1 /\ pipe = <<Format>>
  <2>1. Head(pipe).cmd = "format"
    BY <1>8 DEF Format, Report
  <2>2. RecvData(Head(pipe))
    BY <2>1, RecvIs DEF Resets, Strays
  <2>3. /\ mode' = mode /\ timer' = FALSE /\ loader' = loader /\ hid' = hid
        /\ mounted' = mounted
    BY <2>1, <2>2 DEF RecvData, FormatFs, LfsFails
  <2> QED
    BY <1>1, <1>2, <1>8, <2>3 DEF Progress, BoardAt, Flashed, Waiting
<1> QED
  BY <1>3, <1>6, <1>7, <1>8 DEF Progress

LEMMA RecvInv ==
  ASSUME FlashInv, Recv
  PROVE  FlashInv'
PROOF
<1>1. /\ FlashTypes /\ FlashTypes' /\ pipe' = <<>> /\ FilesToWrite' = FilesToWrite
      /\ UNCHANGED <<tool, opts, todo, current, promised, disturbed>> /\ pipe # <<>>
  BY RecvIs, FilesStay DEF FlashInv, Recv
<1>6. failed => failed'
  BY DEF FlashInv, Recv, StartRom, PowerOn, StartElfloader, RecvData, RecvDone, OpenFile,
     WriteFile, CloseFile, FormatFs, StandStill, LfsWorks, LfsFails
<1>2. ProgramInv'
  <2>1. SUFFICES ASSUME tool = "ProgramDataFiles", ~disturbed, ~failed, ~failed'
                 PROVE  ProgramInv'
    BY <1>1, <1>6 DEF ProgramInv, Smooth
  <2>2. /\ Waiting /\ hid # "lost" /\ current \in 1..Len(FilesToWrite)
        /\ Len(todo) <= FileLength + 1 /\ (Len(todo) = FileLength + 1 => pipe = <<>>)
        /\ \A j \in 1..Len(todo) :
             todo[j] = IF Written + j = 0 THEN Format
                       ELSE FileReport(FilesToWrite[current], Written + j)
        /\ (todo = <<>> => current = Len(FilesToWrite)) /\ Progress
    BY <2>1 DEF FlashInv, ProgramInv, Smooth
  <2>3. Len(todo) <= FileLength
    <3>1. Len(todo) \in Nat /\ FileLength \in Nat
      BY <1>1, FlashingAssumption DEF FlashTypes, FileLength
    <3> QED
      BY <1>1, <2>2, <3>1
  <2>4. Progress' /\ Waiting' /\ hid' = hid
    BY <1>1, <2>1, <2>2, <2>3, ProgressRecv
  <2>5. Written' = Written
    BY <1>1 DEF Written
  <2> QED
    BY <1>1, <2>2, <2>4, <2>5 DEF ProgramInv
<1>3. ResetInv'
  <2>1. SUFFICES ASSUME tool = "ResetToFlash", ~disturbed, ~failed, ~failed'
                 PROVE  AllSent' \/ (todo = <<>> /\ Complete')
    BY <1>1, <1>6 DEF ResetInv, Smooth
  <2>2. CASE todo = <<>> /\ Complete
    BY <1>1, <2>2, CompleteRecv
  <2>3. CASE AllSent
    <3>1. PICK n \in Nat : n = Len(FilesToWrite) /\ n >= 1
      BY FilesAre
    <3>2. PICK p \in Paths : p = FilesToWrite[n] /\ p # "none"
      BY <3>1, FilesAre
    <3>3. PICK h \in 1..FileLength : h = FileLength
      BY FlashingAssumption DEF FileLength
    <3>4. /\ Waiting /\ hid # "lost" /\ todo = <<ResetReport>> /\ pipe = <<FileReport(p, h)>>
          /\ Flashed(n - 1) /\ BoardAt(p, h - 1)
      BY <1>1, <2>3, <3>1, <3>2, <3>3 DEF AllSent
    <3>5. Head(pipe) = FileReport(p, h)
      BY <3>4
    <3>6. RecvData(FileReport(p, h))
      <4>1. Head(pipe).cmd \notin Resets
        BY <3>5, FileReportIs DEF Resets
      <4> QED
        BY <1>1, <3>2, <3>4, <3>5, <4>1, RecvIs, NoneStrays
    <3>7. BoardAt(p, h)' /\ Waiting' /\ Keeps /\ hid' = hid
      BY <1>1, <2>1, <3>2, <3>4, <3>6, Handled
    <3>8. PICK m \in Nat : m = n - 1
      BY <3>1
    <3>9. Flashed(m)'
      <4>1. m <= Len(FilesToWrite) /\ Flashed(m)
        BY <3>1, <3>4, <3>8
      <4> QED
        BY <1>1, <3>7, <4>1, FlashedStay
    <3>10. fs'[p] = "new"
      BY <3>3, <3>7, FlashingAssumption DEF BoardAt, FileLength
    <3>11. Flashed(n)'
      <4>1. \A i \in 1..n : i \in 1..m \/ i = n
        BY <3>1, <3>8
      <4> QED
        BY <1>1, <3>2, <3>9, <3>10, <4>1 DEF Flashed
    <3> QED
      BY <1>1, <3>1, <3>4, <3>7, <3>11 DEF AllSent, Flashed
  <2> QED
    BY <1>1, <2>1, <2>2, <2>3 DEF FlashInv, ResetInv, Smooth
<1>4. PromiseInv'
  <2>1. promised' # {} => tool' = "done"
    BY <1>1 DEF FlashInv, PromiseInv
  <2>2. SUFFICES ASSUME promised # {}, ~failed, ~failed'
                 PROVE  promised = ToSet(FilesToWrite)' /\ Complete'
    BY <1>1, <1>6, <2>1 DEF PromiseInv
  <2>3. promised = ToSet(FilesToWrite) /\ Complete
    BY <2>2 DEF FlashInv, PromiseInv
  <2> QED
    BY <1>1, <2>3, CompleteRecv DEF ToSet
<1>5. SendingInv'
  <2>1. SUFFICES ASSUME tool \in {"ProgramElfloader", "ProgramDataFiles"}, ~disturbed
                 PROVE  SendingInv'
    BY <1>1 DEF SendingInv
  <2>2. ~timer /\ loader # "flash" /\ NoReset(todo) /\ NoReset(pipe)
    BY <2>1 DEF FlashInv, SendingInv
  <2>3. Head(pipe).cmd \notin Resets
    <3>1. pipe = <<Head(pipe)>>
      BY <1>1, OnePipe
    <3>2. Len(pipe) = 1 /\ pipe[1] = Head(pipe)
      BY <3>1
    <3> QED
      BY <2>2, <3>2 DEF NoReset
  <2>4. timer' = FALSE /\ loader' \in {loader, "ram", "none"}
    BY <1>1, <2>3, RecvIs
  <2>5. NoReset(todo)' /\ NoReset(pipe)'
    BY <1>1, <2>2 DEF NoReset
  <2> QED
    BY <2>2, <2>4, <2>5 DEF SendingInv
<1> QED
  BY <1>1, <1>2, <1>3, <1>4, <1>5 DEF FlashInv

\* The board's other steps do not touch the files.
LEMMA BoardInv ==
  ASSUME FlashInv, Enumerate \/ TimerFires \/ ElfloaderMain
  PROVE  FlashInv'
PROOF
<1>1. /\ FlashTypes /\ FilesToWrite' = FilesToWrite
      /\ UNCHANGED <<fs, target, path, handle, got, tool, opts, todo, current, promised, disturbed, failed, mounted>>
      /\ FlashTypes' /\ Written' = Written
  <2>1. /\ UNCHANGED <<fs, target, path, handle, got, tool, opts, todo, current, promised, disturbed, failed, mounted>>
        /\ pipe' \in {pipe, <<>>} /\ hid' \in {hid, "lost"} /\ (hid = "closed" => hid' = hid)
    BY DEF FlashInv, FlashTypes, Enumerate, TimerFires, ElfloaderMain, LeaveBus, host
  <2>2. FlashTypes
    BY DEF FlashInv
  <2>3. <<>> \in Seq(Reports) /\ Len(<<>>) <= 1
    OBVIOUS
  <2> QED
    BY <2>1, <2>2, <2>3, FilesStay DEF FlashTypes, Written
<1>2. Waiting => /\ UNCHANGED <<pipe, hid, mode, app, timer, loader>>
                 /\ Enumerate
  BY DEF Waiting, Enumerate, TimerFires, ElfloaderMain, host
<1>3. \/ UNCHANGED <<pipe, mode, app, timer, loader>>
      \/ timer /\ loader' = "flash" /\ timer' = FALSE /\ UNCHANGED <<pipe, mode, app>>
      \/ /\ loader \in {"flash", "ram"} /\ loader' \in {"none", "suspended"}
         /\ timer' \in {timer, FALSE} /\ pipe' \in {pipe, <<>>}
         /\ \/ UNCHANGED <<mode, app>>
            \/ mode' = "app" /\ app' = Image
            \/ mode' = "dead"
  BY DEF Enumerate, TimerFires, ElfloaderMain, LeaveBus, host
<1>4. ProgramInv'
  BY <1>1, <1>2 DEF FlashInv, ProgramInv, Smooth, Progress, Waiting, BoardAt, Flashed
<1>5. ASSUME Complete PROVE Complete'
  <2>1. Flashed(Len(FilesToWrite)) /\ Flashed(Len(FilesToWrite))'
    BY <1>1, <1>5 DEF Complete, Flashed
  <2>2. CASE pipe = <<ResetReport>> /\ Waiting
    BY <1>1, <1>2, <2>1, <2>2 DEF Complete, Waiting
  <2>3. CASE pipe = <<>> /\ Booting
    <3>1. pipe' = <<>> /\ loader' \in {"none", "flash", "suspended"}
      BY <1>3, <2>3 DEF Booting
    <3>2. ASSUME mode' = "app", elf \in ToSet(FilesToWrite) PROVE app' = "new"
      <4>1. CASE mode' = mode /\ app' = app
        BY <2>3, <3>2, <4>1 DEF Booting
      <4>2. CASE app' = Image /\ loader = "flash"
        <5>1. fs[elf] = "new"
          BY <2>1, <3>2, FilesAre DEF Flashed
        <5> QED
          BY <4>2, <5>1 DEF Image
      <4> QED
        BY <1>3, <2>3, <3>2, <4>1, <4>2 DEF Booting
    <3>3. ToSet(FilesToWrite)' = ToSet(FilesToWrite)
      BY <1>1 DEF ToSet
    <3>4. Booting'
      BY <3>1, <3>2, <3>3 DEF Booting
    <3> QED
      BY <2>1, <3>1, <3>4 DEF Complete
  <2> QED
    BY <1>5, <2>2, <2>3 DEF Complete
<1>6. ResetInv'
  <2>1. AllSent => AllSent'
    BY <1>1, <1>2 DEF AllSent, Waiting, BoardAt, Flashed
  <2> QED
    BY <1>1, <1>5, <2>1 DEF FlashInv, ResetInv, Smooth
<1>7. PromiseInv'
  BY <1>1, <1>5 DEF FlashInv, PromiseInv, ToSet
<1>8. SendingInv'
  <2>1. NoReset(<<>>)
    BY DEF NoReset
  <2>2. NoReset(pipe) => NoReset(pipe')
    BY <1>3, <2>1
  <2> QED
    BY <1>1, <1>3, <2>2 DEF FlashInv, SendingInv, NoReset
<1> QED
  BY <1>1, <1>4, <1>6, <1>7, <1>8 DEF FlashInv

\* The tool outside of its sessions: it only ever clears the board's files.
LEMMA ToolInv ==
  ASSUME FlashInv,
         \/ List \/ CheckForAny \/ CheckForCoralMicro \/ ResetToSdp \/ CheckForSdp
         \/ LoadFlashloader \/ CheckForFlashloader \/ Program \/ CheckForElfloader
         \/ (OpenHid /\ hid' = hid) \/ RunTool \/ Interrupt
  PROVE  FlashInv'
PROOF
<1> DEFINE Files == [Paths -> {"none", "empty", "partial", "old", "new"}]
<1>1. /\ FlashTypes /\ (tool # "done" => promised = {}) /\ NoFiles \in Files
      /\ (tool \notin Sessions => hid = "closed") /\ <<>> \in Seq(Reports) /\ Len(<<>>) <= 1
      /\ <<Report("reset_to_bootloader", "none")>> \in Seq(Reports)
      /\ current \in Nat \ {0} /\ 1 \in Nat \ {0}
  <2>1. Report("reset_to_bootloader", "none") \in Reports
    BY DEF Report, Reports, Resets
  <2>2. NoFiles \in Files
    BY DEF NoFiles
  <2> QED
    BY <2>1, <2>2 DEF FlashInv, FlashTypes, PromiseInv
<1>2. fs \in Files
  BY <1>1 DEF FlashTypes
<1> HIDE DEF Files
<1>3. ASSUME fs' \in Files, todo' \in Seq(Reports), pipe' = pipe \/ pipe' = <<>>,
             disturbed' \in BOOLEAN, failed' \in BOOLEAN, promised' = {},
             hid' = "closed", current' \in Nat \ {0},
             tool' \in {"idle", "error"} \/ current' = 1,
             tool' \notin {"ProgramDataFiles", "ResetToFlash", "ProgramElfloader"}
      PROVE  FlashInv'
  <2>1. pipe' \in Seq(Reports) /\ Len(pipe') <= 1
    BY <1>1, <1>3 DEF FlashTypes
  <2>2. FlashTypes'
    BY <1>1, <1>3, <2>1 DEF FlashTypes, Files
  <2> QED
    BY <1>3, <2>2, Elsewhere
<1>4. disturbed \in BOOLEAN /\ failed \in BOOLEAN /\ todo \in Seq(Reports)
  BY <1>1 DEF FlashTypes
<1>5. tool \notin {"ProgramDataFiles", "ResetToFlash", "idle", "error", "done"} => current = 1
  BY <1>1 DEF FlashTypes
<1>6. CASE RunTool
  <2>1. fs' = [p \in Paths |-> IF fs[p] = "new" THEN "old" ELSE fs[p]]
    BY <1>6 DEF RunTool
  <2>2. fs' \in Files
    BY <1>2, <2>1 DEF Files
  <2>3. /\ todo' = <<>> /\ current' = 1 /\ pipe' = pipe /\ hid' = hid /\ promised' = {}
        /\ disturbed' = FALSE /\ failed' = FALSE /\ tool' \in {"CheckForSdp", "CheckForFlashloader", "List"}
        /\ tool \notin Sessions
    BY <1>6 DEF RunTool, FirstState, Sessions
  <2> QED
    BY <1>1, <1>3, <2>2, <2>3
<1>7. CASE Interrupt
  <2>1. /\ fs' = fs /\ todo' = <<>> /\ pipe' = pipe /\ hid' = "closed" /\ promised' = promised
        /\ disturbed' = disturbed /\ failed' = failed /\ tool' = "idle" /\ tool # "done" /\ current' = current
    BY <1>7 DEF Interrupt, board
  <2> QED
    BY <1>1, <1>2, <1>3, <1>4, <2>1
<1>8. CASE OpenHid /\ hid' = hid
  <2>1. /\ fs' = fs /\ todo' = <<>> /\ pipe' = pipe /\ hid' = "closed" /\ promised' = promised
        /\ disturbed' = disturbed /\ failed' = failed /\ tool' = "error" /\ tool # "done" /\ current' = current
    BY <1>8 DEF OpenHid, InSession, Sessions, Raise, Goto, board
  <2> QED
    BY <1>1, <1>2, <1>3, <1>4, <2>1
<1>9. CASE \/ List \/ CheckForAny \/ CheckForCoralMicro \/ ResetToSdp \/ CheckForSdp
           \/ LoadFlashloader \/ CheckForFlashloader \/ Program \/ CheckForElfloader
  <2>1. /\ tool \notin Sessions \cup {"idle", "error", "done"} /\ promised' = promised
        /\ disturbed' = disturbed /\ current' = current
    BY <1>9 DEF List, CheckForAny, CheckForCoralMicro, ResetToSdp, CheckForSdp,
       LoadFlashloader, CheckForFlashloader, Program, CheckForElfloader, Fail, Raise, Goto, Sessions
  <2>2. (fs' = fs \/ fs' = NoFiles) /\ failed' = failed
    BY <1>9 DEF List, CheckForAny, CheckForCoralMicro, ResetToSdp, CheckForSdp,
       LoadFlashloader, CheckForFlashloader, Program, CheckForElfloader, board, StartRom
  <2>3. todo' = todo \/ todo' = <<>> \/ todo' = <<Report("reset_to_bootloader", "none")>>
    BY <1>9 DEF List, CheckForAny, CheckForCoralMicro, ResetToSdp, CheckForSdp,
       LoadFlashloader, CheckForFlashloader, Program, CheckForElfloader, Fail, Raise
  <2>4. hid' = hid /\ (pipe' = pipe \/ pipe' = <<>>)
    <3>1. hid # "open"
      BY <1>1, <2>1
    <3> QED
      BY <1>9, <3>1 DEF List, CheckForAny, CheckForCoralMicro, ResetToSdp, CheckForSdp,
         LoadFlashloader, CheckForFlashloader, Program, CheckForElfloader, board, StartRom, LeaveBus
  <2>5. tool' \notin {"ProgramDataFiles", "ResetToFlash", "ProgramElfloader"}
    BY <1>9 DEF List, CheckForAny, CheckForCoralMicro, ResetToSdp, CheckForSdp,
       LoadFlashloader, CheckForFlashloader, Program, CheckForElfloader, Fail, Raise, Goto
  <2>6. hid' = "closed" /\ promised' = {} /\ current' = 1
    BY <1>1, <1>5, <2>1, <2>4 DEF Sessions
  <2> QED
    BY <1>1, <1>2, <1>3, <1>4, <2>1, <2>2, <2>3, <2>4, <2>5, <2>6
<1> QED
  BY <1>6, <1>7, <1>8, <1>9

\* The power is cut: a run that goes on is disturbed, and otherwise what was flashed boots.
LEMMA PowerInv ==
  ASSUME FlashInv, PowerCycle
  PROVE  FlashInv'
PROOF
<1>1. /\ PowerOn /\ UNCHANGED <<fs, tool, opts, todo, current, promised>>
      /\ disturbed' = (tool \notin {"idle", "error", "done"})
      /\ FilesToWrite' = FilesToWrite
  BY FilesStay DEF PowerCycle
<1>2. pipe' = <<>> /\ hid' = (IF hid = "open" THEN "lost" ELSE hid) /\ failed' = failed
  BY <1>1 DEF PowerOn, StartElfloader, StartRom, LeaveBus
<1>3. FlashTypes'
  <2>1. <<>> \in Seq(Reports) /\ Len(<<>>) <= 1
    OBVIOUS
  <2>2. disturbed' \in BOOLEAN
    BY <1>1
  <2>3. pipe' \in Seq(Reports) /\ Len(pipe') <= 1
    BY <1>2, <2>1
  <2>4. hid' \in {"closed", "open", "lost"} /\ (hid' # "closed" => tool' \in Sessions)
    BY <1>1, <1>2 DEF FlashInv, FlashTypes
  <2> QED
    BY <1>1, <1>2, <2>2, <2>3, <2>4 DEF FlashInv, FlashTypes
<1>4. ProgramInv' /\ ResetInv' /\ SendingInv'
  BY <1>1 DEF ProgramInv, ResetInv, SendingInv, Smooth
<1>5. PromiseInv'
  <2>1. promised' # {} => tool' = "done"
    BY <1>1 DEF FlashInv, PromiseInv
  <2>2. SUFFICES ASSUME promised # {}, ~failed
                 PROVE  promised' = ToSet(FilesToWrite)' /\ Complete'
    BY <1>1, <1>2, <2>1 DEF PromiseInv
  <2>3. promised = ToSet(FilesToWrite) /\ Flashed(Len(FilesToWrite))
    BY <2>2 DEF FlashInv, PromiseInv, Complete
  <2>4. Booting' /\ Flashed(Len(FilesToWrite))'
    BY <1>1, <2>3, PowerOnBoots DEF Flashed
  <2> QED
    BY <1>1, <1>2, <2>3, <2>4 DEF Complete, ToSet
<1> QED
  BY <1>3, <1>4, <1>5 DEF FlashInv

\* An image for the RAM, sent without a reset.
LEMMA ImageIs ==
  ASSUME NEW p \in Paths
  PROVE  TransferData("ram", p, Packets) \in Seq(Reports) /\ NoReset(TransferData("ram", p, Packets))
PROOF
<1> DEFINE t == TransferData("ram", p, Packets)
<1>1. Packets \in Nat
  BY FlashingAssumption
<1>2. /\ Report("target", "ram") \in Reports /\ Report("setsize", p) \in Reports
      /\ Report("bytes", p) \in Reports /\ Report("done", p) \in Reports
  BY DEF Report, Reports
<1>3. /\ t \in Seq(Reports) /\ Len(t) = Packets + 3
      /\ t[1] = Report("target", "ram") /\ t[2] = Report("setsize", p)
      /\ \A j \in 1..Packets : t[2 + j] = Report("bytes", p)
      /\ t[Packets + 3] = Report("done", p)
  BY <1>1, <1>2, TransferDataIs
<1> HIDE DEF t
<1>4. ASSUME NEW j \in 1..Len(t) PROVE t[j].cmd \notin Resets
  <2>1. CASE j \in {1, 2, Packets + 3}
    BY <1>3, <2>1 DEF Report, Resets
  <2>2. CASE j \in 3..(Packets + 2)
    <3>1. j - 2 \in 1..Packets /\ 2 + (j - 2) = j
      BY <1>1, <2>2
    <3>2. PICK i \in 1..Packets : 2 + i = j
      BY <3>1
    <3> QED
      BY <1>3, <3>2 DEF Report, Resets
  <2> QED
    BY <1>1, <1>3, <2>1, <2>2
<1> QED
  BY <1>3, <1>4 DEF NoReset, t

\* The elf_loader is started in the RAM, told to wait, and has the files before it.
LEMMA LoadInv ==
  ASSUME FlashInv, LoadElfloader
  PROVE  FlashInv'
PROOF
<1>1. /\ FlashTypes /\ tool = "LoadElfloader" /\ promised = {} /\ hid = "closed" /\ current = 1
      /\ todo \in Seq(Reports) /\ <<>> \in Seq(Reports) /\ Len(<<>>) <= 1
  BY DEF FlashInv, FlashTypes, PromiseInv, LoadElfloader, Sessions
<1>2. CASE ~Sees("flashloader")
  <2>1. /\ UNCHANGED <<fs, pipe, hid, promised, disturbed, failed, current>> /\ todo' = <<>>
        /\ tool' = "error"
    BY <1>2 DEF LoadElfloader, Raise, Goto, board
  <2>2. FlashTypes'
    BY <1>1, <2>1 DEF FlashTypes
  <2> QED
    BY <1>1, <2>1, <2>2, Elsewhere
<1>3. CASE Sees("flashloader")
  <2>1. /\ fs' = fs /\ mode' = "elfloader" /\ timer' = FALSE /\ loader' = "none"
        /\ pipe' = <<>> /\ hid' = "closed" /\ mounted' = TRUE /\ failed' = failed
        /\ AfterElfloader
    BY <1>1, <1>3 DEF LoadElfloader, WriteFlag, StartElfloader, LeaveBus
  <2>2. UNCHANGED <<opts, current, promised, disturbed>>
    BY <2>1 DEF AfterElfloader, Goto
  <2>3. ASSUME todo' \in Seq(Reports) PROVE FlashTypes'
    BY <1>1, <2>1, <2>2, <2>3 DEF FlashTypes
  <2>4. CASE prelude
    <3>1. tool' = "List" /\ todo' = todo
      BY <2>1, <2>4 DEF AfterElfloader, Goto
    <3> QED
      BY <1>1, <2>2, <2>3, <3>1, Elsewhere
  <2>5. CASE ~prelude /\ opts.ram
    <3>1. tool' = "ProgramElfloader" /\ todo' = TransferData("ram", elf, Packets)
      BY <2>1, <2>5 DEF AfterElfloader, Goto
    <3>2. PICK p \in Paths : p = elf
      BY DEF Paths
    <3>3. /\ TransferData("ram", p, Packets) \in Seq(Reports)
          /\ NoReset(TransferData("ram", p, Packets))
      BY ImageIs
    <3>6. FlashTypes' /\ SendingInv'
      <4>1. NoReset(<<>>)
        BY DEF NoReset
      <4>2. NoReset(todo') /\ NoReset(pipe')
        BY <2>1, <3>1, <3>2, <3>3, <4>1
      <4>3. NoReset(todo)' /\ NoReset(pipe)'
        BY <4>2 DEF NoReset
      <4> QED
        BY <2>1, <2>3, <3>1, <3>2, <3>3, <4>3 DEF SendingInv
    <3> QED
      BY <1>1, <2>2, <3>1, <3>6 DEF FlashInv, ProgramInv, ResetInv, PromiseInv
  <2>6. CASE ~prelude /\ ~opts.ram
    <3> DEFINE pre == IF Erases THEN <<Format>> ELSE <<>>
    <3>1. PICK p \in Paths : p = FilesToWrite[current]
      BY <1>1, FilesAre
    <3> DEFINE t == TransferFile(p)
    <3>2. tool' = "ProgramDataFiles" /\ todo' = pre \o t
      BY <2>1, <2>6, <3>1 DEF AfterElfloader, Goto, Format
    <3>3. /\ FileLength \in Nat /\ FileLength >= 8 /\ t \in Seq(Reports) /\ Len(t) = FileLength
          /\ \A j \in 1..FileLength : t[j] = FileReport(p, j)
      BY TransferFileIs
    <3>4. /\ pre \in Seq(Reports) /\ Len(pre) \in {0, 1}
          /\ \A j \in 1..Len(pre) : pre[j] = Format
      <4>1. Format \in Reports
        BY DEF Format, Report, Reports
      <4>2. /\ <<Format>> \in Seq(Reports) /\ Len(<<Format>>) = 1 /\ <<Format>>[1] = Format
            /\ <<>> \in Seq(Reports) /\ Len(<<>>) = 0
        BY <4>1
      <4> QED
        BY <4>2
    <3> HIDE DEF pre, t
    <3>5. /\ todo' \in Seq(Reports) /\ Len(todo') = Len(pre) + FileLength
          /\ \A j \in 1..Len(pre) : todo'[j] = Format
          /\ \A j \in 1..FileLength : todo'[Len(pre) + j] = FileReport(p, j)
      <4>1. /\ pre \o t \in Seq(Reports) /\ Len(pre \o t) = Len(pre) + Len(t)
            /\ \A j \in 1..Len(pre) : (pre \o t)[j] = pre[j]
            /\ \A j \in 1..Len(t) : (pre \o t)[Len(pre) + j] = t[j]
        BY <3>3, <3>4, ConcatIs
      <4> QED
        BY <3>2, <3>3, <3>4, <4>1
    <3>6. PICK n \in {0, 1} : n = Len(pre)
      BY <3>4
    <3>7. Written' = 0 - n /\ Len(todo') = n + FileLength
      BY <3>3, <3>5, <3>6 DEF Written, FileLength
    <3>8. \A j \in 1..Len(todo') :
            todo'[j] = IF 0 - n + j = 0 THEN Format ELSE FileReport(p, 0 - n + j)
      <4> SUFFICES ASSUME NEW j \in 1..Len(todo')
                   PROVE  todo'[j] = IF 0 - n + j = 0 THEN Format ELSE FileReport(p, 0 - n + j)
        OBVIOUS
      <4>1. CASE 0 - n + j = 0
        BY <3>5, <3>6, <4>1
      <4>2. CASE 0 - n + j # 0
        <5>1. PICK i \in 1..FileLength : i = 0 - n + j
          <6>1. 0 - n + j \in 1..FileLength
            BY <3>3, <3>7, <4>2
          <6> QED
            BY <6>1
        <5>2. n + i = j
          BY <5>1
        <5> QED
          BY <3>5, <3>6, <4>2, <5>1, <5>2
      <4> QED
        BY <4>1, <4>2
    <3>9. FilesToWrite' = FilesToWrite /\ Len(FilesToWrite) \in Nat /\ Len(FilesToWrite) >= 1
      BY <2>2, FilesStay, FilesAre
    <3>10. FilesToWrite'[current'] = p /\ current' = 1
      BY <1>1, <2>2, <3>1, <3>9
    <3>11. Progress'
      BY <1>1, <2>1, <3>3, <3>7, <3>10 DEF Progress, Flashed, BoardAt
    <3>12. Waiting'
      BY <2>1 DEF Waiting
    <3>14. SendingInv'
      <4>1. \A j \in 1..Len(todo') : todo'[j].cmd \notin Resets
        <5> SUFFICES ASSUME NEW j \in 1..Len(todo') PROVE todo'[j].cmd \notin Resets
          OBVIOUS
        <5>1. CASE 0 - n + j = 0
          BY <3>8, <5>1 DEF Format, Report, Resets
        <5>2. CASE 0 - n + j # 0
          <6>1. PICK i \in 1..FileLength : i = 0 - n + j
            <7>1. 0 - n + j \in 1..FileLength
              BY <3>3, <3>7, <5>2
            <7> QED
              BY <7>1
          <6>2. todo'[j] = FileReport(p, i)
            BY <3>8, <5>2, <6>1
          <6> QED
            BY <6>2, FileReportIs DEF Resets
        <5> QED
          BY <5>1, <5>2
      <4>2. NoReset(todo)' /\ NoReset(pipe)'
        BY <2>1, <4>1 DEF NoReset
      <4> QED
        BY <2>1, <4>2 DEF SendingInv
    <3>13. ProgramInv'
      <4>1. todo' # <<>>
        BY <3>3, <3>6, <3>7
      <4>2. current' \in 1..Len(FilesToWrite') /\ Len(todo') <= FileLength + 1
        BY <3>3, <3>7, <3>9, <3>10
      <4>3. \A j \in 1..Len(todo') :
              todo'[j] = IF Written' + j = 0 THEN Format
                         ELSE FileReport(FilesToWrite'[current'], Written' + j)
        BY <3>7, <3>8, <3>10
      <4> QED
        BY <2>1, <3>10, <3>11, <3>12, <4>1, <4>2, <4>3 DEF ProgramInv, FileLength, Format, FileReport
    <3> QED
      BY <1>1, <2>2, <2>3, <3>2, <3>5, <3>13, <3>14 DEF FlashInv, ResetInv, PromiseInv
  <2> QED
    BY <2>4, <2>5, <2>6
<1> QED
  BY <1>2, <1>3

\* The device is opened; the board does not notice.
LEMMA OpenInv ==
  ASSUME FlashInv, OpenHid, hid' # hid
  PROVE  FlashInv'
PROOF
<1>1. /\ hid' = "open" /\ tool \in Sessions
      /\ UNCHANGED <<board, tool, opts, todo, current, promised, disturbed>>
  BY DEF OpenHid, InSession
<1>2. /\ UNCHANGED <<mode, app, fs, timer, loader, target, path, handle, got, pipe, mounted, failed>>
      /\ FilesToWrite' = FilesToWrite /\ Written' = Written
  BY <1>1, FilesStay DEF board, Written
<1>3. FlashTypes'
  BY <1>1, <1>2 DEF FlashInv, FlashTypes
<1>4. ProgramInv' /\ ResetInv'
  BY <1>1, <1>2 DEF FlashInv, ProgramInv, ResetInv, Smooth, Progress, AllSent, Complete, Booting,
                    Waiting, BoardAt, Flashed, ToSet
<1>5. PromiseInv' /\ SendingInv'
  BY <1>1, <1>2 DEF FlashInv, PromiseInv, SendingInv, NoReset, Sessions
<1> QED
  BY <1>3, <1>4, <1>5 DEF FlashInv

\* The tool writes the next report of a file, or goes on to the next file.
LEMMA NextIs ==
  ASSUME FlashTypes, todo # <<>>, opts' = opts, NextReports
  PROVE  /\ todo' \in Seq(Reports) /\ current' \in Nat \ {0} /\ Head(todo) = todo[1]
         /\ todo[1] \in Reports /\ Len(todo) \in Nat /\ Len(todo) >= 1
         /\ tool # "ProgramDataFiles" \/ Len(todo) # 1 \/ ~(current < Len(FilesToWrite)) =>
              /\ current' = current /\ Len(todo') = Len(todo) - 1
              /\ \A j \in 1..Len(todo') : todo'[j] = todo[j + 1]
         /\ tool = "ProgramDataFiles" /\ Len(todo) = 1 /\ current < Len(FilesToWrite) =>
              /\ current' = current + 1 /\ Len(todo') = FileLength
              /\ \A j \in 1..FileLength : todo'[j] = FileReport(FilesToWrite[current'], j)
PROOF
<1>1. todo \in Seq(Reports) /\ current \in Nat \ {0}
  BY DEF FlashTypes
<1>2. /\ Head(todo) = todo[1] /\ Tail(todo) \in Seq(Reports) /\ Len(Tail(todo)) = Len(todo) - 1
      /\ \A j \in 1..Len(Tail(todo)) : Tail(todo)[j] = todo[j + 1]
  BY <1>1, HeadTailProperties
<1>3. Len(todo) \in Nat /\ Len(todo) >= 1 /\ todo[1] \in Reports
  <2>1. Len(todo) # 0
    BY <1>1, EmptySeq
  <2>2. PICK n \in Nat : n = Len(todo)
    BY <1>1, LenProperties
  <2>3. n >= 1
    BY <2>1, <2>2
  <2> QED
    BY <1>1, <2>2, <2>3
<1>4. CASE tool = "ProgramDataFiles" /\ Len(todo) = 1 /\ current < Len(FilesToWrite)
  <2>1. current' = current + 1 /\ todo' = TransferFile(FilesToWrite[current + 1])
    BY <1>4 DEF NextReports
  <2>2. PICK p \in Paths : p = FilesToWrite[current + 1]
    <3>1. Len(FilesToWrite) \in Nat /\ \A i \in 1..Len(FilesToWrite) : FilesToWrite[i] \in Paths
      BY FilesAre
    <3>2. current + 1 \in 1..Len(FilesToWrite)
      BY <1>1, <1>4, <3>1
    <3> QED
      BY <3>1, <3>2
  <2>3. /\ todo' \in Seq(Reports) /\ Len(todo') = FileLength
        /\ \A j \in 1..FileLength : todo'[j] = FileReport(p, j)
    <3>1. /\ TransferFile(p) \in Seq(Reports) /\ Len(TransferFile(p)) = FileLength
          /\ \A j \in 1..FileLength : TransferFile(p)[j] = FileReport(p, j)
      BY TransferFileIs
    <3> QED
      BY <2>1, <2>2, <3>1
  <2>4. FilesToWrite[current'] = p /\ current' \in Nat \ {0}
    BY <1>1, <2>1, <2>2
  <2> QED
    BY <1>2, <1>3, <1>4, <2>1, <2>3, <2>4
<1>5. CASE ~(tool = "ProgramDataFiles" /\ Len(todo) = 1 /\ current < Len(FilesToWrite))
  <2>1. todo' = Tail(todo) /\ current' = current
    BY <1>5 DEF NextReports
  <2> QED
    BY <1>1, <1>2, <1>3, <1>5, <2>1
<1> QED
  BY <1>4, <1>5

\* A report is handed to the board, or lost with it.
LEMMA WriteInv ==
  ASSUME FlashInv, HidWrite
  PROVE  FlashInv'
PROOF
<1>1. /\ FlashTypes /\ hid # "closed" /\ tool \in Sessions /\ promised = {}
      /\ UNCHANGED <<mode, app, fs, timer, loader, target, path, handle, got, tool, opts, hid,
                     promised, disturbed, mounted, failed>>
      /\ FilesToWrite' = FilesToWrite /\ todo # <<>> /\ NextReports
      /\ hid = "open" => pipe = <<>> /\ pipe' = <<Head(todo)>>
      /\ hid # "open" => pipe' = pipe
  BY FilesStay DEF FlashInv, PromiseInv, HidWrite, InSession, Accepts, Sessions
<1>2. /\ todo' \in Seq(Reports) /\ current' \in Nat \ {0} /\ Head(todo) = todo[1]
      /\ todo[1] \in Reports /\ Len(todo) \in Nat /\ Len(todo) >= 1
      /\ tool # "ProgramDataFiles" \/ Len(todo) # 1 \/ ~(current < Len(FilesToWrite)) =>
           /\ current' = current /\ Len(todo') = Len(todo) - 1
           /\ \A j \in 1..Len(todo') : todo'[j] = todo[j + 1]
      /\ tool = "ProgramDataFiles" /\ Len(todo) = 1 /\ current < Len(FilesToWrite) =>
           /\ current' = current + 1 /\ Len(todo') = FileLength
           /\ \A j \in 1..FileLength : todo'[j] = FileReport(FilesToWrite[current'], j)
  BY <1>1, NextIs
<1>3. FlashTypes'
  <2>1. <<todo[1]>> \in Seq(Reports) /\ Len(<<todo[1]>>) <= 1
    BY <1>2
  <2>2. pipe' \in Seq(Reports) /\ Len(pipe') <= 1
    BY <1>1, <1>2, <2>1 DEF FlashTypes
  <2>3. tool \notin {"ProgramDataFiles", "ResetToFlash", "idle", "error", "done"} => current' = 1
    BY <1>1, <1>2 DEF FlashTypes
  <2> QED
    BY <1>1, <1>2, <2>2, <2>3 DEF FlashTypes
<1>4. ProgramInv'
  <2>1. SUFFICES ASSUME tool = "ProgramDataFiles", Smooth PROVE ProgramInv'
    BY <1>1 DEF ProgramInv, Smooth
  <2>2. /\ Waiting /\ hid # "lost" /\ current \in 1..Len(FilesToWrite)
        /\ Len(todo) <= FileLength + 1 /\ (Len(todo) = FileLength + 1 => current = 1)
        /\ \A j \in 1..Len(todo) :
             todo[j] = IF Written + j = 0 THEN Format
                       ELSE FileReport(FilesToWrite[current], Written + j)
        /\ Progress
    BY <2>1 DEF FlashInv, ProgramInv
  <2>3. /\ pipe = <<>> /\ pipe' = <<todo[1]>> /\ hid' # "lost" /\ Waiting'
    BY <1>1, <1>2, <2>2 DEF FlashTypes, Waiting
  <2>4. /\ Flashed(current - 1) /\ BoardAt(FilesToWrite[current], Written)
    BY <2>2, <2>3 DEF Progress
  <2>5. /\ FileLength \in Nat /\ FileLength >= 8 /\ Len(FilesToWrite) \in Nat
    BY FilesAre, FlashingAssumption DEF FileLength
  <2>6. PICK w \in Int : w = Written /\ w = FileLength - Len(todo)
    <3>1. FileLength - Len(todo) \in Int
      BY <1>2, <2>5
    <3> QED
      BY <3>1 DEF Written
  <2>7. todo[1] = IF w + 1 = 0 THEN Format ELSE FileReport(FilesToWrite[current], w + 1)
    BY <1>2, <2>2, <2>6
  <2>8. FileLength' = FileLength /\ Written' = FileLength - Len(todo')
    BY DEF FileLength, Written
  <2>9. CASE Len(todo) = 1 /\ current < Len(FilesToWrite)
    <3>1. /\ current' = current + 1 /\ Len(todo') = FileLength
          /\ \A j \in 1..FileLength : todo'[j] = FileReport(FilesToWrite[current'], j)
      BY <1>2, <2>1, <2>9
    <3>2. w + 1 = FileLength /\ Written' = 0 /\ Written = FileLength - 1
      BY <2>5, <2>6, <2>8, <2>9, <3>1
    <3>3. pipe' = <<FileReport(FilesToWrite[current], FileLength)>>
      BY <2>3, <2>5, <2>7, <3>2
    <3>4. current' > 1 /\ current' - 1 = current /\ current' - 2 = current - 1
          /\ current' \in 1..Len(FilesToWrite)
      BY <2>2, <2>5, <2>9, <3>1
    <3>5. Progress'
      <4>1. Flashed(current - 2)'
        BY <1>1, <2>4, <3>4 DEF Flashed
      <4>2. BoardAt(FilesToWrite[current], FileLength - 1)
        BY <2>4, <3>2
      <4> QED
        BY <1>1, <2>8, <3>2, <3>3, <3>4, <4>1, <4>2 DEF Progress, BoardAt, Flashed, FileReport
    <3>6. todo' # <<>> /\ Len(todo') # FileLength + 1
      BY <2>5, <3>1
    <3>7. \A j \in 1..Len(todo') :
            todo'[j] = IF Written' + j = 0 THEN Format
                       ELSE FileReport(FilesToWrite'[current'], Written' + j)
      BY <1>1, <2>5, <3>1, <3>2
    <3> QED
      BY <1>1, <2>3, <2>5, <2>8, <3>1, <3>4, <3>5, <3>6, <3>7 DEF ProgramInv, Format, FileReport
  <2>10. CASE ~(Len(todo) = 1 /\ current < Len(FilesToWrite))
    <3>1. /\ current' = current /\ Len(todo') = Len(todo) - 1
          /\ \A j \in 1..Len(todo') : todo'[j] = todo[j + 1]
      BY <1>2, <2>10
    <3>2. Written' = w + 1 /\ Len(todo') <= FileLength
      BY <1>2, <2>2, <2>5, <2>6, <2>8, <3>1
    <3>3. todo' = <<>> => current = Len(FilesToWrite)
      <4>1. todo' = <<>> => Len(todo) = 1
        BY <1>2, <3>1
      <4> QED
        BY <2>2, <2>5, <2>10, <4>1
    <3>4. \A j \in 1..Len(todo') :
            todo'[j] = IF Written' + j = 0 THEN Format
                       ELSE FileReport(FilesToWrite'[current'], Written' + j)
      <4> SUFFICES ASSUME NEW j \in 1..Len(todo')
                   PROVE  todo'[j] = IF Written' + j = 0 THEN Format
                                     ELSE FileReport(FilesToWrite'[current'], Written' + j)
        OBVIOUS
      <4>1. PICK i \in 1..Len(todo) : i = j + 1
        BY <1>2, <3>1
      <4>2. todo'[j] = todo[i]
        BY <3>1, <4>1
      <4>3. Written + i = Written' + j
        BY <2>6, <3>2, <4>1
      <4> QED
        BY <1>1, <2>2, <3>1, <4>2, <4>3
    <3>5. Progress'
      <4>1. CASE w + 1 = 0
        <5>1. Written' = 0 /\ current' = 1 /\ pipe' = <<Format>>
          <6>1. Len(todo) = FileLength + 1 /\ Written' = 0
            BY <1>2, <2>5, <2>6, <3>2, <4>1
          <6>2. current' = 1
            BY <2>2, <3>1, <6>1
          <6>3. todo[1] = Format
            BY <2>7, <4>1
          <6> QED
            BY <2>3, <6>1, <6>2, <6>3
        <5> QED
          BY <5>1 DEF Progress, Format
      <4>2. CASE w + 1 # 0
        <5>1. w >= 0
          BY <1>2, <2>2, <2>5, <2>6, <4>2
        <5>2. /\ Written' >= 1 /\ Written' - 1 = Written
              /\ pipe' = <<FileReport(FilesToWrite[current], Written')>>
          BY <2>3, <2>6, <2>7, <3>2, <4>2, <5>1
        <5>3. Flashed(current - 1)' /\ BoardAt(FilesToWrite[current], Written' - 1)
          BY <1>1, <2>4, <3>1, <5>2 DEF Flashed
        <5> QED
          BY <1>1, <2>8, <3>1, <5>2, <5>3 DEF Progress, BoardAt, Flashed, FileReport
      <4> QED
        BY <4>1, <4>2
    <3>6. Len(todo') # FileLength + 1
      BY <1>2, <2>5, <3>1, <3>2
    <3> QED
      BY <1>1, <2>2, <2>3, <2>5, <2>8, <3>1, <3>2, <3>3, <3>4, <3>5, <3>6
      DEF ProgramInv, Format, FileReport
  <2> QED
    BY <2>9, <2>10
<1>5. ResetInv'
  <2>1. SUFFICES ASSUME tool = "ResetToFlash", Smooth PROVE todo' = <<>> /\ Complete'
    BY <1>1 DEF ResetInv, Smooth
  <2>2. AllSent
    BY <1>1, <2>1 DEF FlashInv, ResetInv
  <2>3. /\ Waiting /\ todo = <<ResetReport>> /\ pipe = <<>> /\ Flashed(Len(FilesToWrite))
        /\ pipe' = <<todo[1]>>
    <3>1. Waiting /\ hid # "lost" /\ todo = <<ResetReport>>
      BY <2>2 DEF AllSent
    <3>2. hid = "open"
      BY <1>1, <3>1 DEF FlashTypes
    <3>3. pipe = <<>> /\ pipe' = <<todo[1]>>
      BY <1>1, <1>2, <3>2
    <3> QED
      BY <2>2, <3>1, <3>3 DEF AllSent
  <2>4. pipe' = <<ResetReport>> /\ Len(todo) = 1
    BY <2>3
  <2>5. Len(todo') = 0
    BY <1>2, <2>1, <2>4
  <2>6. todo' = <<>>
    BY <1>2, <2>5, EmptySeq
  <2> QED
    BY <1>1, <2>3, <2>4, <2>6 DEF Complete, Waiting, Flashed, ResetReport
<1>6. PromiseInv'
  BY <1>1 DEF PromiseInv
<1>7. SendingInv'
  <2>1. SUFFICES ASSUME tool \in {"ProgramElfloader", "ProgramDataFiles"}, ~disturbed
                 PROVE  SendingInv'
    BY <1>1 DEF SendingInv
  <2>2. ~timer /\ loader # "flash" /\ NoReset(todo) /\ NoReset(pipe)
    BY <2>1 DEF FlashInv, SendingInv
  <2>3. NoReset(todo')
    <3>1. CASE tool = "ProgramDataFiles" /\ Len(todo) = 1 /\ current < Len(FilesToWrite)
      <4>1. /\ Len(todo') = FileLength
            /\ \A j \in 1..FileLength : todo'[j] = FileReport(FilesToWrite[current'], j)
        BY <1>2, <3>1
      <4>2. \A j \in 1..FileLength : todo'[j].cmd \notin Resets
        BY <4>1, FileReportIs DEF Resets
      <4> QED
        BY <4>1, <4>2 DEF NoReset
    <3>2. CASE ~(tool = "ProgramDataFiles" /\ Len(todo) = 1 /\ current < Len(FilesToWrite))
      <4>1. Len(todo') = Len(todo) - 1 /\ \A j \in 1..Len(todo') : todo'[j] = todo[j + 1]
        BY <1>2, <3>2
      <4>2. ASSUME NEW j \in 1..Len(todo') PROVE todo'[j].cmd \notin Resets
        <5>1. PICK i \in 1..Len(todo) : i = j + 1
          BY <1>2, <4>1
        <5> QED
          BY <2>2, <4>1, <5>1 DEF NoReset
      <4> QED
        BY <4>2 DEF NoReset
    <3> QED
      BY <3>1, <3>2
  <2>4. NoReset(todo)'
    BY <2>3 DEF NoReset
  <2>5. NoReset(pipe)'
    <3>1. todo[1].cmd \notin Resets
      BY <1>2, <2>2 DEF NoReset
    <3>2. NoReset(<<todo[1]>>)
      BY <3>1 DEF NoReset
    <3>3. NoReset(pipe')
      BY <1>1, <1>2, <2>2, <3>2
    <3> QED
      BY <3>3 DEF NoReset
  <2> QED
    BY <1>1, <2>2, <2>4, <2>5 DEF SendingInv
<1> QED
  BY <1>3, <1>4, <1>5, <1>6, <1>7 DEF FlashInv

\* The last report of a session has been written.
LEMMA EndInv ==
  ASSUME FlashInv, EndSession
  PROVE  FlashInv'
PROOF
<1>1. /\ FlashTypes /\ tool \in Sessions /\ todo = <<>> /\ hid' = "closed" /\ promised = {}
      /\ UNCHANGED <<mode, app, fs, timer, loader, target, path, handle, got, pipe, opts, current,
                     disturbed, mounted, failed>>
      /\ FilesToWrite' = FilesToWrite
      /\ promised' = IF tool = "ResetToFlash" /\ ~disturbed THEN ToSet(FilesToWrite) ELSE {}
      /\ tool = "ResetElfloader" => tool' = "CheckForSdp" /\ todo' = <<>>
      /\ tool = "ProgramDataFiles" /\ opts.reset =>
           tool' = "ResetToFlash" /\ todo' = <<ResetReport>>
      /\ tool # "ResetElfloader" /\ ~(tool = "ProgramDataFiles" /\ opts.reset) =>
           tool' = "done" /\ todo' = <<>>
  BY FilesStay DEF FlashInv, PromiseInv, EndSession, Sessions, board, ResetReport
<1>2. FlashTypes'
  <2>1. ResetReport \in Reports
    BY DEF ResetReport, Report, Reports, Resets
  <2>2. <<ResetReport>> \in Seq(Reports) /\ <<>> \in Seq(Reports)
    BY <2>1
  <2> QED
    BY <1>1, <2>2 DEF FlashTypes
<1>3. CASE tool \in {"ResetElfloader", "ProgramElfloader"}
  BY <1>1, <1>2, <1>3, Elsewhere
<1>4. CASE tool = "ProgramDataFiles" /\ ~opts.reset
  BY <1>1, <1>2, <1>4, Elsewhere
<1>5. CASE tool = "ProgramDataFiles" /\ opts.reset
  <2>1. Smooth => AllSent'
    <3>1. SUFFICES ASSUME Smooth PROVE AllSent'
      OBVIOUS
    <3>2. PICK n \in Nat : n = Len(FilesToWrite) /\ n >= 1
      BY FilesAre
    <3>3. Waiting /\ current = n /\ Progress /\ Written = FileLength
      BY <1>1, <1>5, <3>1, <3>2, FlashingAssumption
      DEF FlashInv, ProgramInv, Written, FileLength
    <3>4. FileLength \in Nat /\ FileLength >= 8 /\ FileLength' = FileLength
      BY FlashingAssumption DEF FileLength
    <3>5. /\ Flashed(n - 1)
          /\ \/ pipe = <<>> /\ BoardAt(FilesToWrite[n], FileLength)
             \/ /\ pipe = <<FileReport(FilesToWrite[n], FileLength)>>
                /\ BoardAt(FilesToWrite[n], FileLength - 1)
      BY <3>3, <3>4 DEF Progress
    <3>6. Waiting' /\ hid' # "lost" /\ todo' = <<ResetReport>>
      BY <1>1, <1>5, <3>3 DEF Waiting
    <3>7. CASE pipe = <<>> /\ BoardAt(FilesToWrite[n], FileLength)
      <4>1. fs[FilesToWrite[n]] = "new"
        BY <3>4, <3>7 DEF BoardAt
      <4>2. \A i \in 1..n : i \in 1..(n - 1) \/ i = n
        BY <3>2
      <4>3. Flashed(n)
        BY <3>5, <4>1, <4>2 DEF Flashed
      <4> QED
        BY <1>1, <3>2, <3>6, <3>7, <4>3 DEF AllSent, Flashed, ResetReport
    <3>8. CASE /\ pipe = <<FileReport(FilesToWrite[n], FileLength)>>
               /\ BoardAt(FilesToWrite[n], FileLength - 1)
      BY <1>1, <3>2, <3>4, <3>5, <3>6, <3>8 DEF AllSent, Flashed, BoardAt, FileReport, ResetReport
    <3> QED
      BY <3>5, <3>7, <3>8
  <2> QED
    BY <1>1, <1>2, <1>5, <2>1 DEF FlashInv, ProgramInv, ResetInv, PromiseInv, SendingInv, Smooth
<1>6. CASE tool = "ResetToFlash"
  <2>1. tool' = "done" /\ todo' = <<>>
    BY <1>1, <1>6
  <2>2. CASE disturbed
    BY <1>1, <1>2, <1>6, <2>1, <2>2, Elsewhere
  <2>3. CASE ~disturbed /\ failed
    BY <1>1, <1>2, <2>1, <2>3 DEF FlashInv, ProgramInv, ResetInv, PromiseInv, SendingInv
  <2>4. CASE Smooth
    <3>1. Complete
      <4>1. todo # <<ResetReport>>
        BY <1>1
      <4> QED
        BY <1>6, <2>4, <4>1 DEF FlashInv, ResetInv, AllSent
    <3>2. Complete'
      BY <1>1, <3>1 DEF Complete, Waiting, Booting, Flashed, ToSet, ResetReport
    <3>3. promised' = ToSet(FilesToWrite)'
      BY <1>1, <1>6, <2>4 DEF ToSet, Smooth
    <3> QED
      BY <1>2, <2>1, <3>2, <3>3 DEF FlashInv, ProgramInv, ResetInv, PromiseInv, SendingInv
  <2> QED
    BY <1>1, <2>2, <2>3, <2>4 DEF Smooth, FlashTypes
<1> QED
  BY <1>1, <1>3, <1>4, <1>5, <1>6 DEF Sessions

LEMMA FlashInvStarts == FlashInit => FlashInv
PROOF
<1> SUFFICES ASSUME FlashInit PROVE FlashInv
  OBVIOUS
<1>1. fs \in [Paths -> {"none", "empty", "partial", "old", "new"}]
  BY DEF FlashInit, NoFiles
<1>2. pipe \in Seq(Reports) /\ Len(pipe) <= 1 /\ todo \in Seq(Reports)
  BY DEF FlashInit
<1>3. /\ tool \in {"idle", "done"} /\ current = 1 /\ hid = "closed" /\ promised = {}
      /\ disturbed = FALSE /\ failed = FALSE
  BY DEF FlashInit
<1>4. FlashTypes
  <2>1. disturbed \in BOOLEAN /\ failed \in BOOLEAN
    BY <1>3
  <2>2. hid \in {"closed", "open", "lost"} /\ current \in Nat \ {0}
    BY <1>3
  <2> QED
    BY <1>1, <1>2, <1>3, <2>1, <2>2 DEF FlashTypes
<1> QED
  BY <1>3, <1>4 DEF FlashInv, ProgramInv, ResetInv, PromiseInv, SendingInv

LEMMA FlashInvStays == FlashInv /\ [FlashNext]_flashVars => FlashInv'
PROOF
<1> SUFFICES ASSUME FlashInv, [FlashNext]_flashVars PROVE FlashInv'
  OBVIOUS
<1>1. CASE Board
  BY <1>1, RecvInv, BoardInv DEF Board
<1>2. CASE Tool
  BY <1>2, ToolInv, LoadInv, OpenInv, WriteInv, EndInv DEF Tool
<1>3. CASE RunTool \/ Interrupt
  BY <1>3, ToolInv
<1>4. CASE PowerCycle
  BY <1>4, PowerInv
<1>5. CASE UNCHANGED flashVars
  BY <1>5, FilesStay
  DEF flashVars, board, host, FlashInv, FlashTypes, ProgramInv, ResetInv, PromiseInv, SendingInv,
      Smooth, Progress, AllSent, Complete, Booting, Waiting, Written, BoardAt, Flashed, NoReset, ToSet
<1> QED
  BY <1>1, <1>2, <1>3, <1>4, <1>5 DEF FlashNext

\* Whichever way the tool got there, the elf_loader it sends files to does not boot in between.
THEOREM FlashingIsUndisturbed == FlashSpec => []FlashingUndisturbed
PROOF
<1>1. FlashInv => FlashingUndisturbed
  BY DEF FlashInv, FlashingUndisturbed, SendingInv
<1> QED
  BY <1>1, FlashInvStarts, FlashInvStays, PTL DEF FlashSpec

\* What the tool has reported as flashed is on the flash and boots, if littlefs has not
\* failed: however many files and reports there are, and whatever happened before the run.
THEOREM FlashedBoots == FlashSpec => []BootsWhatWasFlashed
PROOF
<1>1. FlashInv => BootsWhatWasFlashed
  <2> SUFFICES ASSUME FlashInv, promised # {}, ~failed PROVE BootsWhatWasFlashed
    BY DEF BootsWhatWasFlashed
  <2>1. promised = ToSet(FilesToWrite) /\ Complete
    BY DEF FlashInv, PromiseInv
  <2>2. \A p \in promised : fs[p] = "new"
    BY <2>1, FilesAre DEF Complete, Flashed
  <2>3. elf \in promised /\ mode = "app" => app = "new"
    BY <2>1 DEF Complete, Waiting, Booting
  <2> QED
    BY <2>2, <2>3 DEF BootsWhatWasFlashed
<1> QED
  BY <1>1, FlashInvStarts, FlashInvStays, PTL DEF FlashSpec
-----------------------------------------------------------------------------
(* Debouncing: what a pin remembers and what a handler has loaded is the   *)
(* time it was, or off by at least the counter's width, as torn says.      *)

CountReads    == [at: {"count"}, value: 0..(Width - 1), elapsed: 0..MaxDelay, whole: Nat]
RolloverReads == [at: {"rollover"}, value: Nat]
Reads         == {NotReading} \cup CountReads \cup RolloverReads

ClockTypes ==
  /\ count \in 0..(Width - 1) /\ rolledOver \in BOOLEAN /\ rollover \in Nat
  /\ rollover < Rollovers /\ (rolledOver => rollover + 1 < Rollovers)

\* The times that the clock shows.
Times == 0..(Rollovers * Width - 1)

PinTypes ==
  /\ isr \in [left: SUBSET Pins, now: Reads]
  /\ task \in [step: {"idle", "time", "enable"}, pin: Pins \cup {"none"}, now: Reads]
  /\ debounce \in [Pins -> {0, Interval}] /\ last \in [Pins -> Times]
  /\ since \in [Pins -> 0..Horizon] /\ lastTorn \in [Pins -> BOOLEAN]
  /\ raised \subseteq Pins

\* A time t that was loaded e ago, with whether the load was torn.
Off(t, e, torn) == IF torn THEN t + e + Width <= Time \/ t + e >= Time + Width
                           ELSE t + e = Time

\* What has been loaded of the clock was its value then.
Loaded(now) == /\ now.at = "count" => now.whole * Width + now.value + now.elapsed = Time
               /\ now.at = "rollover" => now.value <= rollover

LastInv ==
  \A p \in Pins :
    /\ since[p] < Horizon => Off(last[p], since[p], lastTorn[p])
    /\ ~lastTorn[p] => last[p] + since[p] <= Time

ReadsInv ==
  /\ Loaded(isr.now) /\ Loaded(task.now)
  /\ isr.left = {} => isr.now = NotReading
  /\ isr.now.at = "count" => \A p \in Pins : isr.now.elapsed <= since[p]
  /\ task.step = "time" => task.pin \in Pins

GpioInv == ClockTypes /\ PinTypes /\ LastInv /\ ReadsInv /\ Debounced

\* A remainder by an unknown modulus, for numbers below twice that modulus.
LEMMA Remainder ==
  ASSUME NEW n \in Nat, n > 0, NEW a \in Nat, a < n
  PROVE  a % n = a /\ (a + n) % n = a
PROOF
<1>1. a % n = a
  OBVIOUS
<1>2. (a + n) % n = a
  OBVIOUS
<1> QED
  BY <1>1, <1>2

\* Multiples of the counter's width.
LEMMA Multiples ==
  ASSUME NEW w \in Nat, NEW m \in Nat, NEW n \in Nat
  PROVE  /\ m * w \in Nat /\ (m + 1) * w = m * w + w
         /\ m < n => m * w + w <= n * w
         /\ m <= n => m * w <= n * w
PROOF
<1>1. \A j, k \in Nat : j * k \in Nat
  OBVIOUS
<1>2. (m + 1) * w = m * w + w
  OBVIOUS
<1>3. m < n => m * w + w <= n * w
  <2>1. SUFFICES ASSUME m < n PROVE m * w + w <= n * w
    OBVIOUS
  <2>2. PICK d \in Nat : n = m + 1 + d
    <3>1. n - m - 1 \in Nat /\ n = m + 1 + (n - m - 1)
      BY <2>1
    <3> QED
      BY <3>1
  <2>3. n * w = m * w + w + d * w
    BY <2>2
  <2>4. d * w \in Nat /\ m * w \in Nat
    BY <1>1
  <2> QED
    BY <2>3, <2>4
<1>4. m <= n => m * w <= n * w
  <2>1. m * w \in Nat /\ n * w \in Nat
    BY <1>1
  <2>2. m <= n => m = n \/ m < n
    OBVIOUS
  <2> QED
    BY <1>3, <2>1, <2>2
<1> QED
  BY <1>1, <1>2, <1>3, <1>4

\* The clock in units of the counter: it shows a time, and the number of rollovers before it.
LEMMA ClockFacts ==
  ASSUME ClockTypes
  PROVE  /\ Width \in Nat /\ Width > 0 /\ MaxDelay \in Nat /\ Horizon = Width + MaxDelay
         /\ Rollovers * Width \in Nat /\ Width <= Rollovers * Width
         /\ rollover * Width \in Nat /\ Time \in Times
         /\ Time = rollover * Width + (IF rolledOver THEN Width ELSE 0) + count
         /\ rollover * Width + Width <= Rollovers * Width
PROOF
<1>1. /\ Width \in Nat /\ Width > 0 /\ MaxDelay \in Nat /\ Horizon = Width + MaxDelay
      /\ Rollovers \in Nat /\ Rollovers > 0
  BY GpioAssumption DEF Horizon
<1>2. /\ rollover \in Nat /\ rollover < Rollovers /\ rolledOver \in BOOLEAN
      /\ count \in 0..(Width - 1) /\ (rolledOver => rollover + 1 < Rollovers)
  BY DEF ClockTypes
<1>3. /\ rollover * Width \in Nat /\ (rollover + 1) * Width = rollover * Width + Width
      /\ rollover * Width + Width <= Rollovers * Width
      /\ Rollovers * Width \in Nat
  BY <1>1, <1>2, Multiples
<1>4. rolledOver => rollover * Width + Width + Width <= Rollovers * Width
  <2>1. rolledOver => (rollover + 1) * Width + Width <= Rollovers * Width
    BY <1>1, <1>2, Multiples
  <2> QED
    BY <1>3, <2>1
<1>5. Width <= Rollovers * Width
  BY <1>1, <1>3
<1>6. Time = rollover * Width + (IF rolledOver THEN Width ELSE 0) + count
  <2>1. CASE rolledOver
    BY <1>2, <1>3, <2>1 DEF Time
  <2>2. CASE ~rolledOver
    <3>1. rollover + 0 = rollover
      BY <1>2
    <3> QED
      BY <1>1, <1>2, <1>3, <2>2, <3>1 DEF Time
  <2> QED
    BY <2>1, <2>2
<1>7. Time \in Times
  BY <1>1, <1>2, <1>3, <1>4, <1>6 DEF Times
<1> QED
  BY <1>1, <1>3, <1>5, <1>6, <1>7

\* The unsigned difference of two times, whichever is later.
LEMMA ElapsedIs ==
  ASSUME ClockTypes, NEW now \in Times, NEW then \in Times
  PROVE  /\ then <= now => Elapsed(now, then) = now - then
         /\ now < then => Elapsed(now, then) >= Width
         /\ Elapsed(now, then) \in Nat
PROOF
<1> DEFINE Q == Rollovers * Width
<1>1. TimeModulus = 4 * Q
  BY GpioAssumption DEF TimeModulus
<1>2. Q \in Nat /\ Width \in Nat /\ Width <= Q /\ Width > 0
  BY ClockFacts
<1>3. now \in 0..(Q - 1) /\ then \in 0..(Q - 1)
  BY DEF Times
<1> HIDE DEF Q
<1>4. CASE then <= now
  <2>1. now - then \in Nat /\ now - then < TimeModulus /\ TimeModulus \in Nat
        /\ now + TimeModulus - then = (now - then) + TimeModulus
    BY <1>1, <1>2, <1>3, <1>4
  <2> QED
    BY <1>3, <1>4, <2>1, Remainder DEF Elapsed
<1>5. CASE now < then
  <2>1. /\ now + TimeModulus - then \in Nat /\ now + TimeModulus - then < TimeModulus
        /\ now + TimeModulus - then >= Width /\ TimeModulus \in Nat
    BY <1>1, <1>2, <1>3, <1>5
  <2> QED
    BY <1>3, <1>5, <2>1, Remainder DEF Elapsed
<1> QED
  BY <1>3, <1>4, <1>5

\* What TimerMicros returns is the time it was elapsed ago, or torn.
LEMMA MicrosIs ==
  ASSUME ClockTypes, NEW now \in CountReads \cup RolloverReads, Loaded(now)
  PROVE  /\ Micros(now).time \in Times /\ Micros(now).elapsed \in 0..MaxDelay
         /\ Micros(now).torn \in BOOLEAN
         /\ Off(Micros(now).time, Micros(now).elapsed, Micros(now).torn)
         /\ now.at = "count" => Micros(now).elapsed = now.elapsed
         /\ now.at = "rollover" => Micros(now).elapsed = 0
PROOF
<1>1. /\ Width \in Nat /\ Width > 0 /\ MaxDelay \in Nat /\ Rollovers * Width \in Nat
      /\ rollover * Width \in Nat
      /\ Time = rollover * Width + (IF rolledOver THEN Width ELSE 0) + count
      /\ rollover * Width + Width <= Rollovers * Width
      /\ Time \in Times
  BY ClockFacts
<1>2. count \in 0..(Width - 1) /\ rolledOver \in BOOLEAN /\ rollover \in Nat
  BY DEF ClockTypes
<1>3. CASE now \in CountReads
  <2>1. /\ now.at = "count" /\ now.value \in 0..(Width - 1) /\ now.elapsed \in 0..MaxDelay
        /\ now.whole \in Nat /\ now.whole * Width + now.value + now.elapsed = Time
    BY <1>3 DEF CountReads, Loaded
  <2>2. /\ Micros(now).time = rollover * Width + now.value /\ Micros(now).elapsed = now.elapsed
        /\ (Micros(now).torn <=> rollover # now.whole)
    BY <2>1 DEF Micros
  <2>3. /\ now.whole * Width \in Nat
        /\ rollover < now.whole => rollover * Width + Width <= now.whole * Width
        /\ now.whole < rollover => now.whole * Width + Width <= rollover * Width
    BY <1>1, <1>2, <2>1, Multiples
  <2>4. Micros(now).time \in Times
    BY <1>1, <2>1, <2>2 DEF Times
  <2>5. Off(Micros(now).time, Micros(now).elapsed, Micros(now).torn)
    <3>1. CASE rollover = now.whole
      BY <1>1, <2>1, <2>2, <3>1 DEF Off
    <3>2. CASE rollover < now.whole
      <4>1. rollover * Width + now.value + now.elapsed + Width <= Time
        BY <1>1, <2>1, <2>3, <3>2
      <4>2. Micros(now).torn
        BY <1>2, <2>1, <2>2, <3>2
      <4> QED
        BY <2>2, <4>1, <4>2 DEF Off
    <3>3. CASE now.whole < rollover
      <4>1. rollover * Width + now.value + now.elapsed >= Time + Width
        <5>1. now.whole * Width + Width <= rollover * Width
          BY <2>3, <3>3
        <5> QED
          BY <1>1, <2>1, <2>3, <5>1
      <4>2. Micros(now).torn
        BY <1>2, <2>1, <2>2, <3>3
      <4> QED
        BY <2>2, <4>1, <4>2 DEF Off
    <3> QED
      BY <1>2, <2>1, <3>1, <3>2, <3>3
  <2>6. Micros(now).torn \in BOOLEAN
    BY <2>1, Zenon DEF Micros
  <2> QED
    BY <2>1, <2>2, <2>4, <2>5, <2>6
<1>4. CASE now \in RolloverReads
  <2>1. now.at = "rollover" /\ now.value \in Nat /\ now.value <= rollover
    BY <1>4 DEF RolloverReads, Loaded
  <2>2. /\ Micros(now).time = now.value * Width + count /\ Micros(now).elapsed = 0
        /\ (Micros(now).torn <=> rolledOver \/ now.value # rollover)
    BY <2>1 DEF Micros
  <2>3. /\ now.value * Width \in Nat
        /\ now.value < rollover => now.value * Width + Width <= rollover * Width
        /\ now.value * Width <= rollover * Width
    BY <1>1, <1>2, <2>1, Multiples
  <2>4. Micros(now).time \in Times
    BY <1>1, <1>2, <2>2, <2>3 DEF Times
  <2>5. Off(Micros(now).time, Micros(now).elapsed, Micros(now).torn)
    <3>1. CASE ~rolledOver /\ now.value = rollover
      BY <1>1, <1>2, <2>1, <2>2, <3>1 DEF Off
    <3>2. CASE rolledOver \/ now.value < rollover
      <4>1. now.value * Width + count + 0 + Width <= Time
        <5>1. CASE rolledOver
          BY <1>1, <1>2, <2>3, <5>1
        <5>2. CASE ~rolledOver /\ now.value < rollover
          BY <1>1, <1>2, <2>3, <5>2
        <5> QED
          BY <3>2, <5>1, <5>2
      <4>2. Micros(now).torn
        BY <1>2, <2>1, <2>2, <3>2
      <4> QED
        BY <2>2, <4>1, <4>2 DEF Off
    <3> QED
      BY <1>2, <2>1, <3>1, <3>2
  <2>6. Micros(now).elapsed \in 0..MaxDelay /\ now.at # "count"
    BY <1>1, <2>1, <2>2
  <2>7. Micros(now).torn \in BOOLEAN
    BY <2>1 DEF Micros
  <2> QED
    BY <2>1, <2>2, <2>4, <2>5, <2>6, <2>7
<1> QED
  BY <1>3, <1>4

\* The first load of the clock.
LEMMA FirstLoads ==
  ASSUME ClockTypes, NEW now \in FirstLoad
  PROVE  /\ now \in CountReads \cup RolloverReads /\ Loaded(now)
         /\ now.at = "count" => now.elapsed = 0
PROOF
<1>1. /\ MaxDelay \in Nat /\ rollover \in Nat /\ count \in 0..(Width - 1)
      /\ (rollover + (IF rolledOver THEN 1 ELSE 0)) \in Nat /\ Time \in Nat
  BY ClockFacts DEF ClockTypes, Times
<1>2. CASE now.at = "count"
  <2>1. now = [at |-> "count", value |-> count, elapsed |-> 0,
               whole |-> rollover + (IF rolledOver THEN 1 ELSE 0)]
    BY <1>2 DEF FirstLoad
  <2>2. now \in CountReads /\ now.elapsed = 0
    BY <1>1, <2>1 DEF CountReads
  <2>3. now.whole * Width + now.value = Time
    BY <2>1 DEF Time
  <2> QED
    BY <1>1, <1>2, <2>2, <2>3 DEF Loaded
<1>3. CASE now.at # "count"
  <2>1. now = [at |-> "rollover", value |-> rollover]
    BY <1>3 DEF FirstLoad
  <2> QED
    BY <1>1, <2>1 DEF RolloverReads, Loaded
<1> QED
  BY <1>2, <1>3

\* A microsecond passes for a reader of the clock.
LEMMA AgedIs ==
  ASSUME NEW now \in Reads, ~Delayed(now), MaxDelay \in Nat
  PROVE  /\ Aged(now) \in Reads /\ Aged(now).at = now.at
         /\ now = NotReading => Aged(now) = NotReading
         /\ now.at = "count" => /\ Aged(now).value = now.value /\ Aged(now).whole = now.whole
                                /\ now.elapsed \in Nat /\ now.elapsed < MaxDelay
                                /\ Aged(now).elapsed = now.elapsed + 1
                                /\ now.whole \in Nat /\ now.value \in 0..(Width - 1)
         /\ now.at = "rollover" => Aged(now) = now
PROOF
<1>1. CASE now \in CountReads
  <2>1. /\ now.at = "count" /\ now.elapsed \in 0..MaxDelay /\ now.elapsed # MaxDelay
        /\ now.whole \in Nat /\ now.value \in 0..(Width - 1)
        /\ now = [at |-> "count", value |-> now.value, elapsed |-> now.elapsed, whole |-> now.whole]
    BY <1>1 DEF CountReads, Delayed
  <2>2. Aged(now) = [at |-> "count", value |-> now.value, elapsed |-> now.elapsed + 1,
                     whole |-> now.whole]
    BY <2>1 DEF Aged
  <2>3. now.elapsed + 1 \in 0..MaxDelay /\ now.elapsed < MaxDelay /\ now.elapsed \in Nat
    BY <2>1
  <2>4. Aged(now) \in CountReads
    BY <2>1, <2>2, <2>3 DEF CountReads
  <2>5. now # NotReading
    BY <2>1 DEF NotReading
  <2> QED
    BY <2>1, <2>2, <2>3, <2>4, <2>5 DEF Reads
<1>2. CASE now \notin CountReads
  <2>1. now.at # "count"
    BY <1>2 DEF Reads, NotReading, RolloverReads
  <2> QED
    BY <1>2, <2>1 DEF Aged
<1> QED
  BY <1>1, <1>2

LEMMA TickInv ==
  ASSUME GpioInv, Tick
  PROVE  GpioInv'
PROOF
<1>1. /\ Width \in Nat /\ Width > 0 /\ MaxDelay \in Nat /\ Horizon = Width + MaxDelay
      /\ rollover * Width \in Nat /\ Time \in Nat
      /\ Time = rollover * Width + (IF rolledOver THEN Width ELSE 0) + count
  BY ClockFacts DEF GpioInv, Times
<1>2. /\ count \in 0..(Width - 1) /\ rollover \in Nat /\ Rollovers \in Nat /\ rollover < Rollovers
      /\ ~rolledOver /\ rollover' = rollover
      /\ count' = (count + 1) % Width /\ (rolledOver' <=> count = Width - 1)
      /\ rolledOver' \in BOOLEAN
      /\ rollover < Rollovers - 1 \/ count < Width - 1
  <2>1. rolledOver' \in BOOLEAN /\ (rolledOver' <=> count = Width - 1)
    BY DEF Tick
  <2> QED
    BY <2>1, GpioAssumption DEF Tick, GpioInv, ClockTypes
<1>3. /\ count = Width - 1 => count' = 0
      /\ count < Width - 1 => count' = count + 1
  <2>1. CASE count = Width - 1
    BY <1>1, <1>2, <2>1, Remainder
  <2>2. CASE count < Width - 1
    <3>1. count + 1 \in Nat /\ count + 1 < Width
      BY <1>1, <1>2, <2>2
    <3> QED
      BY <1>1, <1>2, <2>2, <3>1, Remainder
  <2> QED
    BY <1>1, <1>2, <2>1, <2>2
<1>4. Time' = Time + 1
  <2>1. (rollover + 1) * Width = rollover * Width + Width /\ rollover + 0 = rollover
    BY <1>1, <1>2, Multiples
  <2>2. CASE count = Width - 1
    <3>1. Time' = (rollover + 1) * Width + 0
      BY <1>2, <1>3, <2>2 DEF Time
    <3> QED
      BY <1>1, <1>2, <2>1, <2>2, <3>1
  <2>3. CASE count < Width - 1
    <3>1. ~rolledOver'
      BY <1>1, <1>2, <2>3
    <3>2. Time' = (rollover + 0) * Width + (count + 1)
      BY <1>2, <1>3, <2>3, <3>1 DEF Time
    <3> QED
      BY <1>1, <1>2, <2>1, <2>3, <3>2
  <2> QED
    BY <1>1, <1>2, <2>2, <2>3
<1>5. ClockTypes'
  <2>1. count' \in 0..(Width - 1)
    BY <1>1, <1>2, <1>3
  <2>2. rolledOver' => rollover + 1 < Rollovers
    BY <1>1, <1>2
  <2> QED
    BY <1>2, <2>1, <2>2 DEF ClockTypes
<1>6. /\ isr \in [left: SUBSET Pins, now: Reads]
      /\ task \in [step: {"idle", "time", "enable"}, pin: Pins \cup {"none"}, now: Reads]
      /\ ~Delayed(isr.now) /\ ~Delayed(task.now)
      /\ isr' = [isr EXCEPT !.now = Aged(isr.now)] /\ task' = [task EXCEPT !.now = Aged(task.now)]
      /\ since' = [p \in Pins |-> Later(since[p])]
      /\ UNCHANGED <<debounce, last, lastTorn, decision, raised>>
  BY DEF Tick, GpioInv, PinTypes, port
<1>7. /\ isr'.left = isr.left /\ isr'.now = Aged(isr.now)
      /\ task'.step = task.step /\ task'.pin = task.pin /\ task'.now = Aged(task.now)
      /\ isr.now \in Reads /\ task.now \in Reads
  BY <1>6
<1>8. \A p \in Pins : /\ since[p] \in 0..Horizon /\ since'[p] \in 0..Horizon
                      /\ since[p] < Horizon => since'[p] = since[p] + 1
                      /\ since[p] = Horizon => since'[p] = Horizon
  BY <1>1, <1>6 DEF Later, GpioInv, PinTypes
<1>9. PinTypes'
  <2>1. isr' \in [left: SUBSET Pins, now: Reads]
        /\ task' \in [step: {"idle", "time", "enable"}, pin: Pins \cup {"none"}, now: Reads]
    BY <1>1, <1>6, <1>7, AgedIs
  <2>2. since' \in [Pins -> 0..Horizon]
    BY <1>6, <1>8
  <2> QED
    BY <1>6, <2>1, <2>2 DEF GpioInv, PinTypes
<1>10. LastInv'
  <2>1. SUFFICES ASSUME NEW p \in Pins
                 PROVE  /\ since'[p] < Horizon => Off(last[p], since[p], lastTorn[p])'
                        /\ ~lastTorn[p] => last[p] + since'[p] <= Time'
    BY <1>6 DEF LastInv
  <2>2. last[p] \in Nat
    BY ClockFacts DEF GpioInv, PinTypes, Times
  <2>3. /\ since[p] < Horizon => Off(last[p], since[p], lastTorn[p])
        /\ ~lastTorn[p] => last[p] + since[p] <= Time
    BY DEF GpioInv, LastInv
  <2> QED
    BY <1>1, <1>4, <1>6, <1>8, <2>2, <2>3 DEF Off
<1>11. ReadsInv'
  <2>1. ASSUME NEW now \in Reads, ~Delayed(now), Loaded(now)
        PROVE  /\ Aged(now).at = "count" =>
                    Aged(now).whole * Width + Aged(now).value + Aged(now).elapsed = Time'
               /\ Aged(now).at = "rollover" => Aged(now).value <= rollover'
    <3>1. CASE now.at = "count"
      <4>1. now.whole * Width \in Nat
        BY <1>1, <2>1, <3>1, AgedIs, Multiples
      <4> QED
        BY <1>1, <1>4, <2>1, <3>1, <4>1, AgedIs DEF Loaded
    <3>2. CASE now.at = "rollover"
      BY <1>1, <1>2, <2>1, <3>2, AgedIs DEF Loaded
    <3> QED
      BY <1>1, <2>1, <3>1, <3>2, AgedIs
  <2>2. Loaded(isr.now)' /\ Loaded(task.now)'
    <3>1. Loaded(isr.now) /\ Loaded(task.now)
      BY DEF GpioInv, ReadsInv
    <3> QED
      BY <1>6, <1>7, <2>1, <3>1 DEF Loaded
  <2>3. isr'.left = {} => isr'.now = NotReading
    BY <1>1, <1>6, <1>7, AgedIs DEF GpioInv, ReadsInv
  <2>4. isr'.now.at = "count" => \A p \in Pins : isr'.now.elapsed <= since'[p]
    <3>1. SUFFICES ASSUME isr'.now.at = "count", NEW p \in Pins PROVE isr'.now.elapsed <= since'[p]
      OBVIOUS
    <3>2. /\ isr.now.at = "count" /\ isr.now.elapsed \in Nat /\ isr.now.elapsed < MaxDelay
          /\ isr'.now.elapsed = isr.now.elapsed + 1
      BY <1>1, <1>6, <1>7, <3>1, AgedIs
    <3>3. isr.now.elapsed <= since[p]
      BY <3>2 DEF GpioInv, ReadsInv
    <3> QED
      BY <1>1, <1>8, <3>2, <3>3
  <2>5. task'.step = "time" => task'.pin \in Pins
    BY <1>7 DEF GpioInv, ReadsInv
  <2> QED
    BY <2>2, <2>3, <2>4, <2>5 DEF ReadsInv
<1>12. Debounced'
  BY <1>6 DEF GpioInv, Debounced
<1> QED
  BY <1>5, <1>9, <1>10, <1>11, <1>12 DEF GpioInv

LEMMA RolloverInv ==
  ASSUME GpioInv, GPT1_IRQHandler
  PROVE  GpioInv'
PROOF
<1>1. /\ Width \in Nat /\ Width > 0 /\ rollover * Width \in Nat /\ Time \in Nat
  BY ClockFacts DEF GpioInv, Times
<1>2. /\ rollover \in Nat /\ count \in 0..(Width - 1) /\ rolledOver /\ rollover + 1 < Rollovers
      /\ rolledOver' = FALSE /\ rollover' = rollover + 1 /\ count' = count
      /\ UNCHANGED <<debounce, last, since, lastTorn, decision, isr, task, raised>>
  BY DEF GPT1_IRQHandler, GpioInv, ClockTypes, port, history
<1>3. Time' = Time
  <2>1. Time' = (rollover + 1 + 0) * Width + count
    BY <1>2 DEF Time
  <2>2. Time = (rollover + 1) * Width + count /\ rollover + 1 + 0 = rollover + 1
    BY <1>2 DEF Time
  <2> QED
    BY <2>1, <2>2
<1>4. ClockTypes' /\ PinTypes' /\ Debounced'
  <2>1. ClockTypes'
    <3>1. rolledOver' \in BOOLEAN /\ ~rolledOver'
      BY DEF GPT1_IRQHandler
    <3> QED
      BY <1>2, <3>1 DEF ClockTypes
  <2> QED
    BY <1>2, <2>1 DEF GpioInv, PinTypes, Debounced
<1>5. LastInv'
  BY <1>2, <1>3 DEF GpioInv, LastInv, Off
<1>6. ReadsInv'
  <2>1. ASSUME NEW now \in Reads, Loaded(now)
        PROVE  /\ now.at = "count" => now.whole * Width + now.value + now.elapsed = Time'
               /\ now.at = "rollover" => now.value <= rollover'
    <3>1. now.at = "rollover" => now.value \in Nat
      BY DEF Reads, RolloverReads, CountReads, NotReading
    <3> QED
      BY <1>2, <1>3, <2>1, <3>1 DEF Loaded
  <2>2. isr.now \in Reads /\ task.now \in Reads /\ Loaded(isr.now) /\ Loaded(task.now)
    BY DEF GpioInv, PinTypes, ReadsInv
  <2>3. Loaded(isr.now)' /\ Loaded(task.now)'
    BY <1>2, <2>1, <2>2 DEF Loaded
  <2> QED
    BY <1>2, <2>3 DEF GpioInv, ReadsInv
<1> QED
  BY <1>4, <1>5, <1>6 DEF GpioInv

\* Steps that leave the clock, what pins remember and the last decision alone.
LEMMA PinsStay ==
  ASSUME GpioInv, UNCHANGED <<clock, last, since, lastTorn, decision>>, PinTypes', ReadsInv'
  PROVE  GpioInv'
PROOF
<1>1. Time' = Time /\ ClockTypes'
  BY DEF clock, Time, GpioInv, ClockTypes
<1> QED
  BY <1>1 DEF GpioInv, LastInv, Off, Debounced

LEMMA InterruptInv ==
  ASSUME GpioInv, CommonIrqHandler \/ IrqTimerMicros \/ (\E p \in Pins : Edge(p))
                  \/ UNCHANGED gpioVars
  PROVE  GpioInv'
PROOF
<1>0. raised \in SUBSET Pins /\ raised' \in SUBSET Pins
  BY DEF CommonIrqHandler, IrqTimerMicros, Edge, gpioVars, port, GpioInv, PinTypes
<1>1. UNCHANGED <<clock, last, since, lastTorn, decision, debounce, task>>
  BY DEF CommonIrqHandler, IrqTimerMicros, Edge, gpioVars, port, history
<1>2. Time' = Time /\ rollover' = rollover
  BY <1>1 DEF clock, Time
<1>3. /\ isr \in [left: SUBSET Pins, now: Reads] /\ MaxDelay \in Nat /\ Horizon \in Nat
      /\ ClockTypes /\ \A p \in Pins : since[p] \in Nat
  BY ClockFacts DEF GpioInv, PinTypes
<1>4. CASE isr' = isr
  <2>1. PinTypes' /\ ReadsInv'
    BY <1>0, <1>1, <1>2, <1>4 DEF GpioInv, PinTypes, ReadsInv, Loaded
  <2> QED
    BY <1>1, <2>1, PinsStay
<1>5. CASE CommonIrqHandler
  <2>1. isr' = [left |-> raised, now |-> NotReading]
    BY <1>5 DEF CommonIrqHandler
  <2>2. isr' \in [left: SUBSET Pins, now: Reads] /\ isr'.now = NotReading
    BY <1>0, <2>1 DEF Reads
  <2>3. PinTypes'
    BY <1>0, <1>1, <2>2 DEF GpioInv, PinTypes
  <2>4. ReadsInv'
    BY <1>1, <1>2, <2>2 DEF GpioInv, ReadsInv, Loaded, NotReading
  <2> QED
    BY <1>1, <2>3, <2>4, PinsStay
<1>6. CASE IrqTimerMicros
  <2>1. PICK now \in FirstLoad : isr' = [isr EXCEPT !.now = now]
    BY <1>6 DEF IrqTimerMicros
  <2>2. /\ now \in CountReads \cup RolloverReads /\ Loaded(now)
        /\ now.at = "count" => now.elapsed = 0
    BY <1>3, FirstLoads
  <2>3. isr'.now = now /\ isr'.left = isr.left /\ isr' \in [left: SUBSET Pins, now: Reads]
    BY <1>3, <2>1, <2>2 DEF Reads
  <2>4. PinTypes'
    BY <1>0, <1>1, <2>3 DEF GpioInv, PinTypes
  <2>5. isr.left # {}
    BY <1>6 DEF IrqTimerMicros
  <2>6. isr'.now.at = "count" => \A p \in Pins : isr'.now.elapsed <= since'[p]
    BY <1>1, <1>3, <2>2, <2>3
  <2>7. Loaded(isr.now)' /\ Loaded(task.now)'
    BY <1>1, <1>2, <2>2, <2>3 DEF GpioInv, ReadsInv, Loaded
  <2>8. ReadsInv'
    BY <1>1, <2>3, <2>5, <2>6, <2>7 DEF GpioInv, ReadsInv
  <2> QED
    BY <1>1, <2>4, <2>8, PinsStay
<1> QED
  BY <1>4, <1>5, <1>6 DEF Edge, gpioVars

\* What IrqHandler decides at d after the time it remembers, when that is right.
LEMMA DecisionIs ==
  ASSUME ClockTypes, NEW now \in Times, NEW then \in Times, NEW e \in 0..MaxDelay,
         NEW age \in 0..Horizon, NEW limit \in {0, Interval}, NEW d \in Nat, e + d = age,
         now + e = Time, then + age <= Time, age = Horizon \/ then + age = Time, limit # 0
  PROVE  Elapsed(now, then) >= limit <=> d >= limit
PROOF
<1>1. /\ Width \in Nat /\ MaxDelay \in Nat /\ Horizon = Width + MaxDelay /\ Time \in Nat
      /\ Interval \in Nat /\ Interval <= Width
  BY ClockFacts, GpioAssumption DEF Times
<1>2. now \in Nat /\ then \in Nat /\ limit \in Nat
  BY <1>1, ClockFacts DEF Times
<1>3. then <= now /\ now - then >= d /\ (age < Horizon => now - then = d)
  BY <1>1, <1>2
<1>4. Elapsed(now, then) = now - then
  BY <1>3, ElapsedIs
<1>5. age = Horizon => d >= limit
  BY <1>1
<1> QED
  BY <1>1, <1>2, <1>3, <1>4, <1>5

\* When that may be off, it still answers an edge that is due.
LEMMA NotDeaf ==
  ASSUME ClockTypes, NEW now \in Times, NEW then \in Times, NEW e \in 0..MaxDelay,
         NEW age \in 0..Horizon, NEW limit \in {0, Interval}, NEW d \in Nat, e + d = age,
         now + e = Time, d < Width,
         \/ then + age = Time
         \/ then + age + Width <= Time
         \/ then + age >= Time + Width,
         limit # 0, ~(Elapsed(now, then) >= limit)
  PROVE  d < limit
PROOF
<1>1. /\ Width \in Nat /\ Width > 0 /\ MaxDelay \in Nat /\ Horizon = Width + MaxDelay
      /\ Time \in Nat /\ Interval \in Nat /\ Interval <= Width
  BY ClockFacts, GpioAssumption DEF Times
<1>2. now \in Nat /\ then \in Nat /\ limit \in Nat /\ limit <= Width
      /\ Elapsed(now, then) \in Nat
  BY <1>1, ElapsedIs, ClockFacts DEF Times
<1>3. CASE then + age = Time
  <2>1. then <= now /\ now - then = d
    BY <1>1, <1>2, <1>3
  <2> QED
    BY <1>1, <1>2, <2>1, ElapsedIs
<1>4. CASE then + age + Width <= Time
  <2>1. then <= now /\ now - then >= Width
    BY <1>1, <1>2, <1>4
  <2> QED
    BY <1>1, <1>2, <2>1, ElapsedIs
<1>5. CASE then + age >= Time + Width
  <2>1. now < then
    BY <1>1, <1>2, <1>5
  <2> QED
    BY <1>1, <1>2, <1>5, <2>1, ElapsedIs
<1> QED
  BY <1>3, <1>4, <1>5

LEMMA HandlerInv ==
  ASSUME GpioInv, NEW p \in Pins, IrqHandler(p)
  PROVE  GpioInv'
PROOF
<1> DEFINE m == Micros(isr.now)
           calls == debounce[p] = 0 \/ Elapsed(m.time, last[p]) >= debounce[p]
<1>1. /\ ClockTypes /\ isr \in [left: SUBSET Pins, now: Reads] /\ isr.now # NotReading
      /\ isr.now \in CountReads \cup RolloverReads /\ Loaded(isr.now)
  BY DEF GpioInv, PinTypes, ReadsInv, IrqHandler, Reads
<1>2. /\ m.time \in Times /\ m.elapsed \in 0..MaxDelay /\ m.torn \in BOOLEAN
      /\ Off(m.time, m.elapsed, m.torn)
  BY <1>1, MicrosIs
<1>3. m.elapsed <= since[p]
  <2>1. since[p] \in Nat
    BY <1>1, ClockFacts DEF GpioInv, PinTypes
  <2>2. isr.now.at \in {"count", "rollover"}
    BY <1>1 DEF CountReads, RolloverReads
  <2>3. isr.now.at = "count" => m.elapsed = isr.now.elapsed /\ isr.now.elapsed <= since[p]
    BY <1>1, MicrosIs DEF GpioInv, ReadsInv
  <2>4. isr.now.at = "rollover" => m.elapsed = 0
    BY <1>1, MicrosIs
  <2> QED
    BY <2>1, <2>2, <2>3, <2>4
<1>4. /\ last' = IF calls THEN [last EXCEPT ![p] = m.time] ELSE last
      /\ since' = IF calls THEN [since EXCEPT ![p] = m.elapsed] ELSE since
      /\ lastTorn' = IF calls THEN [lastTorn EXCEPT ![p] = m.torn] ELSE lastTorn
      /\ decision' = [calls |-> calls, limit |-> debounce[p], age |-> since[p] - m.elapsed,
                      nowTorn |-> m.torn, lastTorn |-> lastTorn[p]]
      /\ isr' = [left |-> isr.left \ {p}, now |-> NotReading]
      /\ UNCHANGED <<clock, debounce, raised, task>>
  BY DEF IrqHandler
<1>5. /\ last \in [Pins -> Times] /\ since \in [Pins -> 0..Horizon]
      /\ lastTorn \in [Pins -> BOOLEAN] /\ debounce[p] \in {0, Interval}
      /\ Horizon = Width + MaxDelay /\ MaxDelay \in Nat /\ Width \in Nat
  BY <1>1, ClockFacts DEF GpioInv, PinTypes
<1>6. LastInv
  BY DEF GpioInv
<1>7. Debounced'
  <2>1. ~m.torn =>
         /\ ~lastTorn[p] => (calls <=> since[p] - m.elapsed >= debounce[p])
         /\ ~calls /\ since[p] - m.elapsed < Width - MaxDelay => since[p] - m.elapsed < debounce[p]
    <3> HIDE DEF m
    <3>1. /\ last[p] \in Times /\ since[p] \in 0..Horizon /\ lastTorn[p] \in BOOLEAN
          /\ since[p] < Horizon => Off(last[p], since[p], lastTorn[p])
          /\ ~lastTorn[p] => last[p] + since[p] <= Time
      BY <1>5, <1>6 DEF LastInv
    <3>2. SUFFICES ASSUME ~m.torn
                   PROVE  /\ ~lastTorn[p] => (calls <=> since[p] - m.elapsed >= debounce[p])
                          /\ ~calls /\ since[p] - m.elapsed < Width - MaxDelay =>
                               since[p] - m.elapsed < debounce[p]
      OBVIOUS
    <3>3. /\ m.time \in Times /\ m.elapsed \in 0..MaxDelay /\ m.time + m.elapsed = Time
          /\ m.elapsed <= since[p]
      BY <1>2, <1>3, <3>2 DEF Off
    <3> DEFINE d == since[p] - m.elapsed
    <3>4. d \in Nat /\ m.elapsed + d = since[p]
      BY <1>5, <3>1, <3>3
    <3> HIDE DEF d
    <3>5. ~lastTorn[p] => (calls <=> d >= debounce[p])
      <4>1. SUFFICES ASSUME ~lastTorn[p], debounce[p] # 0
                     PROVE  Elapsed(m.time, last[p]) >= debounce[p] <=> d >= debounce[p]
        BY <3>4
      <4>2. /\ last[p] + since[p] <= Time
            /\ since[p] = Horizon \/ last[p] + since[p] = Time
        BY <1>5, <3>1, <4>1 DEF Off
      <4> QED
        BY <1>1, <1>5, <3>1, <3>3, <3>4, <4>1, <4>2, DecisionIs
    <3>6. ~calls /\ d < Width - MaxDelay => d < debounce[p]
      <4>1. SUFFICES ASSUME ~calls, d < Width - MaxDelay
                     PROVE  d < debounce[p]
        OBVIOUS
      <4>2. debounce[p] # 0 /\ ~(Elapsed(m.time, last[p]) >= debounce[p])
        BY <4>1
      <4>3. since[p] < Horizon /\ d < Width
        BY <1>5, <3>1, <3>3, <3>4, <4>1
      <4>4. \/ last[p] + since[p] = Time
            \/ last[p] + since[p] + Width <= Time
            \/ last[p] + since[p] >= Time + Width
        BY <3>1, <4>3 DEF Off
      <4> QED
        BY <1>1, <1>5, <3>1, <3>3, <3>4, <4>2, <4>3, <4>4, NotDeaf
    <3> QED
      BY <3>5, <3>6 DEF d
  <2>2. /\ decision'.limit = debounce[p] /\ decision'.age = since[p] - m.elapsed
        /\ decision'.nowTorn = m.torn /\ decision'.lastTorn = lastTorn[p]
        /\ decision'.calls = calls
    BY <1>4
  <2> HIDE DEF calls, m
  <2> QED
    BY <2>1, <2>2 DEF Debounced
<1> HIDE DEF calls, m
<1>8. Time' = Time /\ ClockTypes'
  BY <1>1, <1>4 DEF clock, Time, ClockTypes
<1>9. m.elapsed \in 0..Horizon
  BY <1>2, <1>5
<1>10. /\ last' \in [Pins -> Times] /\ since' \in [Pins -> 0..Horizon]
       /\ lastTorn' \in [Pins -> BOOLEAN]
  BY <1>2, <1>4, <1>5, <1>9
<1>11. LastInv'
  <2>1. SUFFICES ASSUME NEW q \in Pins
                 PROVE  /\ since'[q] < Horizon => Off(last[q], since[q], lastTorn[q])'
                        /\ ~lastTorn'[q] => last'[q] + since'[q] <= Time'
    BY DEF LastInv
  <2>2. CASE calls /\ q = p
    <3>1. last'[q] = m.time /\ since'[q] = m.elapsed /\ lastTorn'[q] = m.torn
      BY <1>4, <1>5, <2>2
    <3>2. ~m.torn => m.time + m.elapsed = Time
      BY <1>2 DEF Off
    <3>3. Time \in Nat /\ m.time \in Nat /\ m.elapsed \in Nat
      BY <1>1, <1>2, <1>5, ClockFacts DEF Times
    <3> QED
      BY <1>2, <1>8, <3>1, <3>2, <3>3 DEF Off
  <2>3. CASE ~(calls /\ q = p)
    <3>1. last'[q] = last[q] /\ since'[q] = since[q] /\ lastTorn'[q] = lastTorn[q]
      BY <1>4, <1>5, <2>3
    <3> QED
      BY <1>6, <1>8, <3>1 DEF Off, LastInv
  <2> QED
    BY <2>2, <2>3
<1>12. isr' \in [left: SUBSET Pins, now: Reads] /\ isr'.now = NotReading
  BY <1>1, <1>4 DEF Reads
<1>13. PinTypes'
  BY <1>4, <1>10, <1>12 DEF GpioInv, PinTypes
<1>14. ReadsInv'
  <2>1. rollover' = rollover /\ NotReading.at \notin {"count", "rollover"}
    BY <1>4 DEF clock, NotReading
  <2> QED
    BY <1>4, <1>8, <1>12, <2>1 DEF GpioInv, ReadsInv, Loaded
<1> QED
  BY <1>7, <1>8, <1>11, <1>13, <1>14 DEF GpioInv

LEMMA ConfigureInv ==
  ASSUME GpioInv, \/ ConfigureTimerMicros \/ ConfigureTime \/ ConfigureEnable
                  \/ \E p \in Pins : \/ ConfigureNone(p)
                                     \/ \E interval \in {0, Interval} : ConfigureHandler(p, interval)
  PROVE  GpioInv'
PROOF
<1>1. UNCHANGED <<clock, isr, decision>> /\ isr.left = {}
  BY DEF ConfigureTimerMicros, ConfigureTime, ConfigureEnable, ConfigureNone, ConfigureHandler,
     Configuring, history
<1>2. Time' = Time /\ rollover' = rollover /\ ClockTypes' /\ ClockTypes /\ Time \in Nat
  BY <1>1, ClockFacts DEF clock, Time, GpioInv, ClockTypes, Times
<1>3. isr.now = NotReading /\ NotReading.at \notin {"count", "rollover"}
  BY <1>1 DEF GpioInv, ReadsInv, NotReading
<1>4. raised' \in SUBSET Pins
  BY DEF ConfigureTimerMicros, ConfigureTime, ConfigureEnable, ConfigureNone, ConfigureHandler,
     port, GpioInv, PinTypes
<1>5. /\ task \in [step: {"idle", "time", "enable"}, pin: Pins \cup {"none"}, now: Reads]
      /\ task.step = "time" => task.pin \in Pins
      /\ debounce \in [Pins -> {0, Interval}] /\ last \in [Pins -> Times]
      /\ since \in [Pins -> 0..Horizon] /\ lastTorn \in [Pins -> BOOLEAN]
      /\ LastInv /\ Debounced /\ Loaded(task.now) /\ PinTypes
  BY DEF GpioInv, PinTypes, ReadsInv
<1>6. ASSUME /\ task' \in [step: {"idle", "time", "enable"}, pin: Pins \cup {"none"}, now: Reads]
             /\ task'.step = "time" => task'.pin \in Pins
             /\ task'.now = task.now \/ task'.now = NotReading \/ task'.now \in FirstLoad
             /\ debounce' \in [Pins -> {0, Interval}] /\ last' \in [Pins -> Times]
             /\ since' \in [Pins -> 0..Horizon] /\ lastTorn' \in [Pins -> BOOLEAN]
             /\ LastInv'
      PROVE  GpioInv'
  <2>1. PinTypes' /\ Debounced'
    BY <1>1, <1>4, <1>5, <1>6 DEF PinTypes, Debounced
  <2>2. Loaded(task.now)'
    <3>1. CASE task'.now = task.now
      BY <1>2, <1>5, <3>1 DEF Loaded
    <3>2. CASE task'.now = NotReading
      BY <1>3, <3>2 DEF Loaded
    <3>3. CASE task'.now \in FirstLoad
      <4>1. Loaded(task'.now)
        BY <1>2, <3>3, FirstLoads
      <4> QED
        BY <1>2, <4>1 DEF Loaded
    <3> QED
      BY <1>6, <3>1, <3>2, <3>3
  <2>3. ReadsInv'
    BY <1>1, <1>3, <1>6, <2>2 DEF ReadsInv, Loaded
  <2> QED
    BY <1>2, <1>6, <2>1, <2>3 DEF GpioInv
<1>7. CASE ConfigureTimerMicros \/ ConfigureEnable
           \/ \E p \in Pins : \E interval \in {0, Interval} : ConfigureHandler(p, interval)
  <2>1. LastInv' /\ last' \in [Pins -> Times] /\ since' \in [Pins -> 0..Horizon]
        /\ lastTorn' \in [Pins -> BOOLEAN]
    <3>1. UNCHANGED <<last, since, lastTorn>>
      BY <1>7 DEF ConfigureTimerMicros, ConfigureEnable, ConfigureHandler, port, history
    <3> QED
      BY <1>2, <1>5, <3>1 DEF LastInv, Off
  <2>2. CASE ConfigureTimerMicros
    <3>1. PICK now \in FirstLoad : task' = [task EXCEPT !.now = now]
      BY <2>2 DEF ConfigureTimerMicros
    <3>2. now \in Reads
      BY <1>2, <3>1, FirstLoads DEF Reads
    <3>3. debounce' = debounce
      BY <2>2 DEF ConfigureTimerMicros, port
    <3> QED
      BY <1>5, <1>6, <2>1, <3>1, <3>2, <3>3
  <2>3. CASE ConfigureEnable
    <3>1. task' = [task EXCEPT !.step = "idle"] /\ debounce' = debounce
      BY <2>3 DEF ConfigureEnable
    <3> QED
      BY <1>5, <1>6, <2>1, <3>1
  <2>4. ASSUME NEW p \in Pins, NEW interval \in {0, Interval}, ConfigureHandler(p, interval)
        PROVE  GpioInv'
    <3>1. /\ task' = [step |-> "time", pin |-> p, now |-> NotReading]
          /\ debounce' = [debounce EXCEPT ![p] = interval]
      BY <2>4 DEF ConfigureHandler
    <3>2. /\ task' \in [step: {"idle", "time", "enable"}, pin: Pins \cup {"none"}, now: Reads]
          /\ task'.pin = p /\ task'.now = NotReading
      BY <3>1 DEF Reads
    <3>3. debounce' \in [Pins -> {0, Interval}]
      BY <1>5, <3>1
    <3> QED
      BY <1>6, <2>1, <3>2, <3>3
  <2> QED
    BY <1>7, <2>2, <2>3, <2>4
<1>8. CASE ConfigureTime
  <2> DEFINE m == Micros(task.now)
             p == task.pin
  <2>1. /\ task.now \in CountReads \cup RolloverReads /\ p \in Pins /\ debounce' = debounce
        /\ last' = [last EXCEPT ![p] = m.time] /\ since' = [since EXCEPT ![p] = m.elapsed]
        /\ lastTorn' = [lastTorn EXCEPT ![p] = m.torn]
        /\ task' = [task EXCEPT !.step = "enable", !.now = NotReading]
    BY <1>5, <1>8 DEF ConfigureTime, Configuring, Reads
  <2>2. /\ m.time \in Times /\ m.elapsed \in 0..MaxDelay /\ m.torn \in BOOLEAN
        /\ Off(m.time, m.elapsed, m.torn)
    BY <1>2, <1>5, <2>1, MicrosIs
  <2> HIDE DEF m, p
  <2>3. m.elapsed \in 0..Horizon /\ m.elapsed \in Nat /\ m.time \in Nat
    BY <1>2, <2>2, ClockFacts DEF Times
  <2>4. /\ last' \in [Pins -> Times] /\ since' \in [Pins -> 0..Horizon]
        /\ lastTorn' \in [Pins -> BOOLEAN]
    BY <1>5, <2>1, <2>2, <2>3
  <2>5. LastInv'
    <3>1. SUFFICES ASSUME NEW q \in Pins
                   PROVE  /\ since'[q] < Horizon => Off(last[q], since[q], lastTorn[q])'
                          /\ ~lastTorn'[q] => last'[q] + since'[q] <= Time'
      BY DEF LastInv
    <3>2. CASE q = p
      <4>1. last'[q] = m.time /\ since'[q] = m.elapsed /\ lastTorn'[q] = m.torn
        BY <1>5, <2>1, <3>2
      <4>2. ~m.torn => m.time + m.elapsed = Time
        BY <2>2 DEF Off
      <4> QED
        BY <1>2, <2>2, <2>3, <4>1, <4>2 DEF Off
    <3>3. CASE q # p
      <4>1. last'[q] = last[q] /\ since'[q] = since[q] /\ lastTorn'[q] = lastTorn[q]
        BY <1>5, <2>1, <3>3
      <4> QED
        BY <1>2, <1>5, <4>1 DEF Off, LastInv
    <3> QED
      BY <3>2, <3>3
  <2>6. /\ task' \in [step: {"idle", "time", "enable"}, pin: Pins \cup {"none"}, now: Reads]
        /\ task'.step = "enable" /\ task'.now = NotReading
    BY <1>5, <2>1 DEF Reads
  <2> QED
    BY <1>5, <1>6, <2>1, <2>4, <2>5, <2>6
<1>9. ASSUME NEW p \in Pins, ConfigureNone(p)
      PROVE  GpioInv'
  <2> DEFINE s == IF Time < Horizon THEN Time ELSE Horizon
  <2>1. /\ debounce' = [debounce EXCEPT ![p] = 0] /\ last' = [last EXCEPT ![p] = 0]
        /\ since' = [since EXCEPT ![p] = s] /\ lastTorn' = [lastTorn EXCEPT ![p] = FALSE]
        /\ task' = task
    BY <1>9 DEF ConfigureNone
  <2>2. s \in 0..Horizon /\ s \in Nat /\ s <= Time /\ (s < Horizon => s = Time) /\ 0 \in Times
        /\ Horizon \in Nat
    BY <1>2, ClockFacts DEF Times
  <2> HIDE DEF s
  <2>3. /\ debounce' \in [Pins -> {0, Interval}] /\ last' \in [Pins -> Times]
        /\ since' \in [Pins -> 0..Horizon] /\ lastTorn' \in [Pins -> BOOLEAN]
    BY <1>5, <2>1, <2>2
  <2>4. LastInv'
    <3>1. SUFFICES ASSUME NEW q \in Pins
                   PROVE  /\ since'[q] < Horizon => Off(last[q], since[q], lastTorn[q])'
                          /\ ~lastTorn'[q] => last'[q] + since'[q] <= Time'
      BY DEF LastInv
    <3>2. CASE q = p
      <4>1. last'[q] = 0 /\ since'[q] = s /\ ~lastTorn'[q]
        BY <1>5, <2>1, <3>2
      <4>2. 0 + s = s
        BY <2>2
      <4> QED
        BY <1>2, <2>2, <4>1, <4>2 DEF Off
    <3>3. CASE q # p
      <4>1. last'[q] = last[q] /\ since'[q] = since[q] /\ lastTorn'[q] = lastTorn[q]
        BY <1>5, <2>1, <3>3
      <4> QED
        BY <1>2, <1>5, <4>1 DEF Off, LastInv
    <3> QED
      BY <3>2, <3>3
  <2> QED
    BY <1>5, <1>6, <2>1, <2>3, <2>4
<1> QED
  BY <1>7, <1>8, <1>9

\* At an interrupt the handler answers the edge exactly if the interval has passed, also across
\* rollovers of the counter; a time that was loaded in two parts costs one edge at most.
THEOREM EdgesDebounced == GpioSpec => []Debounced
PROOF
<1>1. GpioInit => GpioInv
  <2>1. SUFFICES ASSUME GpioInit PROVE GpioInv
    OBVIOUS
  <2>2. /\ Width \in Nat /\ Width > 0 /\ MaxDelay \in Nat /\ Rollovers \in Nat /\ Rollovers > 0
        /\ Horizon = Width + MaxDelay
    BY GpioAssumption DEF Horizon
  <2>3. rolledOver \in BOOLEAN /\ ~rolledOver /\ count = 0 /\ rollover = 0
    BY <2>1 DEF GpioInit
  <2>4. ClockTypes
    BY <2>2, <2>3 DEF ClockTypes
  <2>5. Time = 0 /\ 0 \in Times
    <3>1. 0 * Width = 0
      BY <2>2, Multiples
    <3> QED
      BY <2>2, <2>3, <2>4, <3>1, ClockFacts DEF Times
  <2>6. NotReading \in Reads /\ NotReading.at \notin {"count", "rollover"}
    BY DEF Reads, NotReading
  <2>7. PinTypes
    BY <2>1, <2>2, <2>5, <2>6 DEF GpioInit, PinTypes
  <2>8. LastInv
    <3>1. \A q \in Pins : last[q] = 0 /\ since[q] = 0 /\ lastTorn[q] = FALSE
      BY <2>1 DEF GpioInit
    <3> QED
      BY <2>5, <3>1 DEF LastInv, Off
  <2>9. ReadsInv
    BY <2>1, <2>6 DEF GpioInit, ReadsInv, Loaded
  <2>10. Debounced
    BY <2>1, <2>2 DEF GpioInit, Debounced
  <2> QED
    BY <2>4, <2>7, <2>8, <2>9, <2>10 DEF GpioInv
<1>2. GpioInv /\ [GpioNext]_gpioVars => GpioInv'
  <2>1. SUFFICES ASSUME GpioInv, [GpioNext]_gpioVars PROVE GpioInv'
    OBVIOUS
  <2> QED
    BY <2>1, TickInv, RolloverInv, InterruptInv, HandlerInv, ConfigureInv DEF GpioNext
<1>3. GpioInv => Debounced
  BY DEF GpioInv
<1> QED
  BY <1>1, <1>2, <1>3, PTL DEF GpioSpec
-----------------------------------------------------------------------------
(* The board                                                               *)

\* Whatever moves, each part makes a step of its own or none.
LEMMA PartsMove ==
  ASSUME [BoardNext]_boardVars
  PROVE  /\ [FlashNext]_flashVars /\ [ConsoleNext]_consoleVars /\ [GpioNext]_gpioVars
         /\ [RpcNext]_rpcVars /\ [CascadeNext]_cascadeVars
PROOF
<1>1. CASE FlashNext /\ UNCHANGED <<consoleVars, gpioVars, rpcVars, cascadeVars, part>>
  BY <1>1
<1>2. CASE (Input \/ Output) /\ UNCHANGED <<flashVars, gpioVars, rpcVars, cascadeVars, part>>
  BY <1>2 DEF ConsoleNext
<1>3. CASE GpioNext /\ UNCHANGED <<flashVars, consoleVars, rpcVars, cascadeVars, part>>
  BY <1>3
<1>4. CASE RpcNext /\ UNCHANGED <<flashVars, consoleVars, gpioVars, cascadeVars, part>>
  BY <1>4
<1>5. CASE CascadeNext /\ UNCHANGED <<flashVars, consoleVars, gpioVars, rpcVars, part>>
  BY <1>5
<1>6. CASE UNCHANGED boardVars
  BY <1>6 DEF boardVars
<1> QED
  BY <1>1, <1>2, <1>3, <1>4, <1>5, <1>6 DEF BoardNext

\* The board implements the specification of each of its parts, fairness included.
THEOREM PartsAsSpecified ==
  BoardSpec => FlashSpec /\ ConsoleSpec /\ GpioSpec /\ RpcSpec /\ CascadeSpec
PROOF
<1>1. BoardInit => FlashInit /\ ConsoleInit /\ GpioInit /\ RpcInit /\ CascadeInit
  BY DEF BoardInit
<1>2. [BoardNext]_boardVars =>
        /\ [FlashNext]_flashVars /\ [ConsoleNext]_consoleVars /\ [GpioNext]_gpioVars
        /\ [RpcNext]_rpcVars /\ [CascadeNext]_cascadeVars
  BY PartsMove
<1> QED
  BY <1>1, <1>2, PTL DEF BoardSpec, FlashSpec, ConsoleSpec, GpioSpec, RpcSpec, CascadeSpec

\* So the safety properties of flashing, the console, the pins, the RPC server and the
\* cascade that are proved above and in their modules hold on the board.
THEOREM BoardIsSafe ==
  BoardSpec => [](/\ FlashingUndisturbed /\ BootsWhatWasFlashed
                  /\ RingHoldsLatest /\ OneByOne /\ Debounced /\ RepliesBelong
                  /\ OneCoreHasCamera /\ PictureStays)
PROOF
<1> QED
  BY PartsAsSpecified, FlashingIsUndisturbed, FlashedBoots, RingIsRight, MessagesOneByOne,
     EdgesDebounced, RepliesAreOwn, CameraShared, TensorKept, PTL
=============================================================================
