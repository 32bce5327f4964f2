------------------------------ MODULE JsonRpc -------------------------------
(***************************************************************************)
(* The RPC server of the board (libs/rpc/rpc_http_server.cc): callbacks    *)
(* that lwIP's HTTP server calls from its one task, for POSTs on several   *)
(* connections at a time.  A map from connections to buffers holds first   *)
(* what has been received of a request, then the reply to it.              *)
(*                                                                         *)
(* A connection is the address of lwIP's state for it, which is used again *)
(* for a later connection.  lwIP calls PostFinished when all data has been *)
(* received and then opens the response at once; when the connection is    *)
(* closed before, it calls PostFinished as well, but opens no response     *)
(* (libs/base/http_server.h: "Called when all data is received or when the *)
(* connection is closed").  A request is sent in RequestPackets packets.   *)
(***************************************************************************)
EXTENDS Naturals, Sequences, SequencesExt, Functions

CONSTANTS
  Connections,    \* addresses of connections
  Requests,       \* contents of requests
  RequestPackets  \* packets of a request

ASSUME JsonRpcAssumption == RequestPackets \in Nat \ {0}

VARIABLES
  posting,  \* the connections with a request of which data is missing
  sending,  \* those with an open response
  request,  \* the request of each connection
  packets,  \* the packets of it that have been received
  buffers,  \* buffers_
  cutOff    \* those whose last POST was cut off, and no response opened since

rpcVars == <<posting, sending, request, packets, buffers, cutOff>>

Part(r, i) == [request |-> r, part |-> i]
Reply(r) == <<[reply |-> r]>>

\* buffers_[connection] makes an empty buffer if there is none.
Buffer(c) == IF c \in DOMAIN buffers THEN buffers[c] ELSE <<>>
WithBuffer(c, contents) ==
  [d \in DOMAIN buffers \cup {c} |-> IF d = c THEN contents ELSE buffers[d]]

\* jsonrpc_ctx_process: the reply to a request that is all there, and nothing
\* else, or an error.
Process(contents) ==
  LET answered == {r \in Requests :
        contents = [i \in 1..RequestPackets |-> Part(r, i)]}
  IN IF answered = {} THEN Reply("error") ELSE Reply(CHOOSE r \in answered : TRUE)
-----------------------------------------------------------------------------
\* PostBegin reserves memory and leaves what the buffer holds.
PostBegin(c, r) ==
  /\ c \notin posting \cup sending
  /\ posting' = posting \cup {c}
  /\ request' = [request EXCEPT ![c] = r]
  /\ packets' = [packets EXCEPT ![c] = 0]
  /\ buffers' = WithBuffer(c, Buffer(c))
  /\ UNCHANGED <<sending, cutOff>>

PostReceiveData(c) ==
  /\ c \in posting /\ packets[c] < RequestPackets
  /\ packets' = [packets EXCEPT ![c] = @ + 1]
  /\ buffers' = WithBuffer(c, Append(Buffer(c), Part(request[c], packets'[c])))
  /\ UNCHANGED <<posting, sending, request, cutOff>>

\* PostFinished, then FsOpenCustom and CgiHandler for the response's URI, which
\* names the connection.
PostFinished(c) ==
  /\ c \in posting /\ packets[c] = RequestPackets
  /\ buffers' = WithBuffer(c, Process(Buffer(c)))
  /\ posting' = posting \ {c}
  /\ sending' = sending \cup {c}
  /\ UNCHANGED <<request, packets, cutOff>>

\* The connection is closed during the POST.
PostCutOff(c) ==
  /\ c \in posting /\ packets[c] < RequestPackets
  /\ buffers' = WithBuffer(c, Process(Buffer(c)))
  /\ posting' = posting \ {c}
  /\ cutOff' = cutOff \cup {c}
  /\ UNCHANGED <<sending, request, packets>>

\* Mutant of Erased: the reply is kept.
ErasedNot(c) == buffers

Erased(c) == Restrict(buffers, DOMAIN buffers \ {c})

\* The response has been sent, or the connection is closed during it.
FsCloseCustom(c) ==
  /\ c \in sending
  /\ buffers' = Erased(c)
  /\ sending' = sending \ {c}
  /\ cutOff' = cutOff \ {c}
  /\ UNCHANGED <<posting, request, packets>>

RpcInit ==
  /\ posting = {} /\ sending = {} /\ cutOff = {}
  /\ request = [c \in Connections |-> "none"]
  /\ packets = [c \in Connections |-> 0]
  /\ buffers = <<>>

RpcNext ==
  \E c \in Connections :
    \/ PostReceiveData(c) \/ PostFinished(c) \/ PostCutOff(c) \/ FsCloseCustom(c)
    \/ \E r \in Requests : PostBegin(c, r)

RpcSpec == RpcInit /\ [][RpcNext]_rpcVars
-----------------------------------------------------------------------------
\* A connection is sent the reply to its own request, whatever other
\* connections do in the meantime and whichever connection had its address
\* before, and a buffer is kept no longer than its connection.  A POST that is
\* cut off leaves its buffer behind, and spoils the next request at that
\* address: that one, but none after it.
RepliesBelong ==
  /\ \A c \in sending \ cutOff : buffers[c] = Reply(request[c])
  /\ DOMAIN buffers \subseteq posting \cup sending \cup cutOff
=============================================================================
