----------------------------- MODULE RepairStream -----------------------------
(***************************************************************************)
(* One repair connection as bytes, from the start of the server's thread to *)
(* the end of its process: drain_tcp() and the network side of nak() in     *)
(* src/src/subscriber.h against serve_one_client() in src/src/feedpublisher.h, *)
(* over sockets that hold only so much.                                     *)
(*                                                                         *)
(* Subscriber and ReliableFeed deal in whole frames and let a connection    *)
(* take all that is written; this module is what entitles them to it.  What *)
(* a frame does to the holes is theirs.  A byte is known by the frame it is *)
(* of and its place in it; request bytes are only counted.                  *)
(***************************************************************************)
EXTENDS Integers, Sequences, SequencesExt

CONSTANTS
  NumBuckets,
  HeaderSize,   \* bytes of a frame header (12)
  MessageSize,  \* ORDER_MESSAGE_SIZE (29)
  OddSize,      \* a length no frame of ours has, announced by some other peer
  BufferCap,    \* REPAIR_BUF_CAP
  SocketCap,    \* bytes the kernel holds in each direction
  RequestSize,  \* bytes of a request
  Answer,       \* what may be answered to one: a set of sequences of bytes
  MaxBreaks     \* bound: times the network breaks a connection

Bucket == 1..NumBuckets
Body == [message |-> MessageSize, gone |-> 0, odd |-> OddSize]

FrameSize(kind) == HeaderSize + Body[kind]
Byte == [kind : DOMAIN Body, at : 1..BufferCap]
Bytes(kind) == [i \in 1..FrameSize(kind) |-> [kind |-> kind, at |-> i]]

(* Byte i of q is in its place in a frame, which may be cut by the end of q. *)
InFrame(q, i) ==
  LET front == i - q[i].at
  IN  /\ front >= 0 /\ q[i].at <= FrameSize(q[i].kind)
      /\ \A k \in 1..FrameSize(q[i].kind) :
           front + k <= Len(q) => q[front + k] = Bytes(q[i].kind)[k]

Framed(q) == \A i \in DOMAIN q : InFrame(q, i)
Complete(q) == \A i \in DOMAIN q : i - q[i].at + FrameSize(q[i].kind) <= Len(q)

(* The buffer has room for the longest frame a 16-bit length can announce,  *)
(* and a new connection for one request of every bucket; what is answered   *)
(* is whole frames.                                                         *)
ASSUME StreamAssumption ==
  /\ {NumBuckets, HeaderSize, MessageSize, RequestSize} \subseteq Nat \ {0}
  /\ OddSize \in Nat \ {0, MessageSize} /\ MaxBreaks \in Nat
  /\ BufferCap \in Nat /\ \A k \in DOMAIN Body : FrameSize(k) <= BufferCap
  /\ SocketCap \in Nat /\ NumBuckets * RequestSize <= SocketCap
  /\ \A a \in Answer : a \in Seq(Byte) /\ a # <<>> /\ Framed(a) /\ Complete(a)

VARIABLES
  up, listening,      \* the process of the server; its listening socket
  server,             \* the thread of this connection: "idle", "reading", "writing"
  got,                \* bytes of the next request it has read
  response,           \* bytes it has yet to write
  link,               \* "none", "open", "reset" or "closed", as the client sees it
  toServer, toClient, \* bytes in the sockets
  client, turn,       \* position in run() and pump()
  due,                \* buckets that have something to ask for
  buffer,             \* repair_buffer_
  unwritten,          \* bytes of the request being written
  blocked,            \* before repair_blocked_until_
  breaks

serverVars == <<up, listening, server, got, response>>
networkVars == <<link, toServer, toClient, breaks>>
clientVars == <<client, turn, due, buffer, unwritten, blocked>>
streamVars == <<serverVars, networkVars, clientVars>>

Least(m, n) == IF m < n THEN m ELSE n
From(q, n) == SubSeq(q, n + 1, Len(q))

Init ==
  /\ up = TRUE /\ listening = FALSE
  /\ server = "idle" /\ got = 0 /\ response = <<>>
  /\ link = "none" /\ toServer = 0 /\ toClient = <<>> /\ breaks = 0
  /\ client = "poll" /\ turn = 1 /\ due = {}
  /\ buffer = <<>> /\ unwritten = 0 /\ blocked = FALSE

-----------------------------------------------------------------------------
(* The server.                                                              *)

(* serve_repairs() runs in a detached thread that nobody waits for.         *)
Listen ==
  /\ up /\ ~listening
  /\ listening' = TRUE
  /\ UNCHANGED <<up, server, got, response, networkVars, clientVars>>

(* read_exact(): a request is answered when its last byte has come.         *)
ReadRequest ==
  /\ server = "reading" /\ toServer > 0
  /\ LET n == Least(RequestSize - got, toServer) IN
       /\ toServer' = toServer - n
       /\ IF got + n < RequestSize
          THEN got' = got + n /\ UNCHANGED <<server, response>>
          ELSE /\ got' = 0 /\ server' = "writing"
               /\ response' \in Answer
  /\ UNCHANGED <<up, listening, link, toClient, breaks, clientVars>>

(* write_all() on a blocking socket: waits as long as there is no room.     *)
WriteResponse ==
  /\ server = "writing" /\ Len(toClient) < SocketCap
  /\ LET n == Least(Len(response), SocketCap - Len(toClient)) IN
       /\ toClient' = toClient \o SubSeq(response, 1, n)
       /\ response' = From(response, n)
       /\ server' = IF n = Len(response) THEN "reading" ELSE "writing"
  /\ UNCHANGED <<up, listening, got, link, toServer, breaks, clientVars>>

ThreadEnds == server' = "idle" /\ got' = 0 /\ response' = <<>> /\ toServer' = 0

(* The connection ends on the server's side.  What is on its way may arrive *)
(* in part; a reset shows as one error before recv() returns 0.             *)
LoseConnection(how) ==
  /\ ThreadEnds
  /\ IF link = "open"
     THEN /\ link' = how
          /\ \E n \in 0..Len(toClient) : toClient' = SubSeq(toClient, 1, n)
     ELSE UNCHANGED <<link, toClient>>

Exit ==
  /\ up /\ up' = FALSE /\ listening' = FALSE
  /\ \E how \in {"closed", "reset"} : LoseConnection(how)
  /\ UNCHANGED <<breaks, clientVars>>

Break ==
  /\ link = "open" /\ breaks < MaxBreaks
  /\ breaks' = breaks + 1
  /\ LoseConnection("reset")
  /\ UNCHANGED <<up, listening, clientVars>>

-----------------------------------------------------------------------------
(* The client: drain_tcp().                                                 *)

(* Seeded fault: the half-frame of the old connection stays in the buffer.  *)
ResetKeepsBytes == link' = "none" /\ UNCHANGED buffer

ResetRepair == link' = "none" /\ buffer' = <<>>

(* reset_repair(); the server's thread finds out and closes its end.        *)
Hangup == ResetRepair /\ toClient' = <<>> /\ ThreadEnds

Wake ==
  /\ client = "poll"
  /\ client' = IF link = "none" THEN "ask" ELSE "recv"
  /\ \E more \in SUBSET Bucket : due' = due \cup more
  /\ UNCHANGED <<turn, buffer, unwritten, blocked, serverVars, networkVars>>

Full == Len(buffer) = BufferCap

(* Seeded fault: as much is received as the socket holds.                   *)
RoomOfSocket == SocketCap

Room == BufferCap - Len(buffer)

Receive ==
  /\ client = "recv" /\ ~Full /\ toClient # <<>>
  /\ LET n == Least(Room, Len(toClient)) IN
       /\ buffer' = buffer \o SubSeq(toClient, 1, n)
       /\ toClient' = From(toClient, n)
  /\ UNCHANGED <<client, turn, due, unwritten, blocked, serverVars, link, toServer, breaks>>

(* The buffer is full, or recv() fails: with EAGAIN, or once with an error  *)
(* that is taken for EAGAIN.                                                *)
Drained ==
  /\ client = "recv"
  /\ \/ Full /\ UNCHANGED link
     \/ ~Full /\ toClient = <<>> /\ link = "open" /\ UNCHANGED link
     \/ ~Full /\ toClient = <<>> /\ link = "reset" /\ link' = "closed"
  /\ client' = "parse"
  /\ UNCHANGED <<turn, due, buffer, unwritten, blocked, serverVars, toServer, toClient, breaks>>

PeerClosed ==
  /\ client = "recv" /\ ~Full /\ toClient = <<>> /\ link = "closed"
  /\ Hangup
  /\ client' = "ask"
  /\ UNCHANGED <<turn, due, unwritten, blocked, up, listening, breaks>>

(* What a header at the front of the buffer reads as: anything, if it is    *)
(* not one.                                                                 *)
LengthRead ==
  LET kind == buffer[1].kind
  IN  IF IsPrefix(SubSeq(Bytes(kind), 1, HeaderSize), buffer)
      THEN {Body[kind]} ELSE {Body[k] : k \in DOMAIN Body}

(* Seeded fault: off by one, the last byte of the buffer is never used.     *)
WholeAndMore(n) == Len(buffer) > HeaderSize + n

Whole(n) == Len(buffer) >= HeaderSize + n

ParseFrame ==
  /\ client = "parse" /\ Len(buffer) >= HeaderSize
  /\ \E n \in LengthRead \cap {0, MessageSize} :
       Whole(n) /\ buffer' = From(buffer, HeaderSize + n)
  /\ UNCHANGED <<client, turn, due, unwritten, blocked, serverVars, networkVars>>

BadFrame ==
  /\ client = "parse" /\ Len(buffer) >= HeaderSize
  /\ \E n \in LengthRead \ {0, MessageSize} : Whole(n)
  /\ Hangup
  /\ client' = "ask"
  /\ UNCHANGED <<turn, due, unwritten, blocked, up, listening, breaks>>

(* Half a frame stays for the next call.                                    *)
HalfFrame == IF Len(buffer) < HeaderSize THEN TRUE ELSE \E n \in LengthRead : ~Whole(n)

Parsed ==
  /\ client = "parse" /\ HalfFrame
  /\ client' = "ask"
  /\ UNCHANGED <<turn, due, buffer, unwritten, blocked, serverVars, networkVars>>

-----------------------------------------------------------------------------
(* The client: nak(), one bucket after the other.                           *)

NextBucket ==
  IF turn < NumBuckets
  THEN turn' = turn + 1 /\ client' = "ask"
  ELSE turn' = 1 /\ client' = "poll"

Asks == turn \in due /\ ~(link = "none" /\ blocked)

Quiet ==
  /\ client = "ask" /\ ~Asks
  /\ NextBucket
  /\ UNCHANGED <<due, buffer, unwritten, blocked, serverVars, networkVars>>

Refused ==
  /\ client = "ask" /\ Asks /\ link = "none" /\ ~listening
  /\ blocked' = TRUE
  /\ NextBucket
  /\ UNCHANGED <<due, buffer, unwritten, serverVars, networkVars>>

Connect ==
  /\ client = "ask" /\ Asks /\ link = "none" /\ listening
  /\ link' = "open" /\ server' = "reading"
  /\ client' = "write" /\ unwritten' = RequestSize
  /\ UNCHANGED <<up, listening, got, response, toServer, toClient, breaks, turn, due,
                 buffer, blocked>>

Ask ==
  /\ client = "ask" /\ Asks /\ link # "none"
  /\ client' = "write" /\ unwritten' = RequestSize
  /\ UNCHANGED <<turn, due, buffer, blocked, serverVars, networkVars>>

Asked == due' = due \ {turn} /\ NextBucket

(* send() takes what there is room for; into a connection the peer has      *)
(* closed it may still succeed.                                             *)
Write ==
  /\ client = "write"
  /\ \/ /\ link = "open" /\ toServer < SocketCap
        /\ LET n == Least(unwritten, SocketCap - toServer) IN
             /\ toServer' = toServer + n
             /\ unwritten' = unwritten - n
             /\ IF n = unwritten THEN Asked ELSE UNCHANGED <<client, turn, due>>
     \/ link = "closed" /\ unwritten' = 0 /\ Asked /\ UNCHANGED toServer
  /\ UNCHANGED <<buffer, blocked, serverVars, link, toClient, breaks>>

(* Seeded fault: a client without the time limit waits for room for ever.   *)
WriteFailsLate == link \in {"closed", "reset"}

(* No room within 100 ms, or the connection is gone.                        *)
WriteFailed == link \in {"closed", "reset"} \/ toServer = SocketCap

(* Seeded fault: the connection is kept although half a request is in it.    *)
GiveUpWriteOnly ==
  /\ client = "write" /\ WriteFailed
  /\ unwritten' = 0 /\ blocked' = TRUE
  /\ NextBucket
  /\ UNCHANGED <<due, buffer, serverVars, networkVars>>

GiveUpWrite ==
  /\ client = "write" /\ WriteFailed
  /\ Hangup
  /\ unwritten' = 0 /\ blocked' = TRUE
  /\ NextBucket
  /\ UNCHANGED <<due, up, listening, breaks>>

(* Seeded fault: the back-off ends only for a client that is connected.     *)
RetryConnected == blocked /\ link # "none"

RetryDue == blocked

RetryTime ==
  /\ RetryDue
  /\ blocked' = FALSE
  /\ UNCHANGED <<client, turn, due, buffer, unwritten, serverVars, networkVars>>

-----------------------------------------------------------------------------
ServerStep == ReadRequest \/ WriteResponse

ClientStep ==
  \/ Wake \/ Receive \/ Drained \/ PeerClosed
  \/ ParseFrame \/ BadFrame \/ Parsed
  \/ Quiet \/ Refused \/ Connect \/ Ask \/ Write \/ GiveUpWrite

Next == Listen \/ ServerStep \/ Exit \/ Break \/ ClientStep \/ RetryTime

(* All threads are scheduled and time passes.                               *)
Spec ==
  /\ Init /\ [][Next]_streamVars
  /\ WF_streamVars(Listen) /\ WF_streamVars(ServerStep)
  /\ WF_streamVars(ClientStep) /\ WF_streamVars(RetryTime)

-----------------------------------------------------------------------------
(* Properties.                                                              *)

(* Positions, counts and the bytes under way have their types; neither      *)
(* buffer nor sockets ever hold more than they can.                         *)
TypeOK ==
  /\ up \in BOOLEAN /\ listening \in BOOLEAN
  /\ server \in {"idle", "reading", "writing"}
  /\ got \in 0..(RequestSize - 1) /\ response \in Seq(Byte)
  /\ link \in {"none", "open", "reset", "closed"}
  /\ toServer \in 0..SocketCap
  /\ toClient \in Seq(Byte) /\ Len(toClient) <= SocketCap
  /\ breaks \in 0..MaxBreaks
  /\ client \in {"poll", "recv", "parse", "ask", "write"}
  /\ turn \in Bucket /\ due \subseteq Bucket
  /\ buffer \in Seq(Byte) /\ Len(buffer) <= BufferCap
  /\ unwritten \in 0..RequestSize /\ blocked \in BOOLEAN

(* The parser always stands at the first byte of a frame: however frames    *)
(* are cut by the sockets and the buffer and however often the connection   *)
(* is replaced, no header is read out of the middle of another frame.       *)
StreamIsFramed == Framed(buffer \o toClient \o response)

(* The server never takes the end of one request for the start of another:  *)
(* a request that could not be written in full ends the connection.         *)
RequestsAreFramed ==
  link = "open" => (got + toServer + unwritten) % RequestSize = 0

(* Parsing regains room: outside drain_tcp() the buffer is never full, so a *)
(* later call always receives something, be it the end of the stream.       *)
RoomIsRegained == client \notin {"recv", "parse"} => Len(buffer) < BufferCap

(* Server and client both writing with both sockets full do not wait for    *)
(* each other for ever: the client's write ends,                            *)
WriterIsFreed == (client = "write") ~> (client # "write")

(* and so does that of the server, which has no time limit of its own.      *)
ServerIsFreed == (server = "writing") ~> (server # "writing")

(* Whatever was due is asked for in the end, although the server may not    *)
(* have been listening yet, connections break and writes run out of time,   *)
(* unless the server's process is over.  Asked for means what nak() means   *)
(* by it: the whole request has been written.  One that the server closes   *)
(* the connection on counts too; a new nak after NAK_REPEAT_MS replaces it. *)
RequestsGetThrough == \A b \in Bucket : (b \in due) ~> (b \notin due \/ ~up)
=============================================================================
