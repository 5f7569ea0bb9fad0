---------------------------- MODULE FeedPublisher ----------------------------
(***************************************************************************)
(* The sending side of the reliable multicast (src/src/feedpublisher.h).    *)
(* The thread that decodes the venue's feed publishes; for each connected   *)
(* subscriber a detached thread answers repair requests out of the same     *)
(* rings.  ring_mutex is all that keeps them apart, so a slot is written    *)
(* and a batch is answered in several steps: whoever does not hold the      *)
(* mutex may run between any two of them.                                   *)
(*                                                                         *)
(* A message is a member of Msg or the terminator EndMsg.  The network is   *)
(* the set of datagrams ever sent.  A connection slot of Client is reused   *)
(* after its thread has ended.                                              *)
(***************************************************************************)
EXTENDS Integers, Sequences, FiniteSets

CONSTANTS
  NumBuckets,   \* bucket_count
  RingSize,     \* ring_size
  MaxBatch,     \* MAX_REPAIR_BATCH
  EndRounds,    \* times each terminator is sent (20)
  Msg, EndMsg,  \* payloads of the feed, and the payload of type 'E'
  Blank,        \* content of a slot nothing was written to
  Client,       \* repair connections
  Sequence,     \* bound: sequence numbers subscribers may ask for
  MaxPublished, \* bound: messages published per bucket before finish()
  MaxPipelined, \* bound: unanswered requests of one connection
  MaxUnread     \* bound: a client with more unread frames asks for no more

Bucket == 1..NumBuckets
Payload == Msg \cup {EndMsg}

ASSUME PublisherAssumption ==
  /\ NumBuckets \in Nat \ {0}
  /\ RingSize \in Nat \ {0}
  /\ MaxBatch \in Nat \ {0}
  /\ EndRounds \in Nat \ {0}
  /\ EndMsg \notin Msg
  /\ Blank \notin Payload
  /\ Sequence \subseteq Nat
  /\ MaxPublished \in Nat
  /\ MaxPipelined \in Nat \ {0}
  /\ MaxUnread \in Nat

CONSTANTS Free, Main   \* who may hold the mutex, next to the clients
ASSUME HolderAssumption == Free # Main /\ Free \notin Client /\ Main \notin Client

VARIABLES
  ring,          \* Bucket::ring
  nextSequence,  \* Bucket::next_sequence
  mutex,         \* holder of ring_mutex
  pc, current,   \* the publishing thread: where it is and what it publishes
  turn, round,   \* loop variables of finish()
  log,           \* history: the messages of each bucket in publishing order
  multicast,     \* history: datagrams handed to the network
  link, inbox, outbox,      \* each repair connection and the bytes on it
  step, request, response   \* the thread of each connection

mainVars == <<pc, current, turn, round>>
ringVars == <<ring, nextSequence>>
socketVars == <<link, inbox, outbox>>
threadVars == <<step, request, response>>
publisherVars == <<ring, nextSequence, mutex, pc, current, turn, round, log,
                   multicast, link, inbox, outbox, step, request, response>>

Slot == [sequence : Nat, used : BOOLEAN, msg : Payload \cup {Blank}]
UnusedSlot == [sequence |-> 0, used |-> FALSE, msg |-> Blank]

Idle == [bucket |-> 1, msg |-> EndMsg, sequence |-> 0]

(* nak() asks in ascending order and never twice in one request.            *)
Ascending(q) == \A i, j \in DOMAIN q : i < j => q[i] < q[j]
Batch == {q \in UNION {[1..n -> Sequence] : n \in 1..MaxBatch} : Ascending(q)}
Malformed == [bucket |-> 0, sequences |-> <<>>]
Request == [bucket : Bucket, sequences : Batch] \cup {Malformed}

Init ==
  /\ ring = [b \in Bucket |-> [i \in 0..(RingSize - 1) |-> UnusedSlot]]
  /\ nextSequence = [b \in Bucket |-> 1]
  /\ mutex = Free
  /\ pc = "ready"
  /\ current = Idle
  /\ turn = 1
  /\ round = 0
  /\ log = [b \in Bucket |-> <<>>]
  /\ multicast = {}
  /\ link = [c \in Client |-> "none"]
  /\ inbox = [c \in Client |-> <<>>]
  /\ outbox = [c \in Client |-> <<>>]
  /\ step = [c \in Client |-> "idle"]
  /\ request = [c \in Client |-> Malformed]
  /\ response = [c \in Client |-> <<>>]

-----------------------------------------------------------------------------
(* Writing a slot: the number first, the payload after it.                  *)

StampSlot(b) ==
  LET s == nextSequence[b] IN
    /\ ring' = [ring EXCEPT ![b][s % RingSize].sequence = s,
                            ![b][s % RingSize].used = TRUE]
    /\ nextSequence' = [nextSequence EXCEPT ![b] = s + 1]

(* Seeded fault: the payload lands in the slot of the next sequence.        *)
FillNextSlot(b, s, m) == ring' = [ring EXCEPT ![b][(s + 1) % RingSize].msg = m]

FillSlot(b, s, m) == ring' = [ring EXCEPT ![b][s % RingSize].msg = m]

-----------------------------------------------------------------------------
(* publish(): the main thread, called with a message of bucket b.           *)

PublishLock(b, m) ==
  /\ pc = "ready" /\ mutex = Free
  /\ Len(log[b]) < MaxPublished
  /\ mutex' = Main
  /\ current' = [bucket |-> b, msg |-> m, sequence |-> nextSequence[b]]
  /\ pc' = "stamp"
  /\ UNCHANGED <<ringVars, turn, round, log, multicast, socketVars, threadVars>>

PublishStamp ==
  /\ pc = "stamp"
  /\ StampSlot(current.bucket)
  /\ pc' = "fill"
  /\ UNCHANGED <<mutex, current, turn, round, log, multicast, socketVars, threadVars>>

PublishFill ==
  /\ pc = "fill"
  /\ FillSlot(current.bucket, current.sequence, current.msg)
  /\ pc' = "unlock"
  /\ UNCHANGED <<nextSequence, mutex, current, turn, round, log, multicast,
                 socketVars, threadVars>>

PublishUnlock ==
  /\ pc = "unlock"
  /\ mutex' = Free
  /\ log' = [log EXCEPT ![current.bucket] = Append(log[current.bucket], current.msg)]
  /\ pc' = "send"
  /\ UNCHANGED <<ringVars, current, turn, round, multicast, socketVars, threadVars>>

(* Seeded fault: next_sequence is read again after its increment.            *)
DatagramAhead(b, s, m) == [bucket |-> b, sequence |-> s + 1, msg |-> m]

Datagram(b, s, m) == [bucket |-> b, sequence |-> s, msg |-> m]

(* The datagram goes out, or the loss injection swallows it.                *)
PublishSend ==
  /\ pc = "send"
  /\ \/ multicast' = multicast
           \cup {Datagram(current.bucket, current.sequence, current.msg)}
     \/ UNCHANGED multicast
  /\ pc' = "ready" /\ current' = Idle
  /\ UNCHANGED <<ringVars, mutex, turn, round, log, socketVars, threadVars>>

-----------------------------------------------------------------------------
(* finish(): every bucket gets its terminator in one critical section; the  *)
(* terminators are then sent EndRounds times.                               *)

FinishLock ==
  /\ pc = "ready" /\ mutex = Free
  /\ mutex' = Main
  /\ pc' = "stampEnd" /\ turn' = 1
  /\ UNCHANGED <<ringVars, current, round, log, multicast, socketVars, threadVars>>

FinishStamp ==
  /\ pc = "stampEnd"
  /\ StampSlot(turn)
  /\ pc' = "fillEnd"
  /\ UNCHANGED <<mutex, current, turn, round, log, multicast, socketVars, threadVars>>

(* Seeded fault: the loop over the buckets runs once too often.             *)
FinishFillOverrun ==
  /\ pc = "fillEnd"
  /\ FillSlot(turn, nextSequence[turn] - 1, EndMsg)
  /\ IF turn <= NumBuckets
     THEN pc' = "stampEnd" /\ turn' = turn + 1
     ELSE pc' = "unlockEnd" /\ turn' = 1
  /\ UNCHANGED <<nextSequence, mutex, current, round, log, multicast, socketVars,
                 threadVars>>

FinishFill ==
  /\ pc = "fillEnd"
  /\ FillSlot(turn, nextSequence[turn] - 1, EndMsg)
  /\ IF turn < NumBuckets
     THEN pc' = "stampEnd" /\ turn' = turn + 1
     ELSE pc' = "unlockEnd" /\ turn' = 1
  /\ UNCHANGED <<nextSequence, mutex, current, round, log, multicast, socketVars,
                 threadVars>>

FinishUnlock ==
  /\ pc = "unlockEnd"
  /\ mutex' = Free
  /\ log' = [b \in Bucket |-> Append(log[b], EndMsg)]
  /\ pc' = "announce" /\ round' = 1
  /\ UNCHANGED <<ringVars, current, turn, multicast, socketVars, threadVars>>

Announce ==
  /\ pc = "announce"
  /\ \/ multicast' = multicast \cup {Datagram(turn, nextSequence[turn] - 1, EndMsg)}
     \/ UNCHANGED multicast
  /\ IF turn < NumBuckets
     THEN turn' = turn + 1 /\ UNCHANGED <<pc, round>>
     ELSE turn' = 1 /\ IF round < EndRounds
                       THEN round' = round + 1 /\ UNCHANGED pc
                       ELSE pc' = "done" /\ UNCHANGED round
  /\ UNCHANGED <<ringVars, mutex, current, log, socketVars, threadVars>>

(* What a client may still get of the answers on a lost connection.         *)
Prefixes(q) == {SubSeq(q, 1, n) : n \in 0..Len(q)}

(* main() returns: the detached threads die wherever they are.              *)
Exit ==
  /\ pc = "done"
  /\ pc' = "exited"
  /\ link' = [c \in Client |-> IF link[c] = "open" THEN "lost" ELSE link[c]]
  /\ inbox' = [c \in Client |-> <<>>]
  /\ outbox' \in [Client -> UNION {Prefixes(outbox[c]) : c \in Client}]
  /\ \A c \in Client : outbox'[c] \in Prefixes(outbox[c])
  /\ step' = [c \in Client |-> "idle"]
  /\ request' = [c \in Client |-> Malformed]
  /\ response' = [c \in Client |-> <<>>]
  /\ UNCHANGED <<ringVars, mutex, current, turn, round, log, multicast>>

-----------------------------------------------------------------------------
(* serve_repairs() and serve_one_client(): a thread per connection.         *)

Alive == pc # "exited"

(* accept() and the start of the connection's thread.                       *)
Accept(c) ==
  /\ Alive /\ link[c] = "none" /\ step[c] = "idle"
  /\ link' = [link EXCEPT ![c] = "open"]
  /\ step' = [step EXCEPT ![c] = "read"]
  /\ UNCHANGED <<ringVars, mutex, mainVars, log, multicast, inbox, outbox,
                 request, response>>

(* The socket is closed with the client's requests unread.                  *)
CloseSocket(c) ==
  /\ link' = [link EXCEPT ![c] = IF link[c] = "open" THEN "lost" ELSE link[c]]
  /\ inbox' = [inbox EXCEPT ![c] = <<>>]
  /\ step' = [step EXCEPT ![c] = "idle"]

ReadRequest(c) ==
  /\ Alive /\ step[c] = "read" /\ inbox[c] # <<>> /\ Head(inbox[c]) # Malformed
  /\ request' = [request EXCEPT ![c] = Head(inbox[c])]
  /\ inbox' = [inbox EXCEPT ![c] = Tail(inbox[c])]
  /\ step' = [step EXCEPT ![c] = "lock"]
  /\ UNCHANGED <<ringVars, mutex, mainVars, log, multicast, link, outbox, response>>

(* A bucket or a batch size out of range, or read_exact() fails: the client *)
(* has closed or the connection breaks.                                     *)
RejectRequest(c) ==
  /\ Alive /\ step[c] = "read"
  /\ \/ inbox[c] # <<>> /\ Head(inbox[c]) = Malformed
     \/ inbox[c] = <<>> /\ link[c] = "none"
     \/ link[c] = "open"
  /\ CloseSocket(c)
  /\ \E q \in Prefixes(outbox[c]) : outbox' = [outbox EXCEPT ![c] = q]
  /\ UNCHANGED <<ringVars, mutex, mainVars, log, multicast, request, response>>

(* Seeded fault: the batch is answered without waiting for ring_mutex.      *)
LockRingAnyway(c) ==
  /\ Alive /\ step[c] = "lock"
  /\ mutex' = c
  /\ step' = [step EXCEPT ![c] = "answer"]
  /\ UNCHANGED <<ringVars, mainVars, log, multicast, socketVars, request, response>>

LockRing(c) ==
  /\ Alive /\ step[c] = "lock" /\ mutex = Free
  /\ mutex' = c
  /\ step' = [step EXCEPT ![c] = "answer"]
  /\ UNCHANGED <<ringVars, mainVars, log, multicast, socketVars, request, response>>

AnsweringShort(c) == Len(response[c]) + 1 < Len(request[c].sequences)  \* seeded fault

Answering(c) == Len(response[c]) < Len(request[c].sequences)

(* Seeded fault: the loop over the batch does not advance.                  *)
AnswerOneStuck(c) ==
  Alive /\ step[c] = "answer" /\ Answering(c) /\ UNCHANGED publisherVars

(* One sequence of the batch is looked up and its frame appended.           *)
AnswerOne(c) ==
  /\ Alive /\ step[c] = "answer" /\ Answering(c)
  /\ LET s == request[c].sequences[Len(response[c]) + 1]
         slot == ring[request[c].bucket][s % RingSize]
         inRing == slot.used /\ slot.sequence = s
     IN  response' = [response EXCEPT ![c] = Append(response[c],
           [bucket |-> request[c].bucket, sequence |-> s, inRing |-> inRing,
            msg |-> IF inRing THEN slot.msg ELSE Blank])]
  /\ UNCHANGED <<ringVars, mutex, mainVars, log, multicast, socketVars, step, request>>

UnlockRing(c) ==
  /\ Alive /\ step[c] = "answer" /\ ~Answering(c)
  /\ mutex' = Free
  /\ step' = [step EXCEPT ![c] = "write"]
  /\ request' = [request EXCEPT ![c] = Malformed]
  /\ UNCHANGED <<ringVars, mainVars, log, multicast, socketVars, response>>

WriteResponse(c) ==
  /\ Alive /\ step[c] = "write" /\ link[c] = "open"
  /\ outbox' = [outbox EXCEPT ![c] = outbox[c] \o response[c]]
  /\ step' = [step EXCEPT ![c] = "read"]
  /\ response' = [response EXCEPT ![c] = <<>>]
  /\ UNCHANGED <<ringVars, mutex, mainVars, log, multicast, link, inbox, request>>

(* write_all() fails: the client is gone or the connection breaks.          *)
WriteFails(c) ==
  /\ Alive /\ step[c] = "write"
  /\ CloseSocket(c)
  /\ IF link[c] = "open"
     THEN \E q \in Prefixes(outbox[c] \o response[c]) :
            outbox' = [outbox EXCEPT ![c] = q]
     ELSE UNCHANGED outbox
  /\ response' = [response EXCEPT ![c] = <<>>]
  /\ UNCHANGED <<ringVars, mutex, mainVars, log, multicast, request>>

-----------------------------------------------------------------------------
(* The subscribers' ends of the connections.                                *)

ClientAsks(c, r) ==
  /\ link[c] = "open"
  /\ Len(inbox[c]) + (IF step[c] \in {"lock", "answer"} THEN 1 ELSE 0) < MaxPipelined
  /\ Len(outbox[c]) <= MaxUnread
  /\ inbox' = [inbox EXCEPT ![c] = Append(inbox[c], r)]
  /\ UNCHANGED <<ringVars, mutex, mainVars, log, multicast, link, outbox, threadVars>>

ClientTakes(c) ==
  /\ outbox[c] # <<>>
  /\ outbox' = [outbox EXCEPT ![c] = Tail(outbox[c])]
  /\ UNCHANGED <<ringVars, mutex, mainVars, log, multicast, link, inbox, threadVars>>

ClientCloses(c) ==
  /\ link[c] # "none"
  /\ link' = [link EXCEPT ![c] = "none"]
  /\ inbox' = [inbox EXCEPT ![c] = <<>>]
  /\ outbox' = [outbox EXCEPT ![c] = <<>>]
  /\ UNCHANGED <<ringVars, mutex, mainVars, log, multicast, threadVars>>

-----------------------------------------------------------------------------
MainStep ==
  \/ \E b \in Bucket, m \in Msg : PublishLock(b, m)
  \/ PublishStamp \/ PublishFill \/ PublishUnlock \/ PublishSend
  \/ FinishLock \/ FinishStamp \/ FinishFill \/ FinishUnlock \/ Announce \/ Exit

ThreadStep(c) ==
  \/ ReadRequest(c) \/ RejectRequest(c) \/ LockRing(c) \/ AnswerOne(c) \/ UnlockRing(c)
  \/ WriteResponse(c) \/ WriteFails(c)

ClientStep(c) ==
  \/ Accept(c) \/ ClientTakes(c) \/ ClientCloses(c)
  \/ \E r \in Request : ClientAsks(c, r)

Exited == pc = "exited" /\ UNCHANGED publisherVars

Next ==
  \/ MainStep
  \/ \E c \in Client : ThreadStep(c) \/ ClientStep(c)
  \/ Exited

Spec == Init /\ [][Next]_publisherVars

(* Threads run when they can; a publish() or finish() once entered goes on. *)
Fairness ==
  /\ WF_publisherVars(PublishStamp \/ PublishFill \/ PublishUnlock \/ PublishSend)
  /\ WF_publisherVars(FinishStamp \/ FinishFill \/ FinishUnlock \/ Announce \/ Exit)
  /\ \A c \in Client : WF_publisherVars(ThreadStep(c))

FairSpec == Spec /\ Fairness

-----------------------------------------------------------------------------
(* Properties.                                                              *)

Frame == [bucket : Bucket, sequence : Sequence, inRing : BOOLEAN, msg : Payload \cup {Blank}]

(* The publisher's rings and counters, its thread and the connections have  *)
(* their types.                                                             *)
TypeOK ==
  /\ ring \in [Bucket -> [0..(RingSize - 1) -> Slot]]
  /\ nextSequence \in [Bucket -> Nat \ {0}]
  /\ mutex \in {Free, Main} \cup Client
  /\ pc \in {"ready", "stamp", "fill", "unlock", "send", "stampEnd", "fillEnd",
             "unlockEnd", "announce", "done", "exited"}
  /\ current \in [bucket : Bucket, msg : Payload, sequence : Nat]
  /\ turn \in Bucket
  /\ round \in 0..EndRounds
  /\ log \in [Bucket -> Seq(Payload)]
  /\ multicast \subseteq [bucket : Bucket, sequence : Nat, msg : Payload]
  /\ link \in [Client -> {"none", "open", "lost"}]
  /\ inbox \in [Client -> Seq(Request)]
  /\ outbox \in [Client -> Seq(Frame)]
  /\ step \in [Client -> {"idle", "read", "lock", "answer", "write"}]
  /\ request \in [Client -> Request]
  /\ response \in [Client -> Seq(Frame)]

Published(b) == Len(log[b])

(* Whoever could take the mutex finds in the ring of each bucket exactly    *)
(* the last RingSize messages, each complete and under its own number.      *)
RingIsTheWindow ==
  mutex # Main =>
    \A b \in Bucket : \A s \in 0..Published(b) :
      LET slot == ring[b][s % RingSize] IN
      IF s >= 1 /\ s > Published(b) - RingSize
      THEN slot.used /\ slot.sequence = s /\ slot.msg = log[b][s]
      ELSE ~(slot.used /\ slot.sequence = s)

(* No answer is torn: a frame that carries a message carries the one that   *)
(* was published under the sequence it names.                               *)
AnswersAreTrue ==
  \A c \in Client : \A f \in {response[c][i] : i \in DOMAIN response[c]}
                              \cup {outbox[c][i] : i \in DOMAIN outbox[c]} :
    f.inRing => /\ f.sequence \in 1..Published(f.bucket)
                /\ f.msg = log[f.bucket][f.sequence]

(* A datagram on the network and the log that repairs are served from agree, *)
(* so a listener gets the same message whichever way it comes.              *)
SentIsLogged ==
  \A d \in multicast : /\ d.sequence \in 1..Published(d.bucket)
                       /\ d.msg = log[d.bucket][d.sequence]

(* ring_mutex is handed back: neither a batch nor a publication in progress *)
(* keeps it for good.                                                       *)
LockIsReleased == (mutex # Free /\ pc # "exited") ~> (mutex = Free \/ pc = "exited")

(* The locked rings answer like the atomic service: a batch takes effect at *)
(* the moment its thread gives the mutex back.                              *)
Answers(q) ==
  [i \in DOMAIN q |->
     [bucket |-> q[i].bucket, sequence |-> q[i].sequence, inRing |-> q[i].inRing]]

Service == INSTANCE RetransmitService WITH
  published <- [b \in Bucket |-> Published(b)],
  finished <- pc \in {"announce", "done", "exited"},
  up <- Alive,
  requests <- [c \in Client |->
                 IF link[c] # "open" THEN <<>>
                 ELSE IF step[c] \in {"lock", "answer"} THEN <<request[c]>> \o inbox[c]
                 ELSE inbox[c]],
  frames <- [c \in Client |->
               IF link[c] = "open" /\ step[c] = "write"
               THEN Answers(outbox[c] \o response[c])
               ELSE Answers(outbox[c])]

ServiceKept == Service!Spec
=============================================================================
