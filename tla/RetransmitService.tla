--------------------------- MODULE RetransmitService ---------------------------
(***************************************************************************)
(* What a repair client may rely on, whatever threads and locks the         *)
(* publisher uses: every message published is remembered until RingSize     *)
(* later ones have been, a batch of requests is answered at one instant and *)
(* in the order asked, and an answer is either the message or, truthfully,  *)
(* "overwritten".  FeedPublisher implements it; ReliableFeed relies on it.  *)
(***************************************************************************)
EXTENDS Integers, Sequences

CONSTANTS
  Bucket,
  Client,       \* repair connections
  RingSize,     \* RING_SIZE
  MaxPublished, \* bound: messages per bucket, the terminator not counted
  Sequence,     \* bound: sequence numbers that may be asked for
  MaxBatch,     \* MAX_REPAIR_BATCH
  MaxPipelined  \* bound: requests of one connection not yet answered

VARIABLES
  published,  \* number of messages published per bucket
  finished,   \* the terminators have been published
  up,         \* the publishing process is alive
  link,       \* state of each connection, as its client sees it
  requests,   \* requests on their way to the server, in order
  frames      \* answer frames the client has yet to read, in order

serviceVars == <<published, finished, up, link, requests, frames>>

Ascending(q) == \A i, j \in DOMAIN q : i < j => q[i] < q[j]
Batch == {q \in UNION {[1..n -> Sequence] : n \in 1..MaxBatch} : Ascending(q)}
Malformed == [bucket |-> 0, sequences |-> <<>>]
Request == [bucket : Bucket, sequences : Batch] \cup {Malformed}

InRing(b, s) == s >= 1 /\ s <= published[b] /\ s > published[b] - RingSize

Answer(r) ==
  [i \in 1..Len(r.sequences) |->
     [bucket |-> r.bucket, sequence |-> r.sequences[i],
      inRing |-> InRing(r.bucket, r.sequences[i])]]

Init ==
  /\ published = [b \in Bucket |-> 0]
  /\ finished = FALSE
  /\ up = TRUE
  /\ link = [c \in Client |-> "none"]
  /\ requests = [c \in Client |-> <<>>]
  /\ frames = [c \in Client |-> <<>>]

Publish(b) ==
  /\ up /\ ~finished /\ published[b] < MaxPublished
  /\ published' = [published EXCEPT ![b] = published[b] + 1]
  /\ UNCHANGED <<finished, up, link, requests, frames>>

(* All buckets end at the same instant.                                     *)
Finish ==
  /\ up /\ ~finished
  /\ published' = [b \in Bucket |-> published[b] + 1]
  /\ finished' = TRUE
  /\ UNCHANGED <<up, link, requests, frames>>

(* What the client may still get of the answers on a lost connection.       *)
Prefixes(q) == {SubSeq(q, 1, n) : n \in 0..Len(q)}

(* The process ends: requests go unanswered, every connection is lost.      *)
Exit ==
  /\ up /\ finished
  /\ up' = FALSE
  /\ link' = [c \in Client |-> IF link[c] = "open" THEN "lost" ELSE link[c]]
  /\ requests' = [c \in Client |-> <<>>]
  /\ frames' \in [Client -> UNION {Prefixes(frames[c]) : c \in Client}]
  /\ \A c \in Client : frames'[c] \in Prefixes(frames[c])
  /\ UNCHANGED <<published, finished>>

Connect(c) ==
  /\ up /\ link[c] = "none"
  /\ link' = [link EXCEPT ![c] = "open"]
  /\ UNCHANGED <<published, finished, up, requests, frames>>

Ask(c, r) ==
  /\ link[c] = "open" /\ Len(requests[c]) < MaxPipelined
  /\ requests' = [requests EXCEPT ![c] = Append(requests[c], r)]
  /\ UNCHANGED <<published, finished, up, link, frames>>

(* The whole batch is answered at once, from one state of the rings.        *)
Serve(c) ==
  /\ up /\ link[c] = "open" /\ requests[c] # <<>>
  /\ Head(requests[c]) # Malformed
  /\ frames' = [frames EXCEPT ![c] = frames[c] \o Answer(Head(requests[c]))]
  /\ requests' = [requests EXCEPT ![c] = Tail(requests[c])]
  /\ UNCHANGED <<published, finished, up, link>>

Take(c) ==
  /\ frames[c] # <<>>
  /\ frames' = [frames EXCEPT ![c] = Tail(frames[c])]
  /\ UNCHANGED <<published, finished, up, link, requests>>

(* The server hangs up on a request it does not understand, or the          *)
(* connection breaks while an answer is being written.                      *)
HangUp(c) ==
  /\ link[c] = "open"
  /\ link' = [link EXCEPT ![c] = "lost"]
  /\ requests' = [requests EXCEPT ![c] = <<>>]
  /\ \E q \in Prefixes(frames[c]) : frames' = [frames EXCEPT ![c] = q]
  /\ UNCHANGED <<published, finished, up>>

(* The client closes its end: nothing in flight matters any more.           *)
Abandon(c) ==
  /\ link[c] # "none"
  /\ link' = [link EXCEPT ![c] = "none"]
  /\ requests' = [requests EXCEPT ![c] = <<>>]
  /\ frames' = [frames EXCEPT ![c] = <<>>]
  /\ UNCHANGED <<published, finished, up>>

Next ==
  \/ \E b \in Bucket : Publish(b)
  \/ Finish \/ Exit
  \/ \E c \in Client : Connect(c) \/ Serve(c) \/ Take(c) \/ HangUp(c) \/ Abandon(c)
  \/ \E c \in Client : \E r \in Request : Ask(c, r)

Spec == Init /\ [][Next]_serviceVars
=============================================================================
