----------------------------- MODULE ReliableFeed -----------------------------
(***************************************************************************)
(* One publisher and one subscriber with the network between them: the      *)
(* whole reliable multicast.  The publisher is RetransmitService, which     *)
(* FeedPublisher implements; the receiver is Subscriber, here fed by what   *)
(* was really published and answered.                                       *)
(*                                                                         *)
(* Datagrams in flight form a set per bucket: they arrive in any order and  *)
(* any of them may be late for ever.  A datagram the loss injection or the  *)
(* network drops never enters the set.  The repair connection is in order.  *)
(***************************************************************************)
EXTENDS Subscriber

CONSTANTS
  RingSize,      \* RING_SIZE of the publisher
  EndRounds,     \* times each terminator is sent (20)
  MaxPipelined   \* requests the socket buffers hold before a write fails

ASSUME FeedAssumption ==
  RingSize \in Nat \ {0} /\ EndRounds \in Nat \ {0} /\ MaxPipelined \in Nat \ {0}

VARIABLES
  published, finished, up,   \* the publisher, see RetransmitService
  link, requests, frames,    \* the repair connection
  wire,                      \* sequences of the datagrams in flight, per bucket
  rounds                     \* rounds of terminators still to be sent

publisherVars == <<published, finished, up>>
connectionVars == <<link, requests, frames>>
networkVars == <<wire, rounds>>
feedVars == <<subscriberVars, publisherVars, connectionVars, networkVars>>

Repair == 1   \* the one connection: it serves all buckets

LongestStream == CHOOSE n \in Range(End) : \A m \in Range(End) : m <= n

Server == INSTANCE RetransmitService WITH
  Client <- {Repair}, MaxPublished <- LongestStream, Sequence <- 1..LongestStream

FeedInit == Init /\ Server!Init /\ wire = [b \in Bucket |-> {}] /\ rounds = EndRounds

-----------------------------------------------------------------------------
(* The publisher: publish() and finish() with the datagrams they send.      *)

Publish(b) ==
  /\ published[b] < End[b] - 1
  /\ Server!Publish(b)
  /\ \/ wire' = [wire EXCEPT ![b] = wire[b] \cup {published'[b]}]
     \/ UNCHANGED wire
  /\ UNCHANGED <<subscriberVars, rounds>>

SendEnds ==
  /\ \E heard \in SUBSET Bucket :
       wire' = [b \in Bucket |-> IF b \in heard THEN wire[b] \cup {End[b]} ELSE wire[b]]
  /\ rounds' = rounds - 1

Finish ==
  /\ \A b \in Bucket : published[b] = End[b] - 1
  /\ Server!Finish
  /\ SendEnds
  /\ UNCHANGED subscriberVars

FinishAgain ==
  /\ finished /\ rounds > 0
  /\ SendEnds
  /\ UNCHANGED <<subscriberVars, publisherVars, connectionVars>>

PublisherExits == Server!Exit /\ rounds = 0 /\ UNCHANGED <<subscriberVars, networkVars>>

Serve == Server!Serve(Repair) /\ UNCHANGED <<subscriberVars, networkVars>>
HangUp == Server!HangUp(Repair) /\ UNCHANGED <<subscriberVars, networkVars>>

PublisherStep ==
  (\E b \in Bucket : Publish(b)) \/ Finish \/ FinishAgain \/ PublisherExits \/ Serve \/ HangUp

-----------------------------------------------------------------------------
(* The receiver, meeting the network and the server.                        *)

ReceiveDatagram(b, s) ==
  /\ s \in wire[b]
  /\ AcceptOrderMessage(b, s)
  /\ wire' = [wire EXCEPT ![b] = wire[b] \ {s}]
  /\ UNCHANGED <<publisherVars, connectionVars, rounds>>

(* The stream has ended: recv() returns 0.                                  *)
SeeClosed ==
  /\ link[Repair] = "lost"
  /\ PeerClosed /\ Server!Abandon(Repair)
  /\ UNCHANGED networkVars

ReadFrame ==
  /\ frames[Repair] # <<>>
  /\ LET f == Head(frames[Repair]) IN AcceptFrame(f.bucket, f.sequence, f.inRing)
  /\ Server!Take(Repair)
  /\ UNCHANGED networkVars

(* The sequences of a set in ascending order, as the map enumerates them.   *)
InOrder(S) ==
  CHOOSE q \in [1..Cardinality(S) -> S] : \A i, j \in DOMAIN q : i < j => q[i] < q[j]

Batch(b) == [bucket |-> b, sequences |-> InOrder(ToRequest(b))]

(* The request is written to a new connection or to the open one, or into   *)
(* a connection the server has left, where nobody reads it.                 *)
SendRequest(b) ==
  /\ NakSent(b)
  /\ \/ /\ ~connected /\ up
        /\ link' = [link EXCEPT ![Repair] = "open"]
        /\ requests' = [requests EXCEPT ![Repair] = <<Batch(b)>>]
        /\ UNCHANGED frames
     \/ /\ connected /\ link[Repair] = "open"
        /\ Len(requests[Repair]) < MaxPipelined
        /\ requests' = [requests EXCEPT ![Repair] = Append(requests[Repair], Batch(b))]
        /\ UNCHANGED <<link, frames>>
     \/ /\ connected /\ link[Repair] = "lost"
        /\ UNCHANGED connectionVars
  /\ UNCHANGED <<publisherVars, networkVars>>

(* No connection to be had, or the write failed.                            *)
RequestFails(b) ==
  /\ NakFailed(b)
  /\ IF connected THEN Server!Abandon(Repair)
     ELSE UNCHANGED <<publisherVars, connectionVars>>
  /\ UNCHANGED networkVars

Elsewhere == UNCHANGED <<publisherVars, connectionVars, networkVars>>

ReceiverStep ==
  \/ Wake /\ Elsewhere
  \/ UdpDrained /\ Elsewhere
  \/ \E b \in Bucket : \E s \in 1..End[b] : ReceiveDatagram(b, s)
  \/ TcpDrained /\ Elsewhere
  \/ SeeClosed \/ ReadFrame
  \/ Parsed /\ Elsewhere
  \/ \E b \in Bucket : NakQuiet(b) /\ Elsewhere
  \/ \E b \in Bucket : SendRequest(b) \/ RequestFails(b)
  \/ \E b \in Bucket : (DeliverParked(b) \/ SkipGone(b) \/ DeliverEnds(b)) /\ Elsewhere

FeedNext ==
  \/ PublisherStep
  \/ ReceiverStep
  \/ Interrupted /\ Elsewhere
  \/ Tick /\ Elsewhere
  \/ Returned /\ Elsewhere

FeedSpec == FeedInit /\ [][FeedNext]_feedVars

(* The receiving thread runs and time passes; nothing is assumed of the     *)
(* publisher, the server or the network.                                    *)
FairFeedSpec == FeedSpec /\ WF_feedVars(ReceiverStep) /\ WF_feedVars(Tick /\ Elsewhere)

-----------------------------------------------------------------------------
(* Properties.                                                              *)

(* What is asked and answered concerns sequences below one already heard:   *)
(* so every answer is one the receiver can use, and the terminator, which   *)
(* has nothing after it, is never asked for.                                *)
AsksBelowSeen ==
  /\ \A i \in DOMAIN requests[Repair] :
       LET r == requests[Repair][i] IN \A s \in Range(r.sequences) : s < seen[r.bucket]
  /\ \A i \in DOMAIN frames[Repair] :
       LET f == frames[Repair][i] IN f.sequence < seen[f.bucket]

(* A sequence is written off only if it has been chased for the whole of    *)
(* REPAIR_GIVEUP_MS or the publisher has truly overwritten it.              *)
WrittenOffForAReason ==
  [][\A b \in Bucket : \A s \in gone'[b] \ gone[b] :
       s \in Expired(b) \/ s <= published[b] - RingSize]_feedVars

(* "Nothing else may declare a message unrecoverable": what the comment in  *)
(* nak() says of the expiry of a hole.                                      *)
OnlyGiveUpWritesOff ==
  [][\A b \in Bucket : gone'[b] \ gone[b] \subseteq Expired(b)]_feedVars

(* "false ... if the feed never spoke at all" (comment of run()): a feed    *)
(* that is over before anything of it was heard ends the run.               *)
SilenceEndsRun ==
  (~up /\ \A b \in Bucket : seen[b] = 0 /\ wire[b] = {}) ~> (phase \in {"ended", "stopped"})

(* No gap stalls a bucket: a hole is filled or written off and the stream   *)
(* moves past it, whatever the server does.                                 *)
NoBucketStalls ==
  \A b \in Bucket : \A s \in 1..(End[b] - 1) :
    (s \in DOMAIN holes[b]) ~> (s < nextSequence[b] \/ phase = "stopped")

(* Once the terminator of every bucket has been heard, run() returns.       *)
EndsOnceHeard ==
  (\A b \in Bucket : seen[b] = End[b]) ~> (phase \in {"ended", "stopped"})
=============================================================================
