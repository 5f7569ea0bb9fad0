------------------------- MODULE FeedPublisherProofs -------------------------
(***************************************************************************)
(* What FeedPublisher promises for every number of buckets, every ring      *)
(* size, every number of repair connections and every feed.                 *)
(***************************************************************************)
EXTENDS FeedPublisher, SequenceTheorems, Numbers, TLAPS

-----------------------------------------------------------------------------
(* Types.                                                                   *)

LEMMA Constants ==
  /\ Bucket = 1..NumBuckets /\ NumBuckets \in Nat \ {0}
  /\ RingSize \in Nat \ {0} /\ EndRounds \in Nat \ {0}
  /\ EndMsg \in Payload /\ Blank \notin Payload
  /\ Sequence \subseteq Nat /\ MaxBatch \in Nat \ {0}
  /\ Free # Main /\ Free \notin Client /\ Main \notin Client
BY PublisherAssumption, HolderAssumption DEF Bucket, Payload

(* A request that is not malformed names a bucket and a sequence of numbers. *)
LEMMA RequestType ==
  ASSUME NEW r \in Request, r # Malformed
  PROVE  r.bucket \in Bucket /\ r.sequences \in Seq(Sequence)
<1>1. r \in [bucket : Bucket, sequences : Batch]
  BY DEF Request
<1>2. PICK n \in 1..MaxBatch : r.sequences \in [1..n -> Sequence]
  BY <1>1 DEF Batch
<1>3. n \in Nat
  BY <1>2, Constants
<1> QED
  BY <1>1, <1>2, <1>3, SeqDef

LEMMA MalformedType == Malformed \in Request /\ Len(Malformed.sequences) = 0
BY DEF Request, Malformed

(* What the operations of a connection do to its queues.                    *)
LEMMA HeadTail ==
  ASSUME NEW X, NEW q \in Seq(X), q # <<>>
  PROVE  Head(q) \in X /\ Tail(q) \in Seq(X)
BY HeadTailProperties

LEMMA PrefixType ==
  ASSUME NEW X, NEW q \in Seq(X), NEW p \in Prefixes(q)
  PROVE  /\ p \in Seq(X)
         /\ Len(p) <= Len(q)
         /\ \A i \in 1..Len(p) : p[i] = q[i]
<1>1. PICK n \in 0..Len(q) : p = SubSeq(q, 1, n)
  BY DEF Prefixes
<1>2. n \in Nat /\ n <= Len(q) /\ Len(q) \in Nat
  BY <1>1, LenProperties
<1>3. \A i \in 1..n : q[i] \in X
  BY <1>2, ElementOfSeq
<1> QED
  BY <1>1, <1>2, <1>3, SubSeqProperties

LEMMA TypeInit == Init => TypeOK
<1> SUFFICES ASSUME Init PROVE TypeOK
  OBVIOUS
<1>1. UnusedSlot \in Slot /\ Idle \in [bucket : Bucket, msg : Payload, sequence : Nat]
  BY Constants DEF UnusedSlot, Slot, Idle
<1> QED
  BY <1>1, Constants, MalformedType DEF Init, TypeOK

Rings == [Bucket -> [0..(RingSize - 1) -> Slot]]

WithSlot(r, b, i, v) == [r EXCEPT ![b] = [r[b] EXCEPT ![i] = v]]

(* Writing one slot touches nothing else.                                   *)
LEMMA PutSlot ==
  ASSUME NEW r \in Rings, NEW b \in Bucket, NEW i \in 0..(RingSize - 1), NEW v \in Slot
  PROVE  /\ WithSlot(r, b, i, v) \in Rings
         /\ WithSlot(r, b, i, v)[b][i] = v
         /\ \A c \in Bucket, j \in 0..(RingSize - 1) :
              (c # b \/ j # i) => WithSlot(r, b, i, v)[c][j] = r[c][j]
<1>1. r[b] \in [0..(RingSize - 1) -> Slot]
  BY DEF Rings
<1>2. [r[b] EXCEPT ![i] = v] \in [0..(RingSize - 1) -> Slot]
  BY <1>1
<1>3. WithSlot(r, b, i, v) \in Rings
  BY <1>2 DEF Rings, WithSlot
<1>4. WithSlot(r, b, i, v)[b][i] = v
  BY <1>1 DEF Rings, WithSlot
<1>5. \A c \in Bucket, j \in 0..(RingSize - 1) :
        (c # b \/ j # i) => WithSlot(r, b, i, v)[c][j] = r[c][j]
  BY <1>1 DEF Rings, WithSlot
<1> QED
  BY <1>3, <1>4, <1>5

LEMMA WithSequence ==
  ASSUME NEW v \in Slot, NEW s \in Nat
  PROVE  /\ [v EXCEPT !.sequence = s] = [sequence |-> s, used |-> v.used, msg |-> v.msg]
         /\ [v EXCEPT !.sequence = s] \in Slot
<1>1. PICK n \in Nat, u \in BOOLEAN, m \in Payload \cup {Blank} :
        v = [sequence |-> n, used |-> u, msg |-> m]
  BY DEF Slot
<1> QED
  BY <1>1 DEF Slot

LEMMA WithUsed ==
  ASSUME NEW v \in Slot
  PROVE  /\ [v EXCEPT !.used = TRUE] = [sequence |-> v.sequence, used |-> TRUE, msg |-> v.msg]
         /\ [v EXCEPT !.used = TRUE] \in Slot
<1>1. PICK n \in Nat, u \in BOOLEAN, m \in Payload \cup {Blank} :
        v = [sequence |-> n, used |-> u, msg |-> m]
  BY DEF Slot
<1>2. [v EXCEPT !.used = TRUE] = [sequence |-> n, used |-> TRUE, msg |-> m]
  <2>1. \A t : [v EXCEPT !.used = t] = [sequence |-> n, used |-> t, msg |-> m]
    BY <1>1
  <2> QED
    BY <2>1
<1>3. v.sequence = n /\ v.msg = m
  BY <1>1
<1>4. [sequence |-> n, used |-> TRUE, msg |-> m] \in Slot
  BY <1>1 DEF Slot
<1> QED
  BY <1>2, <1>3, <1>4

(* The two writes of a publication.                                         *)
LEMMA Stamped ==
  ASSUME TypeOK, NEW b \in Bucket, StampSlot(b), NEW i, i = nextSequence[b] % RingSize
  PROVE  /\ i \in 0..(RingSize - 1)
         /\ ring' \in Rings
         /\ nextSequence' = [nextSequence EXCEPT ![b] = nextSequence[b] + 1]
         /\ nextSequence' \in [Bucket -> Nat \ {0}]
         /\ ring'[b][i] = [sequence |-> nextSequence[b], used |-> TRUE,
                           msg |-> ring[b][i].msg]
         /\ \A c \in Bucket, j \in 0..(RingSize - 1) :
              (c # b \/ j # i) => ring'[c][j] = ring[c][j]
<1>1. PICK s \in Nat \ {0} : s = nextSequence[b]
  BY DEF TypeOK
<1>2. i \in 0..(RingSize - 1)
  BY <1>1, Constants
<1>3. ring \in Rings
  BY DEF TypeOK, Rings
<1>4. PICK v : v = [ring[b][i] EXCEPT !.sequence = s]
  OBVIOUS
<1>5. PICK r : r = [ring EXCEPT ![b][i].sequence = s]
  OBVIOUS
<1>6. r = WithSlot(ring, b, i, v)
  BY <1>4, <1>5 DEF WithSlot
<1>7. ring[b][i] \in Slot
  BY <1>2, <1>3 DEF Rings
<1>8. v = [sequence |-> s, used |-> ring[b][i].used, msg |-> ring[b][i].msg] /\ v \in Slot
  BY <1>1, <1>4, <1>7, WithSequence
<1>9. /\ r \in Rings /\ r[b][i] = v
      /\ \A c \in Bucket, j \in 0..(RingSize - 1) :
           (c # b \/ j # i) => r[c][j] = ring[c][j]
  <2>1. v \in Slot
    BY <1>8
  <2>2. /\ WithSlot(ring, b, i, v) \in Rings /\ WithSlot(ring, b, i, v)[b][i] = v
        /\ \A c \in Bucket, j \in 0..(RingSize - 1) :
             (c # b \/ j # i) => WithSlot(ring, b, i, v)[c][j] = ring[c][j]
    BY <1>2, <1>3, <2>1, PutSlot
  <2> QED
    BY <1>6, <2>2
<1>10. PICK w : w = [r[b][i] EXCEPT !.used = TRUE]
  OBVIOUS
<1>11. ring' = [r EXCEPT ![b][i].used = TRUE]
  BY <1>1, <1>5 DEF StampSlot
<1>12. ring' = WithSlot(r, b, i, w)
  BY <1>10, <1>11 DEF WithSlot
<1>13. w \in Slot
  BY <1>8, <1>9, <1>10, WithUsed
<1>14. /\ ring' \in Rings /\ ring'[b][i] = w
       /\ \A c \in Bucket, j \in 0..(RingSize - 1) :
            (c # b \/ j # i) => ring'[c][j] = r[c][j]
  <2>1. r \in Rings
    BY <1>9
  <2>2. /\ WithSlot(r, b, i, w) \in Rings /\ WithSlot(r, b, i, w)[b][i] = w
        /\ \A c \in Bucket, j \in 0..(RingSize - 1) :
             (c # b \/ j # i) => WithSlot(r, b, i, w)[c][j] = r[c][j]
    BY <1>2, <1>13, <2>1, PutSlot
  <2> QED
    BY <1>12, <2>2
<1>18. w = [sequence |-> s, used |-> TRUE, msg |-> ring[b][i].msg]
  BY <1>8, <1>9, <1>10, WithUsed
<1>15. nextSequence' = [nextSequence EXCEPT ![b] = s + 1] /\ s + 1 \in Nat \ {0}
  BY <1>1 DEF StampSlot
<1>16. nextSequence' \in [Bucket -> Nat \ {0}]
  BY <1>15 DEF TypeOK
<1>17. \A c \in Bucket, j \in 0..(RingSize - 1) :
          (c # b \/ j # i) => ring'[c][j] = ring[c][j]
  BY <1>9, <1>14
<1> QED
  BY <1>1, <1>2, <1>18, <1>14, <1>15, <1>16, <1>17

LEMMA Filled ==
  ASSUME TypeOK, NEW b \in Bucket, NEW s \in Nat, NEW m \in Payload, FillSlot(b, s, m),
         NEW i, i = s % RingSize
  PROVE  /\ i \in 0..(RingSize - 1)
         /\ ring' \in Rings
         /\ ring'[b][i] = [sequence |-> ring[b][i].sequence, used |-> ring[b][i].used,
                           msg |-> m]
         /\ \A c \in Bucket, j \in 0..(RingSize - 1) :
              (c # b \/ j # i) => ring'[c][j] = ring[c][j]
<1>1. i \in 0..(RingSize - 1)
  BY Constants
<1>2. ring \in Rings
  BY DEF TypeOK, Rings
<1>3. PICK v : v = [ring[b][i] EXCEPT !.msg = m]
  OBVIOUS
<1>4. ring' = WithSlot(ring, b, i, v)
  BY <1>3 DEF FillSlot, WithSlot
<1>5. ring[b][i] \in Slot
  BY <1>1, <1>2 DEF Rings
<1>6. /\ v \in Slot
      /\ v = [sequence |-> ring[b][i].sequence, used |-> ring[b][i].used, msg |-> m]
  BY <1>3, <1>5 DEF Slot
<1>7. /\ ring' \in Rings /\ ring'[b][i] = v
      /\ \A c \in Bucket, j \in 0..(RingSize - 1) :
           (c # b \/ j # i) => ring'[c][j] = ring[c][j]
  <2>1. v \in Slot
    BY <1>6
  <2>2. /\ WithSlot(ring, b, i, v) \in Rings /\ WithSlot(ring, b, i, v)[b][i] = v
        /\ \A c \in Bucket, j \in 0..(RingSize - 1) :
             (c # b \/ j # i) => WithSlot(ring, b, i, v)[c][j] = ring[c][j]
    BY <1>1, <1>2, <2>1, PutSlot
  <2> QED
    BY <1>4, <2>2
<1> QED
  BY <1>1, <1>6, <1>7

LEMMA StampTyped ==
  ASSUME TypeOK, NEW b \in Bucket, StampSlot(b)
  PROVE  /\ ring' \in [Bucket -> [0..(RingSize - 1) -> Slot]]
         /\ nextSequence' \in [Bucket -> Nat \ {0}]
BY Stamped DEF Rings

LEMMA FillTyped ==
  ASSUME TypeOK, NEW b \in Bucket, NEW s \in Nat, NEW m \in Payload, FillSlot(b, s, m)
  PROVE  ring' \in [Bucket -> [0..(RingSize - 1) -> Slot]]
BY Filled DEF Rings

(* The publishing thread keeps the types.                                   *)
LEMMA TypeMain == TypeOK /\ MainStep => TypeOK'
<1> SUFFICES ASSUME TypeOK, MainStep PROVE TypeOK'
  OBVIOUS
<1> USE DEF mainVars, ringVars, socketVars, threadVars
<1>1. ASSUME NEW b \in Bucket, NEW m \in Msg, PublishLock(b, m) PROVE TypeOK'
  <2>1. current' \in [bucket : Bucket, msg : Payload, sequence : Nat]
    BY <1>1 DEF PublishLock, TypeOK, Payload
  <2> QED
    BY <1>1, <2>1 DEF PublishLock, TypeOK
<1>2. CASE PublishStamp
  <2>1. current.bucket \in Bucket
    BY DEF TypeOK
  <2>2. /\ ring' \in [Bucket -> [0..(RingSize - 1) -> Slot]]
        /\ nextSequence' \in [Bucket -> Nat \ {0}]
    BY <1>2, <2>1, StampTyped DEF PublishStamp
  <2> QED
    BY <1>2, <2>2 DEF PublishStamp, TypeOK
<1>3. CASE PublishFill
  <2>1. current.bucket \in Bucket /\ current.sequence \in Nat /\ current.msg \in Payload
    BY DEF TypeOK
  <2>2. ring' \in [Bucket -> [0..(RingSize - 1) -> Slot]]
    BY <1>3, <2>1, FillTyped DEF PublishFill
  <2> QED
    BY <1>3, <2>2 DEF PublishFill, TypeOK
<1>4. CASE PublishUnlock
  <2>1. Append(log[current.bucket], current.msg) \in Seq(Payload)
    BY AppendProperties DEF TypeOK
  <2>2. log' \in [Bucket -> Seq(Payload)]
    BY <1>4, <2>1 DEF PublishUnlock, TypeOK
  <2> QED
    BY <1>4, <2>2 DEF PublishUnlock, TypeOK
<1>5. CASE PublishSend
  <2>1. /\ Datagram(current.bucket, current.sequence, current.msg)
             \in [bucket : Bucket, sequence : Nat, msg : Payload]
        /\ Idle \in [bucket : Bucket, msg : Payload, sequence : Nat]
    BY Constants DEF TypeOK, Datagram, Idle
  <2>2. /\ multicast' \subseteq [bucket : Bucket, sequence : Nat, msg : Payload]
        /\ current' \in [bucket : Bucket, msg : Payload, sequence : Nat]
    BY <1>5, <2>1 DEF PublishSend, TypeOK
  <2> QED
    BY <1>5, <2>2 DEF PublishSend, TypeOK
<1>6. CASE FinishLock
  BY <1>6, Constants DEF FinishLock, TypeOK
<1>7. CASE FinishStamp
  <2>1. /\ ring' \in [Bucket -> [0..(RingSize - 1) -> Slot]]
        /\ nextSequence' \in [Bucket -> Nat \ {0}]
    BY <1>7, StampTyped DEF FinishStamp, TypeOK
  <2> QED
    BY <1>7, <2>1 DEF FinishStamp, TypeOK
<1>8. CASE FinishFill
  <2>1. turn \in Bucket /\ nextSequence[turn] - 1 \in Nat /\ EndMsg \in Payload
    BY Constants DEF TypeOK
  <2>2. ring' \in [Bucket -> [0..(RingSize - 1) -> Slot]]
    BY <1>8, <2>1, FillTyped DEF FinishFill
  <2>3. turn' \in Bucket /\ pc' \in {"stampEnd", "unlockEnd"}
    BY <1>8, <2>1, Constants DEF FinishFill
  <2> QED
    BY <1>8, <2>2, <2>3 DEF FinishFill, TypeOK
<1>9. CASE FinishUnlock
  <2>1. \A b \in Bucket : Append(log[b], EndMsg) \in Seq(Payload)
    BY Constants, AppendProperties DEF TypeOK
  <2>2. log' \in [Bucket -> Seq(Payload)]
    BY <1>9, <2>1 DEF FinishUnlock
  <2>3. round' \in 0..EndRounds
    BY <1>9, Constants DEF FinishUnlock
  <2> QED
    BY <1>9, <2>2, <2>3 DEF FinishUnlock, TypeOK
<1>10. CASE Announce
  <2>1. Datagram(turn, nextSequence[turn] - 1, EndMsg)
          \in [bucket : Bucket, sequence : Nat, msg : Payload]
    BY Constants DEF TypeOK, Datagram
  <2>2. multicast' \subseteq [bucket : Bucket, sequence : Nat, msg : Payload]
    BY <1>10, <2>1 DEF Announce, TypeOK
  <2>3. turn' \in Bucket
    BY <1>10, Constants DEF Announce, TypeOK
  <2>5. round' \in 0..EndRounds
    <3>1. round \in Nat /\ round <= EndRounds /\ EndRounds \in Nat
      BY Constants DEF TypeOK
    <3>2. round' = round \/ (round < EndRounds /\ round' = round + 1)
      BY <1>10 DEF Announce
    <3> QED
      BY <3>1, <3>2
  <2>4. pc' \in {"announce", "done"}
    BY <1>10 DEF Announce
  <2> QED
    BY <1>10, <2>2, <2>3, <2>4, <2>5 DEF Announce, TypeOK
<1>11. CASE Exit
  <2>1. \A c \in Client : outbox'[c] \in Seq(Frame)
    BY <1>11, PrefixType DEF Exit, TypeOK
  <2>2. outbox' \in [Client -> Seq(Frame)]
    BY <1>11, <2>1 DEF Exit
  <2>3. link' \in [Client -> {"none", "open", "lost"}]
    BY <1>11 DEF Exit, TypeOK
  <2> QED
    BY <1>11, <2>2, <2>3, MalformedType DEF Exit, TypeOK
<1> QED
  BY <1>1, <1>2, <1>3, <1>4, <1>5, <1>6, <1>7, <1>8, <1>9, <1>10, <1>11 DEF MainStep

LEMMA ClosedTyped ==
  ASSUME TypeOK, NEW c \in Client, CloseSocket(c)
  PROVE  /\ link' \in [Client -> {"none", "open", "lost"}]
         /\ inbox' \in [Client -> Seq(Request)]
         /\ step' \in [Client -> {"idle", "read", "lock", "answer", "write"}]
<1>1. link[c] \in {"none", "open", "lost"}
  BY DEF TypeOK
<1>2. link' \in [Client -> {"none", "open", "lost"}]
  BY <1>1 DEF CloseSocket, TypeOK
<1>3. inbox' \in [Client -> Seq(Request)]
  BY DEF CloseSocket, TypeOK
<1>4. step' \in [Client -> {"idle", "read", "lock", "answer", "write"}]
  BY DEF CloseSocket, TypeOK
<1> QED
  BY <1>2, <1>3, <1>4

(* The frame an answering thread appends.                                   *)
FrameFor(slot, b, s) ==
  [bucket |-> b, sequence |-> s, inRing |-> slot.used /\ slot.sequence = s,
   msg |-> IF slot.used /\ slot.sequence = s THEN slot.msg ELSE Blank]

LEMMA FrameTyped ==
  ASSUME NEW b \in Bucket, NEW s \in Sequence, NEW slot \in Slot
  PROVE  FrameFor(slot, b, s) \in Frame
<1>1. (slot.used /\ slot.sequence = s) \in BOOLEAN
  OBVIOUS
<1>2. slot.msg \in Payload \cup {Blank}
  BY DEF Slot
<1> QED
  BY <1>1, <1>2 DEF FrameFor, Frame

LEMMA AskedFor ==
  ASSUME TypeOK, NEW c \in Client, Answering(c)
  PROVE  /\ request[c].bucket \in Bucket
         /\ request[c].sequences[Len(response[c]) + 1] \in Sequence
<1>1. request[c] \in Request /\ response[c] \in Seq(Frame)
  BY DEF TypeOK
<1>2. Len(response[c]) \in Nat /\ Len(response[c]) < Len(request[c].sequences)
  BY <1>1, LenProperties DEF Answering
<1>3. request[c] # Malformed
  BY <1>2, MalformedType
<1>4. request[c].bucket \in Bucket /\ request[c].sequences \in Seq(Sequence)
  BY <1>1, <1>3, RequestType
<1>5. Len(response[c]) + 1 \in 1..Len(request[c].sequences)
  BY <1>2, <1>4, LenProperties
<1> QED
  BY <1>4, <1>5, ElementOfSeq

LEMMA Answered ==
  ASSUME TypeOK, NEW c \in Client, AnswerOne(c)
  PROVE  \E b \in Bucket, s \in Sequence, i \in 0..(RingSize - 1) :
           /\ i = s % RingSize /\ ring[b][i] \in Slot
           /\ FrameFor(ring[b][i], b, s) \in Frame
           /\ response' = [response EXCEPT ![c] =
                             Append(response[c], FrameFor(ring[b][i], b, s))]
<1>1. Answering(c)
  BY DEF AnswerOne
<1>2. PICK b \in Bucket : b = request[c].bucket
  BY <1>1, AskedFor
<1>3. PICK s \in Sequence : s = request[c].sequences[Len(response[c]) + 1]
  BY <1>1, AskedFor
<1>4. PICK i \in 0..(RingSize - 1) : i = s % RingSize
  BY Constants
<1>5. ring[b][i] \in Slot
  <2>1. ring \in [Bucket -> [0..(RingSize - 1) -> Slot]]
    BY DEF TypeOK
  <2> QED
    BY <2>1
<1>6. FrameFor(ring[b][i], b, s) \in Frame
  BY <1>5, FrameTyped
<1>7. response' = [response EXCEPT ![c] = Append(response[c], FrameFor(ring[b][i], b, s))]
  BY <1>2, <1>3, <1>4, Zenon DEF AnswerOne, FrameFor
<1> QED
  BY <1>4, <1>5, <1>6, <1>7

(* The thread of a connection keeps them.                                   *)
LEMMA TypeThread ==
  ASSUME TypeOK, NEW c \in Client, ThreadStep(c)
  PROVE  TypeOK'
<1> USE DEF mainVars, ringVars, socketVars, threadVars
<1>1. CASE ReadRequest(c)
  <2>1. inbox[c] \in Seq(Request)
    BY DEF TypeOK
  <2>2. Head(inbox[c]) \in Request /\ Tail(inbox[c]) \in Seq(Request)
    BY <1>1, <2>1, HeadTail DEF ReadRequest
  <2> QED
    BY <1>1, <2>2 DEF ReadRequest, TypeOK
<1>2. CASE RejectRequest(c)
  <2>1. PICK q \in Prefixes(outbox[c]) : outbox' = [outbox EXCEPT ![c] = q]
    BY <1>2 DEF RejectRequest
  <2>2. q \in Seq(Frame)
    BY PrefixType DEF TypeOK
  <2>3. outbox' \in [Client -> Seq(Frame)]
    BY <2>1, <2>2 DEF TypeOK
  <2>4. /\ link' \in [Client -> {"none", "open", "lost"}]
        /\ inbox' \in [Client -> Seq(Request)]
        /\ step' \in [Client -> {"idle", "read", "lock", "answer", "write"}]
    BY <1>2, ClosedTyped DEF RejectRequest
  <2> QED
    BY <1>2, <2>3, <2>4 DEF RejectRequest, TypeOK
<1>3. CASE LockRing(c)
  BY <1>3 DEF LockRing, TypeOK
<1>4. CASE AnswerOne(c)
  <2>1. PICK f \in Frame : response' = [response EXCEPT ![c] = Append(response[c], f)]
    BY <1>4, Answered
  <2>2. Append(response[c], f) \in Seq(Frame)
    BY AppendProperties DEF TypeOK
  <2>3. response' \in [Client -> Seq(Frame)]
    BY <2>1, <2>2 DEF TypeOK
  <2> QED
    BY <1>4, <2>3 DEF AnswerOne, TypeOK
<1>5. CASE UnlockRing(c)
  BY <1>5, MalformedType DEF UnlockRing, TypeOK
<1>6. CASE WriteResponse(c)
  <2>1. outbox[c] \o response[c] \in Seq(Frame) /\ <<>> \in Seq(Frame)
    BY ConcatProperties DEF TypeOK
  <2> QED
    BY <1>6, <2>1 DEF WriteResponse, TypeOK
<1>7. CASE WriteFails(c)
  <2>1. outbox[c] \o response[c] \in Seq(Frame)
    BY ConcatProperties DEF TypeOK
  <2>2. outbox' \in [Client -> Seq(Frame)]
    <3>1. CASE link[c] = "open"
      <4>1. PICK q \in Prefixes(outbox[c] \o response[c]) :
              outbox' = [outbox EXCEPT ![c] = q]
        BY <1>7, <3>1 DEF WriteFails
      <4> QED
        BY <2>1, <4>1, PrefixType DEF TypeOK
    <3>2. CASE link[c] # "open"
      BY <1>7, <3>2 DEF WriteFails, TypeOK
    <3> QED
      BY <3>1, <3>2
  <2>3. /\ link' \in [Client -> {"none", "open", "lost"}]
        /\ inbox' \in [Client -> Seq(Request)]
        /\ step' \in [Client -> {"idle", "read", "lock", "answer", "write"}]
    BY <1>7, ClosedTyped DEF WriteFails
  <2>4. response' \in [Client -> Seq(Frame)]
    BY <1>7 DEF WriteFails, TypeOK
  <2> QED
    BY <1>7, <2>2, <2>3, <2>4 DEF WriteFails, TypeOK
<1> QED
  BY <1>1, <1>2, <1>3, <1>4, <1>5, <1>6, <1>7 DEF ThreadStep

(* And so does the other end of its connection.                             *)
LEMMA TypeClient ==
  ASSUME TypeOK, NEW c \in Client, ClientStep(c)
  PROVE  TypeOK'
<1> USE DEF mainVars, ringVars, socketVars, threadVars
<1>1. CASE Accept(c)
  BY <1>1 DEF Accept, TypeOK
<1>2. CASE ClientTakes(c)
  <2>1. Tail(outbox[c]) \in Seq(Frame)
    BY <1>2, HeadTail DEF ClientTakes, TypeOK
  <2> QED
    BY <1>2, <2>1 DEF ClientTakes, TypeOK
<1>3. CASE ClientCloses(c)
  BY <1>3 DEF ClientCloses, TypeOK
<1>4. ASSUME NEW r \in Request, ClientAsks(c, r) PROVE TypeOK'
  <2>1. Append(inbox[c], r) \in Seq(Request)
    BY AppendProperties DEF TypeOK
  <2> QED
    BY <1>4, <2>1 DEF ClientAsks, TypeOK
<1> QED
  BY <1>1, <1>2, <1>3, <1>4 DEF ClientStep

LEMMA TypeNext == TypeOK /\ [Next]_publisherVars => TypeOK'
<1> SUFFICES ASSUME TypeOK, [Next]_publisherVars PROVE TypeOK'
  OBVIOUS
<1>1. CASE UNCHANGED publisherVars
  BY <1>1 DEF publisherVars, TypeOK
<1>2. CASE Next
  BY <1>1, <1>2, TypeMain, TypeThread, TypeClient DEF Next, Exited
<1> QED
  BY <1>1, <1>2

(* The rings, the counters, the publishing thread and the connections keep  *)
(* their types whoever runs when (feedpublisher.h).                         *)
THEOREM PublisherTypeCorrect == Spec => []TypeOK
<1> QED
  BY TypeInit, TypeNext, PTL DEF Spec

-----------------------------------------------------------------------------
(* The inductive invariant.                                                 *)

(* The publishing thread is inside a critical section.                      *)
Holding == pc \in {"stamp", "fill", "unlock", "stampEnd", "fillEnd", "unlockEnd"}

MutexInv ==
  /\ mutex = Main <=> Holding
  /\ \A c \in Client : step[c] = "answer" => mutex = c

(* How far the publication in progress has come in a bucket: its slot is    *)
(* numbered but still holds the payload that was there before, or it is     *)
(* complete but not yet released.                                           *)
Phase(b) ==
  IF (pc = "fill" /\ b = current.bucket) \/ (pc = "fillEnd" /\ b = turn) THEN "stamped"
  ELSE IF \/ pc = "unlock" /\ b = current.bucket
          \/ pc \in {"stampEnd", "fillEnd"} /\ b < turn
          \/ pc = "unlockEnd"
       THEN "filled" ELSE "settled"

Pending == IF pc \in {"fill", "unlock"} THEN current.msg ELSE EndMsg

(* A ring numbered up to n: a used slot holds one of the last RingSize       *)
(* sequences of its residue, an unused one has had no sequence.             *)
Window(slots, n) ==
  \A i \in 0..(RingSize - 1) :
    /\ slots[i].used => /\ slots[i].sequence \in 1..n
                        /\ slots[i].sequence % RingSize = i
                        /\ slots[i].sequence + RingSize > n
    /\ ~slots[i].used => \A s \in 1..n : s % RingSize # i

(* A numbered slot holds the message published under its number, or the one *)
(* being published.                                                         *)
Text(slots, l, phase, m) ==
  \A i \in 0..(RingSize - 1) :
    slots[i].used =>
      \/ slots[i].sequence <= Len(l) /\ slots[i].msg = l[slots[i].sequence]
      \/ /\ slots[i].sequence = Len(l) + 1
         /\ phase # "stamped" => slots[i].msg = m

Good(slots, next, l, phase, m) ==
  /\ next = IF phase = "settled" THEN Len(l) + 1 ELSE Len(l) + 2
  /\ Window(slots, next - 1)
  /\ Text(slots, l, phase, m)

RingInv == \A b \in Bucket : Good(ring[b], nextSequence[b], log[b], Phase(b), Pending)

(* What the publishing thread remembers is what it did.                     *)
CurrentInv ==
  /\ pc \in {"stamp", "fill", "unlock"} =>
       current.sequence = Published(current.bucket) + 1
  /\ pc = "send" => /\ current.sequence \in 1..Published(current.bucket)
                    /\ log[current.bucket][current.sequence] = current.msg
  /\ pc = "announce" => \A b \in Bucket : /\ Published(b) >= 1
                                          /\ log[b][Published(b)] = EndMsg

TrueFrame(l, f) ==
  f.inRing => f.sequence \in 1..Len(l[f.bucket]) /\ f.msg = l[f.bucket][f.sequence]

TrueQueue(l, q) == \A i \in DOMAIN q : TrueFrame(l, q[i])

FramesInv == \A c \in Client : TrueQueue(log, response[c]) /\ TrueQueue(log, outbox[c])

PublisherInv ==
  /\ TypeOK
  /\ MutexInv
  /\ RingInv
  /\ CurrentInv
  /\ FramesInv
  /\ SentIsLogged

-----------------------------------------------------------------------------
(* A publication, one write at a time.                                      *)

SlotsOf == [0..(RingSize - 1) -> Slot]

(* A slot is numbered: the window moves on by one.                          *)
LEMMA WindowMoves ==
  ASSUME NEW slots \in SlotsOf, NEW n \in Nat, Window(slots, n),
         NEW after \in SlotsOf, NEW i \in 0..(RingSize - 1), i = (n + 1) % RingSize,
         after[i].used, after[i].sequence = n + 1,
         \A j \in 0..(RingSize - 1) : j # i => after[j] = slots[j]
  PROVE  Window(after, n + 1)
<1> SUFFICES ASSUME NEW j \in 0..(RingSize - 1)
             PROVE  /\ after[j].used => /\ after[j].sequence \in 1..(n + 1)
                                        /\ after[j].sequence % RingSize = j
                                        /\ after[j].sequence + RingSize > n + 1
                    /\ ~after[j].used => \A s \in 1..(n + 1) : s % RingSize # j
  BY DEF Window
<1>1. CASE j = i
  BY <1>1, Constants
<1>2. CASE j # i
  <2>1. after[j] = slots[j] /\ slots[j].sequence \in Nat
    BY <1>2 DEF SlotsOf, Slot
  <2>2. ASSUME slots[j].used
        PROVE  /\ slots[j].sequence \in 1..(n + 1)
               /\ slots[j].sequence % RingSize = j
               /\ slots[j].sequence + RingSize > n + 1
    <3>1. /\ slots[j].sequence \in 1..n
          /\ slots[j].sequence % RingSize = j
          /\ slots[j].sequence + RingSize > n
      BY <2>2 DEF Window
    <3>2. (slots[j].sequence + RingSize) % RingSize = j
      BY <2>1, <3>1, ModShift, Constants
    <3>3. slots[j].sequence + RingSize # n + 1
      BY <1>2, <3>2
    <3> QED
      BY <2>1, <3>1, <3>3, Constants
  <2>3. ASSUME ~slots[j].used, NEW s \in 1..(n + 1)
        PROVE  s % RingSize # j
    <3>1. CASE s \in 1..n
      BY <2>3, <3>1 DEF Window
    <3>2. CASE s = n + 1
      BY <1>2, <3>2
    <3> QED
      BY <2>3, <3>1, <3>2
  <2> QED
    BY <2>1, <2>2, <2>3
<1> QED
  BY <1>1, <1>2

(* Each of the last RingSize sequences is in its slot, no other one is.     *)
LEMMA WindowHolds ==
  ASSUME NEW slots \in SlotsOf, NEW n \in Nat, Window(slots, n),
         NEW s \in 0..n, NEW i \in 0..(RingSize - 1), i = s % RingSize
  PROVE  (slots[i].used /\ slots[i].sequence = s) <=> (s >= 1 /\ s > n - RingSize)
<1>1. slots[i].sequence \in Nat
  BY DEF SlotsOf, Slot
<1> DEFINE t == slots[i].sequence
<1>2. ASSUME slots[i].used
      PROVE  t \in 1..n /\ t % RingSize = i /\ t + RingSize > n
  BY <1>2 DEF Window
<1>3. ASSUME slots[i].used, t = s
      PROVE  s >= 1 /\ s > n - RingSize
  BY <1>2, <1>3, Constants
<1>4. ASSUME s >= 1, s > n - RingSize
      PROVE  slots[i].used /\ t = s
  <2>1. slots[i].used
    BY <1>4 DEF Window
  <2>2. t \in 1..n /\ t % RingSize = s % RingSize /\ t + RingSize > n
    BY <1>2, <2>1
  <2>3. ~(t < s)
    <3> SUFFICES ASSUME t < s PROVE FALSE
      OBVIOUS
    <3>1. t + RingSize <= s
      BY <1>1, <2>2, ModGap, Constants
    <3> QED
      BY <1>1, <2>2, <3>1, Constants
  <2>4. ~(s < t)
    <3> SUFFICES ASSUME s < t PROVE FALSE
      OBVIOUS
    <3>1. s + RingSize <= t
      BY <1>1, <2>2, ModGap, Constants
    <3> QED
      BY <1>1, <1>4, <2>2, <3>1, Constants
  <2> QED
    BY <1>1, <2>1, <2>3, <2>4
<1> QED
  BY <1>3, <1>4

LEMMA StampGood ==
  ASSUME NEW slots \in SlotsOf, NEW next \in Nat \ {0}, NEW l \in Seq(Payload),
         NEW m, Good(slots, next, l, "settled", m),
         NEW after \in SlotsOf, NEW i \in 0..(RingSize - 1), i = next % RingSize,
         after[i].used, after[i].sequence = next,
         \A j \in 0..(RingSize - 1) : j # i => after[j] = slots[j],
         NEW k
  PROVE  Good(after, next + 1, l, "stamped", k)
<1>1. next = Len(l) + 1 /\ Len(l) \in Nat
  BY LenProperties DEF Good
<1>2. Window(after, next)
  <2>1. next - 1 \in Nat /\ Window(slots, next - 1) /\ (next - 1) + 1 = next
    BY DEF Good
  <2> QED
    BY <2>1, WindowMoves
<1>3. Text(after, l, "stamped", k)
  <2> SUFFICES ASSUME NEW j \in 0..(RingSize - 1), after[j].used
               PROVE  \/ after[j].sequence <= Len(l) /\ after[j].msg = l[after[j].sequence]
                      \/ after[j].sequence = Len(l) + 1
    BY DEF Text
  <2>1. CASE j = i
    BY <1>1, <2>1
  <2>2. CASE j # i
    BY <2>2 DEF Good, Text
  <2> QED
    BY <2>1, <2>2
<1>4. (next + 1) - 1 = next
  OBVIOUS
<1> QED
  BY <1>1, <1>2, <1>3, <1>4 DEF Good

LEMMA FillGood ==
  ASSUME NEW slots \in SlotsOf, NEW next \in Nat \ {0}, NEW l \in Seq(Payload),
         NEW m, Good(slots, next, l, "stamped", m),
         NEW after \in SlotsOf, NEW k, NEW i \in 0..(RingSize - 1),
         i = (next - 1) % RingSize,
         after[i].used = slots[i].used, after[i].sequence = slots[i].sequence,
         after[i].msg = k,
         \A j \in 0..(RingSize - 1) : j # i => after[j] = slots[j]
  PROVE  Good(after, next, l, "filled", k)
<1>1. next = Len(l) + 2 /\ Len(l) \in Nat
  BY LenProperties DEF Good
<1>2. Window(slots, next - 1) /\ Text(slots, l, "stamped", m)
  BY DEF Good
<1>3. \A j \in 0..(RingSize - 1) : /\ after[j].used = slots[j].used
                                   /\ after[j].sequence = slots[j].sequence
  OBVIOUS
<1>4. Window(after, next - 1)
  BY <1>2, <1>3 DEF Window
<1>5. slots[i].used /\ slots[i].sequence = next - 1
  BY <1>1, <1>2, WindowHolds, Constants
<1>6. Text(after, l, "filled", k)
  <2> SUFFICES ASSUME NEW j \in 0..(RingSize - 1), after[j].used
               PROVE  \/ after[j].sequence <= Len(l) /\ after[j].msg = l[after[j].sequence]
                      \/ after[j].sequence = Len(l) + 1 /\ after[j].msg = k
    BY DEF Text
  <2>1. CASE j = i
    BY <1>1, <1>3, <1>5, <2>1
  <2>2. CASE j # i
    <3>1. after[j] = slots[j] /\ slots[j].used
      BY <2>2
    <3>2. slots[j].sequence # next - 1
      BY <1>2, <2>2, <3>1 DEF Window
    <3>3. slots[j].sequence # Len(l) + 1
      BY <1>1, <3>2
    <3> QED
      BY <1>2, <3>1, <3>3 DEF Text
  <2> QED
    BY <2>1, <2>2
<1> QED
  BY <1>1, <1>4, <1>6 DEF Good

LEMMA LogGood ==
  ASSUME NEW slots \in SlotsOf, NEW next \in Nat \ {0}, NEW l \in Seq(Payload),
         NEW m \in Payload, Good(slots, next, l, "filled", m), NEW k
  PROVE  Good(slots, next, Append(l, m), "settled", k)
<1>1. /\ Len(Append(l, m)) = Len(l) + 1
      /\ \A s \in 1..Len(l) : Append(l, m)[s] = l[s]
      /\ Append(l, m)[Len(l) + 1] = m
  BY AppendProperties
<1>2. next = Len(l) + 2 /\ Len(l) \in Nat
  BY LenProperties DEF Good
<1>3. Window(slots, next - 1) /\ Text(slots, l, "filled", m)
  BY DEF Good
<1>4. Text(slots, Append(l, m), "settled", k)
  <2> SUFFICES ASSUME NEW j \in 0..(RingSize - 1), slots[j].used
               PROVE  /\ slots[j].sequence <= Len(l) + 1
                      /\ slots[j].msg = Append(l, m)[slots[j].sequence]
    BY <1>1 DEF Text
  <2>1. slots[j].sequence \in 1..(next - 1)
    BY <1>3 DEF Window
  <2>2. \/ slots[j].sequence <= Len(l) /\ slots[j].msg = l[slots[j].sequence]
        \/ slots[j].sequence = Len(l) + 1 /\ slots[j].msg = m
    BY <1>3 DEF Text
  <2> QED
    BY <1>1, <1>2, <2>1, <2>2
<1> QED
  BY <1>1, <1>2, <1>3, <1>4 DEF Good

(* A ring nobody is writing to: it is exactly the last RingSize messages.   *)
LEMMA SettledRing ==
  ASSUME NEW slots \in SlotsOf, NEW next \in Nat \ {0}, NEW l \in Seq(Payload),
         NEW m, Good(slots, next, l, "settled", m)
  PROVE  /\ next = Len(l) + 1
         /\ \A k : Good(slots, next, l, "settled", k)
         /\ \A i \in 0..(RingSize - 1) :
              slots[i].used => /\ slots[i].sequence \in 1..Len(l)
                               /\ slots[i].msg = l[slots[i].sequence]
<1>1. next = Len(l) + 1 /\ Len(l) \in Nat /\ next - 1 = Len(l)
  BY LenProperties DEF Good
<1>2. Window(slots, Len(l)) /\ Text(slots, l, "settled", m)
  BY <1>1 DEF Good
<1>3. ASSUME NEW i \in 0..(RingSize - 1), slots[i].used
      PROVE  slots[i].sequence \in 1..Len(l) /\ slots[i].msg = l[slots[i].sequence]
  <2>1. slots[i].sequence \in 1..Len(l)
    BY <1>2, <1>3 DEF Window
  <2>2. slots[i].sequence # Len(l) + 1
    BY <1>1, <2>1
  <2> QED
    BY <1>2, <1>3, <2>1, <2>2 DEF Text
<1>4. ASSUME NEW k PROVE Text(slots, l, "settled", k)
  BY <1>1, <1>3 DEF Text
<1> QED
  BY <1>1, <1>2, <1>3, <1>4 DEF Good

-----------------------------------------------------------------------------
(* The logs only grow, so a frame or a datagram stays true.                 *)

Logs == [Bucket -> Seq(Payload)]

Grows(l, k) ==
  \A b \in Bucket : /\ Len(l[b]) <= Len(k[b])
                    /\ \A s \in 1..Len(l[b]) : k[b][s] = l[b][s]

LEMMA GrowsRefl == ASSUME NEW l \in Logs PROVE Grows(l, l)
BY LenProperties DEF Grows, Logs

LEMMA GrowsKeeps ==
  ASSUME NEW l \in Logs, NEW k \in Logs, Grows(l, k), NEW b \in Bucket,
         NEW s \in 1..Len(l[b])
  PROVE  s \in 1..Len(k[b]) /\ k[b][s] = l[b][s]
BY LenProperties DEF Grows, Logs

LEMMA AppendGrows ==
  ASSUME NEW q \in Seq(Payload), NEW m \in Payload
  PROVE  /\ Append(q, m) \in Seq(Payload)
         /\ Len(Append(q, m)) = Len(q) + 1
         /\ Len(q) <= Len(Append(q, m))
         /\ \A s \in 1..Len(q) : Append(q, m)[s] = q[s]
         /\ Append(q, m)[Len(q) + 1] = m
         /\ Len(q) \in Nat
BY AppendProperties, LenProperties

LEMMA QueueKept ==
  ASSUME NEW l \in Logs, NEW k \in Logs, Grows(l, k),
         NEW q \in Seq(Frame), TrueQueue(l, q)
  PROVE  TrueQueue(k, q)
<1> SUFFICES ASSUME NEW i \in DOMAIN q PROVE TrueFrame(k, q[i])
  BY DEF TrueQueue
<1>1. q[i] \in Frame
  BY LenProperties, ElementOfSeq
<1>2. TrueFrame(l, q[i]) /\ q[i].bucket \in Bucket
  BY <1>1 DEF TrueQueue, Frame
<1> QED
  BY <1>2, GrowsKeeps DEF TrueFrame

LEMMA FramesKept ==
  ASSUME TypeOK, FramesInv, log' \in Logs, Grows(log, log'),
         response' = response, outbox' = outbox
  PROVE  FramesInv'
<1>1. log \in Logs
  BY DEF TypeOK, Logs
<1> SUFFICES ASSUME NEW c \in Client
             PROVE  TrueQueue(log', response[c]) /\ TrueQueue(log', outbox[c])
  BY DEF FramesInv
<1>2. /\ response[c] \in Seq(Frame) /\ outbox[c] \in Seq(Frame)
      /\ TrueQueue(log, response[c]) /\ TrueQueue(log, outbox[c])
  BY DEF TypeOK, FramesInv
<1> QED
  BY <1>1, <1>2, QueueKept

(* Queues made of a true one.                                               *)
LEMMA TrueParts ==
  ASSUME NEW l, NEW q \in Seq(Frame), TrueQueue(l, q)
  PROVE  /\ \A p \in Prefixes(q) : TrueQueue(l, p)
         /\ q # <<>> => TrueQueue(l, Tail(q))
<1>1. Len(q) \in Nat /\ DOMAIN q = 1..Len(q)
  BY LenProperties
<1>2. ASSUME NEW p \in Prefixes(q) PROVE TrueQueue(l, p)
  <2>1. p \in Seq(Frame) /\ Len(p) <= Len(q) /\ \A i \in 1..Len(p) : p[i] = q[i]
    BY PrefixType
  <2>2. Len(p) \in Nat /\ DOMAIN p = 1..Len(p)
    BY <2>1, LenProperties
  <2>3. \A i \in DOMAIN p : i \in DOMAIN q /\ p[i] = q[i]
    BY <1>1, <2>1, <2>2
  <2> QED
    BY <2>3 DEF TrueQueue
<1>3. ASSUME q # <<>> PROVE TrueQueue(l, Tail(q))
  <2>1. /\ Tail(q) \in Seq(Frame) /\ Len(Tail(q)) = Len(q) - 1
        /\ \A i \in 1..Len(Tail(q)) : Tail(q)[i] = q[i + 1]
    BY <1>3, HeadTailProperties
  <2>2. DOMAIN Tail(q) = 1..Len(Tail(q))
    BY <2>1, LenProperties
  <2>3. \A i \in DOMAIN Tail(q) : i + 1 \in DOMAIN q /\ Tail(q)[i] = q[i + 1]
    BY <1>1, <2>1, <2>2
  <2> QED
    BY <2>3 DEF TrueQueue
<1> QED
  BY <1>2, <1>3

LEMMA TrueConcat ==
  ASSUME NEW l, NEW q \in Seq(Frame), NEW p \in Seq(Frame), TrueQueue(l, q), TrueQueue(l, p)
  PROVE  q \o p \in Seq(Frame) /\ TrueQueue(l, q \o p)
<1>1. /\ q \o p \in Seq(Frame) /\ Len(q \o p) = Len(q) + Len(p)
      /\ \A i \in 1..(Len(q) + Len(p)) :
           (q \o p)[i] = IF i <= Len(q) THEN q[i] ELSE p[i - Len(q)]
  BY ConcatProperties
<1>2. /\ Len(q) \in Nat /\ DOMAIN q = 1..Len(q) /\ Len(p) \in Nat /\ DOMAIN p = 1..Len(p)
      /\ DOMAIN (q \o p) = 1..(Len(q) + Len(p))
  BY <1>1, LenProperties
<1> SUFFICES ASSUME NEW i \in 1..(Len(q) + Len(p)) PROVE TrueFrame(l, (q \o p)[i])
  BY <1>1, <1>2 DEF TrueQueue
<1>3. CASE i <= Len(q)
  BY <1>1, <1>2, <1>3 DEF TrueQueue
<1>4. CASE i > Len(q)
  <2>1. i - Len(q) \in DOMAIN p /\ (q \o p)[i] = p[i - Len(q)]
    BY <1>1, <1>2, <1>4
  <2> QED
    BY <2>1 DEF TrueQueue
<1> QED
  BY <1>2, <1>3, <1>4

LEMMA TrueAppend ==
  ASSUME NEW l, NEW q \in Seq(Frame), NEW f \in Frame, TrueQueue(l, q), TrueFrame(l, f)
  PROVE  TrueQueue(l, Append(q, f))
<1>1. /\ Append(q, f) \in Seq(Frame) /\ Len(Append(q, f)) = Len(q) + 1
      /\ \A i \in 1..Len(q) : Append(q, f)[i] = q[i]
      /\ Append(q, f)[Len(q) + 1] = f
  BY AppendProperties
<1>2. Len(q) \in Nat /\ DOMAIN q = 1..Len(q) /\ DOMAIN Append(q, f) = 1..(Len(q) + 1)
  BY <1>1, LenProperties
<1> SUFFICES ASSUME NEW i \in 1..(Len(q) + 1) PROVE TrueFrame(l, Append(q, f)[i])
  BY <1>2 DEF TrueQueue
<1>3. CASE i = Len(q) + 1
  BY <1>1, <1>3
<1>4. CASE i # Len(q) + 1
  BY <1>1, <1>2, <1>4 DEF TrueQueue
<1> QED
  BY <1>3, <1>4

(* Datagrams are never recalled.                                            *)
LEMMA SentKept ==
  ASSUME TypeOK, SentIsLogged, log' \in Logs, Grows(log, log'), multicast' = multicast
  PROVE  SentIsLogged'
<1>1. log \in Logs
  BY DEF TypeOK, Logs
<1> SUFFICES ASSUME NEW d \in multicast
             PROVE  d.sequence \in 1..Len(log'[d.bucket])
                    /\ d.msg = log'[d.bucket][d.sequence]
  BY DEF SentIsLogged, Published
<1>2. d.bucket \in Bucket
  BY DEF TypeOK
<1>3. d.sequence \in 1..Len(log[d.bucket]) /\ d.msg = log[d.bucket][d.sequence]
  BY DEF SentIsLogged, Published
<1> QED
  BY <1>1, <1>2, <1>3, GrowsKeeps

-----------------------------------------------------------------------------
(* The rings, action by action.                                             *)

BucketGood(b) == Good(ring[b], nextSequence[b], log[b], Phase(b), Pending)

LEMMA BucketType ==
  ASSUME TypeOK, NEW b \in Bucket
  PROVE  ring[b] \in SlotsOf /\ nextSequence[b] \in Nat \ {0} /\ log[b] \in Seq(Payload)
BY DEF TypeOK, SlotsOf

LEMMA Untouched ==
  ASSUME TypeOK, NEW b \in Bucket, BucketGood(b),
         ring'[b] = ring[b], nextSequence'[b] = nextSequence[b], log'[b] = log[b],
         Phase(b)' = Phase(b), Phase(b) = "settled" \/ Pending' = Pending
  PROVE  BucketGood(b)'
<1>1. Good(ring[b], nextSequence[b], log[b], Phase(b), Pending)
  BY DEF BucketGood
<1>2. Good(ring[b], nextSequence[b], log[b], Phase(b), Pending')
  BY <1>1, BucketType, SettledRing
<1> QED
  BY <1>2 DEF BucketGood

LEMMA SameSlots ==
  ASSUME NEW p \in SlotsOf, NEW q \in SlotsOf,
         \A j \in 0..(RingSize - 1) : p[j] = q[j]
  PROVE  p = q
<1>1. DOMAIN p = 0..(RingSize - 1) /\ DOMAIN q = 0..(RingSize - 1)
  BY DEF SlotsOf
<1>2. p = [j \in 0..(RingSize - 1) |-> p[j]] /\ q = [j \in 0..(RingSize - 1) |-> q[j]]
  BY <1>1, Zenon DEF SlotsOf
<1>3. [j \in 0..(RingSize - 1) |-> p[j]] = [j \in 0..(RingSize - 1) |-> q[j]]
  BY Zenon
<1> QED
  BY <1>2, <1>3

LEMMA StampedBucket ==
  ASSUME TypeOK, NEW b \in Bucket, BucketGood(b), StampSlot(b), UNCHANGED log,
         Phase(b) = "settled", Phase(b)' = "stamped"
  PROVE  /\ BucketGood(b)'
         /\ \A c \in Bucket \ {b} : ring'[c] = ring[c] /\ nextSequence'[c] = nextSequence[c]
<1>1. PICK i : i = nextSequence[b] % RingSize
  OBVIOUS
<1>2. /\ i \in 0..(RingSize - 1) /\ ring' \in Rings
      /\ nextSequence' = [nextSequence EXCEPT ![b] = nextSequence[b] + 1]
      /\ ring'[b][i] = [sequence |-> nextSequence[b], used |-> TRUE,
                        msg |-> ring[b][i].msg]
      /\ \A c \in Bucket, j \in 0..(RingSize - 1) :
           (c # b \/ j # i) => ring'[c][j] = ring[c][j]
  BY <1>1, Stamped
<1>3. ring'[b] \in SlotsOf /\ nextSequence'[b] = nextSequence[b] + 1
  BY <1>2 DEF Rings, SlotsOf, TypeOK
<1>4. ring'[b][i].used /\ ring'[b][i].sequence = nextSequence[b]
  BY <1>2
<1>5. \A j \in 0..(RingSize - 1) : j # i => ring'[b][j] = ring[b][j]
  BY <1>2
<1>6. Good(ring'[b], nextSequence[b] + 1, log[b], "stamped", Pending')
  <2>1. Good(ring[b], nextSequence[b], log[b], "settled", Pending)
    BY DEF BucketGood
  <2> QED
    BY <1>1, <1>2, <1>3, <1>4, <1>5, <2>1, BucketType, StampGood
<1>7. BucketGood(b)'
  BY <1>3, <1>6 DEF BucketGood
<1>8. ASSUME NEW c \in Bucket \ {b}
      PROVE  ring'[c] = ring[c] /\ nextSequence'[c] = nextSequence[c]
  <2>1. \A j \in 0..(RingSize - 1) : ring'[c][j] = ring[c][j]
    BY <1>2, <1>8
  <2>2. ring'[c] \in SlotsOf /\ ring[c] \in SlotsOf
    BY <1>2, <1>8, BucketType DEF Rings, SlotsOf
  <2>3. ring'[c] = ring[c]
    BY <2>1, <2>2, SameSlots
  <2>4. nextSequence'[c] = nextSequence[c]
    BY <1>2, <1>8 DEF TypeOK
  <2> QED
    BY <2>3, <2>4
<1> QED
  BY <1>7, <1>8

LEMMA FilledBucket ==
  ASSUME TypeOK, NEW b \in Bucket, BucketGood(b), NEW s \in Nat, s = nextSequence[b] - 1,
         FillSlot(b, s, Pending'), Pending' \in Payload, UNCHANGED <<nextSequence, log>>,
         Phase(b) = "stamped", Phase(b)' = "filled"
  PROVE  /\ BucketGood(b)'
         /\ \A c \in Bucket \ {b} : ring'[c] = ring[c]
<1>0. PICK i : i = s % RingSize
  OBVIOUS
<1>1. PICK m \in Payload : m = Pending'
  OBVIOUS
<1>2. /\ i \in 0..(RingSize - 1) /\ ring' \in Rings
      /\ ring'[b][i] = [sequence |-> ring[b][i].sequence, used |-> ring[b][i].used,
                        msg |-> m]
      /\ \A c \in Bucket, j \in 0..(RingSize - 1) :
           (c # b \/ j # i) => ring'[c][j] = ring[c][j]
  <2>1. FillSlot(b, s, m)
    BY <1>1
  <2> QED
    BY <1>0, <2>1, Filled
<1>3. ring'[b] \in SlotsOf
  BY <1>2 DEF Rings, SlotsOf
<1>4. /\ ring'[b][i].used = ring[b][i].used /\ ring'[b][i].sequence = ring[b][i].sequence
      /\ ring'[b][i].msg = m
  BY <1>2
<1>5. \A j \in 0..(RingSize - 1) : j # i => ring'[b][j] = ring[b][j]
  BY <1>2
<1>6. Good(ring'[b], nextSequence[b], log[b], "filled", m)
  <2>1. Good(ring[b], nextSequence[b], log[b], "stamped", Pending)
    BY DEF BucketGood
  <2> QED
    BY <1>0, <1>2, <1>3, <1>4, <1>5, <2>1, BucketType, FillGood
<1>7. BucketGood(b)'
  BY <1>1, <1>6 DEF BucketGood
<1>8. ASSUME NEW c \in Bucket \ {b} PROVE ring'[c] = ring[c]
  <2>1. \A j \in 0..(RingSize - 1) : ring'[c][j] = ring[c][j]
    BY <1>2, <1>8
  <2>2. ring'[c] \in SlotsOf /\ ring[c] \in SlotsOf
    BY <1>2, <1>8, BucketType DEF Rings, SlotsOf
  <2> QED
    BY <2>1, <2>2, SameSlots
<1> QED
  BY <1>7, <1>8

LEMMA LoggedBucket ==
  ASSUME TypeOK, NEW b \in Bucket, BucketGood(b), UNCHANGED ringVars,
         Phase(b) = "filled", Phase(b)' = "settled", Pending \in Payload,
         log'[b] = Append(log[b], Pending)
  PROVE  BucketGood(b)'
<1>1. Good(ring[b], nextSequence[b], log[b], "filled", Pending)
  BY DEF BucketGood
<1>2. Good(ring[b], nextSequence[b], Append(log[b], Pending), "settled", Pending')
  BY <1>1, BucketType, LogGood
<1> QED
  BY <1>2 DEF BucketGood, ringVars

LEMMA RingMain ==
  ASSUME TypeOK, RingInv, CurrentInv, MainStep
  PROVE  RingInv'
<1> USE DEF mainVars, ringVars, socketVars, threadVars
<1> SUFFICES ASSUME NEW b \in Bucket PROVE BucketGood(b)'
  BY DEF RingInv, BucketGood
<1>0. BucketGood(b) /\ Bucket = 1..NumBuckets /\ NumBuckets \in Nat
  BY Constants DEF RingInv, BucketGood
<1>1. ASSUME NEW c \in Bucket, NEW m \in Msg, PublishLock(c, m) PROVE BucketGood(b)'
  <2>1. Phase(b) = "settled" /\ Phase(b)' = "settled"
    BY <1>1 DEF PublishLock, Phase
  <2> QED
    BY <1>0, <1>1, <2>1, Untouched DEF PublishLock
<1>2. CASE PublishStamp
  <2>1. current.bucket \in Bucket /\ BucketGood(current.bucket)
    BY DEF TypeOK, RingInv, BucketGood
  <2>2. /\ Phase(current.bucket) = "settled" /\ Phase(current.bucket)' = "stamped"
        /\ b # current.bucket => Phase(b) = "settled" /\ Phase(b)' = "settled"
    BY <1>2 DEF PublishStamp, Phase
  <2>3. /\ BucketGood(current.bucket)'
        /\ \A c \in Bucket \ {current.bucket} :
             ring'[c] = ring[c] /\ nextSequence'[c] = nextSequence[c]
    <3> DEFINE d == current.bucket
    <3>1. StampSlot(d) /\ UNCHANGED log /\ UNCHANGED current
      BY <1>2 DEF PublishStamp
    <3>2. PICK e \in Bucket : e = current.bucket
      BY <2>1
    <3>3. /\ BucketGood(e) /\ StampSlot(e) /\ UNCHANGED log
          /\ Phase(e) = "settled" /\ Phase(e)' = "stamped"
      BY <2>1, <2>2, <3>1, <3>2 DEF Phase
    <3>4. /\ BucketGood(e)'
          /\ \A c \in Bucket \ {e} :
               ring'[c] = ring[c] /\ nextSequence'[c] = nextSequence[c]
      BY <3>3, StampedBucket
    <3> QED
      BY <3>1, <3>2, <3>4 DEF BucketGood, Phase
  <2>4. CASE b = current.bucket
    BY <1>2, <2>3, <2>4 DEF PublishStamp, BucketGood, Phase
  <2>5. CASE b # current.bucket
    BY <1>0, <1>2, <2>2, <2>3, <2>5, Untouched DEF PublishStamp
  <2> QED
    BY <2>4, <2>5
<1>3. CASE PublishFill
  <2>1. PICK e \in Bucket : e = current.bucket
    BY DEF TypeOK
  <2>2. /\ Phase(e) = "stamped" /\ Phase(e)' = "filled"
        /\ b # e => Phase(b) = "settled" /\ Phase(b)' = "settled"
        /\ Pending' = current.msg /\ current.msg \in Payload
    BY <1>3, <2>1 DEF PublishFill, Phase, Pending, TypeOK
  <2>3. current.sequence \in Nat /\ current.sequence = nextSequence[e] - 1
    <3>1. nextSequence[e] = Len(log[e]) + 2 /\ Len(log[e]) \in Nat
      BY <2>1, <2>2, LenProperties, BucketType DEF RingInv, Good
    <3>2. current.sequence = Len(log[e]) + 1
      BY <1>3, <2>1 DEF CurrentInv, PublishFill, Published
    <3> QED
      BY <3>1, <3>2
  <2>4. BucketGood(e) /\ FillSlot(e, current.sequence, Pending')
    BY <1>3, <2>1, <2>2 DEF RingInv, BucketGood, PublishFill
  <2>5. BucketGood(e)' /\ \A c \in Bucket \ {e} : ring'[c] = ring[c]
    <3>1. UNCHANGED <<nextSequence, log>> /\ Pending' \in Payload
      BY <1>3, <2>2 DEF PublishFill
    <3>2. PICK s \in Nat : s = current.sequence
      BY <2>3
    <3>3. s = nextSequence[e] - 1 /\ FillSlot(e, s, Pending')
      BY <2>3, <2>4, <3>2
    <3> QED
      BY <2>2, <2>4, <3>1, <3>3, FilledBucket
  <2>6. CASE b = e
    BY <2>5, <2>6
  <2>7. CASE b # e
    BY <1>0, <1>3, <2>2, <2>5, <2>7, Untouched DEF PublishFill
  <2> QED
    BY <2>6, <2>7
<1>4. CASE PublishUnlock
  <2>1. PICK e \in Bucket : e = current.bucket
    BY DEF TypeOK
  <2>2. /\ Phase(e) = "filled" /\ Phase(e)' = "settled"
        /\ b # e => Phase(b) = "settled" /\ Phase(b)' = "settled"
        /\ Pending = current.msg /\ current.msg \in Payload
    BY <1>4, <2>1 DEF PublishUnlock, Phase, Pending, TypeOK
  <2>3. /\ log'[e] = Append(log[e], Pending) /\ UNCHANGED ringVars
        /\ b # e => log'[b] = log[b]
    BY <1>4, <2>1, <2>2 DEF PublishUnlock, TypeOK
  <2>4. CASE b = e
    BY <1>0, <2>2, <2>3, <2>4, LoggedBucket
  <2>5. CASE b # e
    BY <1>0, <2>2, <2>3, <2>5, Untouched
  <2> QED
    BY <2>4, <2>5
<1>5. CASE PublishSend
  <2>1. Phase(b) = "settled" /\ Phase(b)' = "settled"
    BY <1>5 DEF PublishSend, Phase
  <2> QED
    BY <1>0, <1>5, <2>1, Untouched DEF PublishSend
<1>6. CASE FinishLock
  <2>1. Phase(b) = "settled" /\ Phase(b)' = "settled"
    BY <1>0, <1>6 DEF FinishLock, Phase
  <2> QED
    BY <1>0, <1>6, <2>1, Untouched DEF FinishLock
<1>7. CASE FinishStamp
  <2>1. PICK e \in Bucket : e = turn
    BY DEF TypeOK
  <2>2. /\ Phase(e) = "settled" /\ Phase(e)' = "stamped"
        /\ b # e => Phase(b)' = Phase(b)
        /\ Pending' = Pending
    BY <1>0, <1>7, <2>1 DEF FinishStamp, Phase, Pending
  <2>3. BucketGood(e) /\ StampSlot(e) /\ UNCHANGED log
    BY <1>7, <2>1 DEF FinishStamp, RingInv, BucketGood
  <2>4. /\ BucketGood(e)'
        /\ \A c \in Bucket \ {e} : ring'[c] = ring[c] /\ nextSequence'[c] = nextSequence[c]
    BY <2>2, <2>3, StampedBucket
  <2>5. CASE b = e
    BY <2>4, <2>5
  <2>6. CASE b # e
    BY <1>0, <2>2, <2>3, <2>4, <2>6, Untouched
  <2> QED
    BY <2>5, <2>6
<1>8. CASE FinishFill
  <2>1. PICK e \in Bucket : e = turn
    BY DEF TypeOK
  <2>2. Phase(e) = "stamped" /\ Pending = EndMsg /\ Pending' = EndMsg /\ EndMsg \in Payload
    BY <1>8, <2>1, Constants DEF FinishFill, Phase, Pending
  <2>3. Phase(e)' = "filled" /\ (b # e => Phase(b)' = Phase(b))
    <3>1. CASE turn < NumBuckets
      BY <1>0, <1>8, <2>1, <3>1 DEF FinishFill, Phase
    <3>2. CASE ~(turn < NumBuckets)
      BY <1>0, <1>8, <2>1, <3>2 DEF FinishFill, Phase
    <3> QED
      BY <3>1, <3>2
  <2>4. PICK s \in Nat : s = nextSequence[e] - 1
    BY DEF TypeOK
  <2>5. /\ BucketGood(e) /\ FillSlot(e, s, Pending') /\ UNCHANGED <<nextSequence, log>>
        /\ Pending' \in Payload
    BY <1>8, <2>1, <2>2, <2>4 DEF FinishFill, RingInv, BucketGood
  <2>6. BucketGood(e)' /\ \A c \in Bucket \ {e} : ring'[c] = ring[c]
    BY <2>2, <2>3, <2>4, <2>5, FilledBucket
  <2>7. CASE b = e
    BY <2>6, <2>7
  <2>8. CASE b # e
    BY <1>0, <2>2, <2>3, <2>5, <2>6, <2>8, Untouched
  <2> QED
    BY <2>7, <2>8
<1>9. CASE FinishUnlock
  <2>1. /\ Phase(b) = "filled" /\ Phase(b)' = "settled"
        /\ Pending = EndMsg /\ EndMsg \in Payload
    BY <1>9, Constants DEF FinishUnlock, Phase, Pending
  <2>2. log'[b] = Append(log[b], Pending) /\ UNCHANGED ringVars
    BY <1>9, <2>1 DEF FinishUnlock
  <2> QED
    BY <1>0, <2>1, <2>2, LoggedBucket
<1>10. CASE Announce
  <2>1. Phase(b) = "settled" /\ Phase(b)' = "settled"
    BY <1>10 DEF Announce, Phase
  <2> QED
    BY <1>0, <1>10, <2>1, Untouched DEF Announce
<1>11. CASE Exit
  <2>1. Phase(b) = "settled" /\ Phase(b)' = "settled"
    BY <1>11 DEF Exit, Phase
  <2> QED
    BY <1>0, <1>11, <2>1, Untouched DEF Exit
<1> QED
  BY <1>1, <1>2, <1>3, <1>4, <1>5, <1>6, <1>7, <1>8, <1>9, <1>10, <1>11 DEF MainStep

-----------------------------------------------------------------------------
(* The rest of the invariant along the publishing thread.                   *)

(* What is published is logged once and for good.                           *)
LEMMA LogGrows ==
  ASSUME TypeOK, MainStep
  PROVE  log \in Logs /\ log' \in Logs /\ Grows(log, log')
<1>1. log \in Logs /\ log' \in Logs
  BY TypeMain DEF TypeOK, Logs
<1>2. CASE PublishUnlock
  <2>1. \A b \in Bucket : log'[b] = log[b] \/ log'[b] = Append(log[b], current.msg)
    BY <1>1, <1>2 DEF PublishUnlock, Logs
  <2>2. current.msg \in Payload
    BY DEF TypeOK
  <2>3. ASSUME NEW b \in Bucket
        PROVE  /\ Len(log[b]) <= Len(log'[b])
               /\ \A s \in 1..Len(log[b]) : log'[b][s] = log[b][s]
    <3>1. log[b] \in Seq(Payload)
      BY <1>1 DEF Logs
    <3>2. CASE log'[b] = log[b]
      BY <3>1, <3>2, LenProperties
    <3>3. CASE log'[b] = Append(log[b], current.msg)
      <4>1. PICK m \in Payload : m = current.msg
        BY <2>2
      <4>2. log'[b] = Append(log[b], m)
        BY <3>3, <4>1
      <4> QED
        BY <3>1, <4>2, AppendGrows
    <3> QED
      BY <2>1, <3>2, <3>3
  <2> QED
    BY <1>1, <2>3 DEF Grows
<1>3. CASE FinishUnlock
  <2>1. \A b \in Bucket : log'[b] = Append(log[b], EndMsg)
    BY <1>3 DEF FinishUnlock
  <2>2. ASSUME NEW b \in Bucket
        PROVE  /\ Len(log[b]) <= Len(log'[b])
               /\ \A s \in 1..Len(log[b]) : log'[b][s] = log[b][s]
    <3>1. log[b] \in Seq(Payload)
      BY <1>1 DEF Logs
    <3>2. PICK m \in Payload : m = EndMsg
      BY Constants
    <3>3. log'[b] = Append(log[b], m)
      BY <2>1, <3>2
    <3> QED
      BY <3>1, <3>3, AppendGrows
  <2> QED
    BY <1>1, <2>2 DEF Grows
<1>4. CASE UNCHANGED log
  BY <1>1, <1>4, GrowsRefl
<1> QED
  BY <1>1, <1>2, <1>3, <1>4 DEF MainStep, PublishLock, PublishStamp, PublishFill,
     PublishSend, FinishLock, FinishStamp, FinishFill, Announce, Exit

LEMMA MutexMain ==
  ASSUME TypeOK, MutexInv, MainStep
  PROVE  MutexInv'
<1> USE Constants DEF mainVars, ringVars, socketVars, threadVars, Holding
<1>1. ASSUME NEW b \in Bucket, NEW m \in Msg, PublishLock(b, m) PROVE MutexInv'
  BY <1>1 DEF PublishLock, MutexInv
<1>2. CASE FinishLock
  BY <1>2 DEF FinishLock, MutexInv
<1>3. CASE PublishUnlock
  BY <1>3 DEF PublishUnlock, MutexInv
<1>4. CASE FinishUnlock
  BY <1>4 DEF FinishUnlock, MutexInv
<1>5. CASE PublishStamp \/ PublishFill \/ PublishSend
  BY <1>5 DEF PublishStamp, PublishFill, PublishSend, MutexInv
<1>6. CASE FinishStamp \/ FinishFill \/ Announce
  BY <1>6 DEF FinishStamp, FinishFill, Announce, MutexInv
<1>7. CASE Exit
  BY <1>7 DEF Exit, MutexInv
<1> QED
  BY <1>1, <1>2, <1>3, <1>4, <1>5, <1>6, <1>7 DEF MainStep

LEMMA CurrentMain ==
  ASSUME TypeOK, RingInv, CurrentInv, MainStep
  PROVE  CurrentInv'
<1> USE DEF mainVars, ringVars, socketVars, threadVars, Published
<1>0. current.bucket \in Bucket /\ current.msg \in Payload
  BY DEF TypeOK
<1>1. ASSUME NEW b \in Bucket, NEW m \in Msg, PublishLock(b, m) PROVE CurrentInv'
  <2>1. Phase(b) = "settled"
    BY <1>1 DEF PublishLock, Phase
  <2>2. nextSequence[b] = Len(log[b]) + 1
    BY <2>1, BucketType DEF RingInv, Good
  <2> QED
    BY <1>1, <2>2 DEF PublishLock, CurrentInv
<1>2. CASE PublishStamp \/ PublishFill
  BY <1>2 DEF PublishStamp, PublishFill, CurrentInv
<1>3. CASE PublishUnlock
  <2>1. /\ current' = current /\ pc' = "send"
        /\ log'[current.bucket] = Append(log[current.bucket], current.msg)
    BY <1>0, <1>3 DEF PublishUnlock, TypeOK
  <2>2. log[current.bucket] \in Seq(Payload)
    BY <1>0, BucketType
  <2>3. /\ Len(log'[current.bucket]) = Len(log[current.bucket]) + 1
        /\ log'[current.bucket][Len(log[current.bucket]) + 1] = current.msg
        /\ Len(log[current.bucket]) \in Nat
    BY <1>0, <2>1, <2>2, AppendGrows
  <2>4. current.sequence = Len(log[current.bucket]) + 1
    BY <1>3 DEF PublishUnlock, CurrentInv
  <2> QED
    BY <2>1, <2>3, <2>4 DEF CurrentInv
<1>4. CASE FinishUnlock
  <2>1. pc' = "announce" /\ \A b \in Bucket : log'[b] = Append(log[b], EndMsg)
    BY <1>4 DEF FinishUnlock
  <2>2. \A b \in Bucket : /\ Len(log'[b]) >= 1
                          /\ log'[b][Len(log'[b])] = EndMsg
    BY <2>1, Constants, BucketType, AppendGrows
  <2> QED
    BY <2>1, <2>2 DEF CurrentInv
<1>5. CASE Announce
  BY <1>5 DEF Announce, CurrentInv
<1>6. CASE PublishSend \/ FinishLock \/ FinishStamp \/ FinishFill \/ Exit
  <2>1. pc' \in {"ready", "stampEnd", "fillEnd", "unlockEnd", "exited"}
    BY <1>6 DEF PublishSend, FinishLock, FinishStamp, FinishFill, Exit
  <2> QED
    BY <2>1 DEF CurrentInv
<1> QED
  BY <1>1, <1>2, <1>3, <1>4, <1>5, <1>6 DEF MainStep

LEMMA FramesMain ==
  ASSUME TypeOK, FramesInv, MainStep
  PROVE  FramesInv'
<1>1. CASE Exit
  <2>1. log' = log /\ \A c \in Client : response'[c] = <<>> /\ outbox'[c] \in Prefixes(outbox[c])
    BY <1>1 DEF Exit
  <2>2. ASSUME NEW c \in Client
        PROVE  TrueQueue(log', response'[c]) /\ TrueQueue(log', outbox'[c])
    <3>1. outbox[c] \in Seq(Frame) /\ TrueQueue(log, outbox[c])
      BY DEF TypeOK, FramesInv
    <3>2. TrueQueue(log, <<>>)
      BY DEF TrueQueue
    <3> QED
      BY <2>1, <3>1, <3>2, TrueParts
  <2> QED
    BY <2>2 DEF FramesInv
<1>2. CASE UNCHANGED <<response, outbox>>
  BY <1>2, LogGrows, FramesKept
<1> QED
  BY <1>1, <1>2 DEF MainStep, PublishLock, PublishStamp, PublishFill, PublishUnlock,
     PublishSend, FinishLock, FinishStamp, FinishFill, FinishUnlock, Announce,
     socketVars, threadVars

(* A new datagram carries what the log has under its number.                *)
LEMMA SentMain ==
  ASSUME TypeOK, RingInv, CurrentInv, SentIsLogged, MainStep
  PROVE  SentIsLogged'
<1>1. CASE UNCHANGED multicast
  BY <1>1, LogGrows, SentKept
<1>2. ASSUME NEW d, multicast' = multicast \cup {d}, log' = log,
             d.sequence \in 1..Len(log[d.bucket]), d.msg = log[d.bucket][d.sequence]
      PROVE  SentIsLogged'
  BY <1>2 DEF SentIsLogged, Published
<1>3. CASE PublishSend /\ ~UNCHANGED multicast
  <2> DEFINE d == Datagram(current.bucket, current.sequence, current.msg)
  <2>1. multicast' = multicast \cup {d} /\ log' = log
    BY <1>3 DEF PublishSend
  <2>2. /\ d.bucket = current.bucket /\ d.sequence = current.sequence
        /\ d.msg = current.msg
    BY DEF Datagram
  <2>3. d.sequence \in 1..Len(log[d.bucket]) /\ d.msg = log[d.bucket][d.sequence]
    BY <1>3, <2>2 DEF PublishSend, CurrentInv, Published
  <2> HIDE DEF d
  <2> QED
    BY <1>2, <2>1, <2>3
<1>4. CASE Announce /\ ~UNCHANGED multicast
  <2> DEFINE d == Datagram(turn, nextSequence[turn] - 1, EndMsg)
  <2>1. multicast' = multicast \cup {d} /\ log' = log
    BY <1>4 DEF Announce
  <2>2. d.bucket = turn /\ d.sequence = nextSequence[turn] - 1 /\ d.msg = EndMsg
    BY DEF Datagram
  <2>3. turn \in Bucket /\ Phase(turn) = "settled"
    BY <1>4 DEF TypeOK, Announce, Phase
  <2>4. nextSequence[turn] = Len(log[turn]) + 1 /\ Len(log[turn]) \in Nat
    BY <2>3, BucketType, LenProperties DEF RingInv, Good
  <2>5. Len(log[turn]) >= 1 /\ log[turn][Len(log[turn])] = EndMsg
    BY <1>4, <2>3 DEF Announce, CurrentInv, Published
  <2>6. d.sequence = Len(log[d.bucket]) /\ d.sequence \in 1..Len(log[d.bucket])
        /\ d.msg = log[d.bucket][d.sequence]
    BY <2>2, <2>4, <2>5
  <2> HIDE DEF d
  <2> QED
    BY <1>2, <2>1, <2>6
<1> QED
  BY <1>1, <1>3, <1>4 DEF MainStep, PublishLock, PublishStamp, PublishFill, PublishUnlock,
     FinishLock, FinishStamp, FinishFill, FinishUnlock, Exit

-----------------------------------------------------------------------------
(* The threads of the connections: they read the rings only while nobody    *)
(* writes them.                                                             *)

LEMMA AnswerIsTrue ==
  ASSUME TypeOK, MutexInv, RingInv, FramesInv, NEW c \in Client, AnswerOne(c)
  PROVE  FramesInv'
<1>1. PICK b \in Bucket, s \in Sequence, i \in 0..(RingSize - 1) :
        /\ i = s % RingSize /\ ring[b][i] \in Slot
        /\ FrameFor(ring[b][i], b, s) \in Frame
        /\ response' = [response EXCEPT ![c] =
                          Append(response[c], FrameFor(ring[b][i], b, s))]
  BY Answered
<1>2. log' = log /\ outbox' = outbox
  BY DEF AnswerOne, socketVars
<1>3. ~Holding
  BY Constants DEF MutexInv, AnswerOne
<1>4. Phase(b) = "settled"
  BY <1>3 DEF Holding, Phase
<1>5. ring[b][i].used => /\ ring[b][i].sequence \in 1..Len(log[b])
                         /\ ring[b][i].msg = log[b][ring[b][i].sequence]
  <2>1. Good(ring[b], nextSequence[b], log[b], "settled", Pending)
    BY <1>4 DEF RingInv
  <2> QED
    BY <2>1, BucketType, SettledRing
<1> DEFINE f == FrameFor(ring[b][i], b, s)
<1>6. TrueFrame(log, f)
  BY <1>5 DEF TrueFrame, FrameFor
<1>7. response[c] \in Seq(Frame) /\ TrueQueue(log, response[c])
  BY DEF TypeOK, FramesInv
<1>8. f \in Frame
  BY <1>1
<1> HIDE DEF f
<1>9. TrueQueue(log, Append(response[c], f))
  BY <1>6, <1>7, <1>8, TrueAppend
<1>10. \A e \in Client : response'[e] = IF e = c THEN Append(response[c], f) ELSE response[e]
  BY <1>1 DEF TypeOK, f
<1> QED
  BY <1>2, <1>9, <1>10 DEF FramesInv

LEMMA InvThread ==
  ASSUME PublisherInv, NEW c \in Client, ThreadStep(c)
  PROVE  MutexInv' /\ RingInv' /\ CurrentInv' /\ FramesInv' /\ SentIsLogged'
<1> USE DEF mainVars, ringVars, socketVars, threadVars, PublisherInv
<1>1. UNCHANGED <<ring, nextSequence, pc, current, turn, round, log, multicast>>
  BY DEF ThreadStep, ReadRequest, RejectRequest, LockRing, AnswerOne, UnlockRing,
         WriteResponse, WriteFails
<1>2. RingInv' /\ CurrentInv' /\ SentIsLogged'
  <2>1. RingInv'
    BY <1>1 DEF RingInv, Phase, Pending
  <2>2. CurrentInv'
    BY <1>1 DEF CurrentInv, Published
  <2>3. SentIsLogged'
    BY <1>1 DEF SentIsLogged, Published
  <2> QED
    BY <2>1, <2>2, <2>3
<1>3. MutexInv'
  <2> USE Constants DEF Holding
  <2>1. CASE LockRing(c)
    BY <1>1, <2>1 DEF LockRing, MutexInv, TypeOK
  <2>2. CASE UnlockRing(c)
    BY <1>1, <2>2 DEF UnlockRing, MutexInv, TypeOK
  <2>3. CASE AnswerOne(c)
    BY <1>1, <2>3 DEF AnswerOne, MutexInv
  <2>4. CASE ReadRequest(c) \/ WriteResponse(c)
    BY <1>1, <2>4 DEF ReadRequest, WriteResponse, MutexInv, TypeOK
  <2>5. CASE RejectRequest(c) \/ WriteFails(c)
    BY <1>1, <2>5 DEF RejectRequest, WriteFails, CloseSocket, MutexInv, TypeOK
  <2> QED
    BY <2>1, <2>2, <2>3, <2>4, <2>5 DEF ThreadStep
<1>4. FramesInv'
  <2>1. /\ response[c] \in Seq(Frame) /\ TrueQueue(log, response[c])
        /\ outbox[c] \in Seq(Frame) /\ TrueQueue(log, outbox[c])
        /\ <<>> \in Seq(Frame) /\ TrueQueue(log, <<>>)
    BY DEF TypeOK, FramesInv, TrueQueue
  <2>2. outbox[c] \o response[c] \in Seq(Frame) /\ TrueQueue(log, outbox[c] \o response[c])
    BY <2>1, TrueConcat
  <2>3. CASE AnswerOne(c)
    BY <2>3, AnswerIsTrue
  <2>4. CASE ReadRequest(c) \/ LockRing(c) \/ UnlockRing(c)
    BY <1>1, <2>4 DEF ReadRequest, LockRing, UnlockRing, FramesInv
  <2>5. CASE RejectRequest(c)
    <3>1. PICK q \in Prefixes(outbox[c]) : outbox' = [outbox EXCEPT ![c] = q]
      BY <2>5 DEF RejectRequest
    <3>2. TrueQueue(log, q)
      BY <2>1, TrueParts
    <3>3. \A e \in Client : outbox'[e] = IF e = c THEN q ELSE outbox[e]
      BY <3>1 DEF TypeOK
    <3> QED
      BY <1>1, <2>5, <3>2, <3>3 DEF RejectRequest, FramesInv
  <2>6. CASE WriteResponse(c)
    <3>1. \A e \in Client :
            /\ outbox'[e] = IF e = c THEN outbox[c] \o response[c] ELSE outbox[e]
            /\ response'[e] = IF e = c THEN <<>> ELSE response[e]
      BY <2>6 DEF WriteResponse, TypeOK
    <3> QED
      BY <1>1, <2>1, <2>2, <3>1 DEF FramesInv
  <2>7. CASE WriteFails(c)
    <3>1. \A e \in Client : response'[e] = IF e = c THEN <<>> ELSE response[e]
      BY <2>7 DEF WriteFails, TypeOK
    <3>2. PICK q : /\ TrueQueue(log, q)
                   /\ \A e \in Client : outbox'[e] = IF e = c THEN q ELSE outbox[e]
      <4>1. CASE link[c] = "open"
        <5>1. PICK q \in Prefixes(outbox[c] \o response[c]) :
                outbox' = [outbox EXCEPT ![c] = q]
          BY <2>7, <4>1 DEF WriteFails
        <5>2. TrueQueue(log, q)
          BY <2>2, TrueParts
        <5> QED
          BY <5>1, <5>2 DEF TypeOK
      <4>2. CASE link[c] # "open"
        BY <2>1, <2>7, <4>2 DEF WriteFails
      <4> QED
        BY <4>1, <4>2
    <3> QED
      BY <1>1, <2>1, <3>1, <3>2 DEF FramesInv
  <2> QED
    BY <2>3, <2>4, <2>5, <2>6, <2>7 DEF ThreadStep
<1> QED
  BY <1>2, <1>3, <1>4

LEMMA InvClient ==
  ASSUME PublisherInv, NEW c \in Client, ClientStep(c)
  PROVE  MutexInv' /\ RingInv' /\ CurrentInv' /\ FramesInv' /\ SentIsLogged'
<1> USE DEF mainVars, ringVars, socketVars, threadVars, PublisherInv
<1>1. UNCHANGED <<ring, nextSequence, mutex, pc, current, turn, round, log, multicast,
                  response>>
  BY DEF ClientStep, Accept, ClientTakes, ClientCloses, ClientAsks
<1>2. RingInv' /\ CurrentInv' /\ SentIsLogged'
  <2>1. RingInv'
    BY <1>1 DEF RingInv, Phase, Pending
  <2>2. CurrentInv'
    BY <1>1 DEF CurrentInv, Published
  <2>3. SentIsLogged'
    BY <1>1 DEF SentIsLogged, Published
  <2> QED
    BY <2>1, <2>2, <2>3
<1>3. MutexInv'
  <2>1. \A e \in Client : step'[e] = "answer" => step[e] = "answer"
    BY DEF ClientStep, Accept, ClientTakes, ClientCloses, ClientAsks, TypeOK
  <2> QED
    BY <1>1, <2>1 DEF MutexInv, Holding
<1>4. FramesInv'
  <2>1. /\ outbox[c] \in Seq(Frame) /\ TrueQueue(log, outbox[c]) /\ TrueQueue(log, <<>>)
    BY DEF TypeOK, FramesInv, TrueQueue
  <2>2. \A e \in Client : TrueQueue(log, outbox'[e])
    <3>1. CASE ClientTakes(c)
      <4>1. TrueQueue(log, Tail(outbox[c]))
        BY <2>1, <3>1, TrueParts DEF ClientTakes
      <4> QED
        BY <3>1, <4>1 DEF ClientTakes, FramesInv, TypeOK
    <3>2. CASE ClientCloses(c)
      BY <2>1, <3>2 DEF ClientCloses, FramesInv, TypeOK
    <3>3. CASE UNCHANGED outbox
      BY <3>3 DEF FramesInv
    <3> QED
      BY <3>1, <3>2, <3>3 DEF ClientStep, Accept, ClientAsks
  <2> QED
    BY <1>1, <2>2 DEF FramesInv
<1> QED
  BY <1>2, <1>3, <1>4

-----------------------------------------------------------------------------
(* The invariant holds, and with it what a subscriber relies on.            *)

LEMMA InvInit == Init => PublisherInv
<1> SUFFICES ASSUME Init PROVE PublisherInv
  OBVIOUS
<1>1. TypeOK
  BY TypeInit
<1>2. MutexInv
  BY Constants DEF Init, MutexInv, Holding
<1>3. RingInv
  <2> SUFFICES ASSUME NEW b \in Bucket
               PROVE  Good(ring[b], nextSequence[b], log[b], Phase(b), Pending)
    BY DEF RingInv
  <2>1. /\ \A i \in 0..(RingSize - 1) : ~ring[b][i].used
        /\ nextSequence[b] = 1 /\ log[b] = <<>> /\ Len(log[b]) = 0
    BY DEF Init, UnusedSlot
  <2>2. Phase(b) = "settled"
    BY DEF Init, Phase
  <2>3. Window(ring[b], 0)
    BY <2>1 DEF Window
  <2>4. Text(ring[b], log[b], Phase(b), Pending)
    BY <2>1 DEF Text
  <2> QED
    BY <2>1, <2>2, <2>3, <2>4 DEF Good
<1>4. CurrentInv /\ SentIsLogged
  BY DEF Init, CurrentInv, SentIsLogged
<1>5. FramesInv
  BY DEF Init, FramesInv, TrueQueue
<1> QED
  BY <1>1, <1>2, <1>3, <1>4, <1>5 DEF PublisherInv

LEMMA InvNext == PublisherInv /\ [Next]_publisherVars => PublisherInv'
<1> SUFFICES ASSUME PublisherInv, [Next]_publisherVars PROVE PublisherInv'
  OBVIOUS
<1>1. TypeOK'
  BY TypeNext DEF PublisherInv
<1>2. CASE MainStep
  BY <1>1, <1>2, MutexMain, RingMain, CurrentMain, FramesMain, SentMain DEF PublisherInv
<1>3. ASSUME NEW c \in Client, ThreadStep(c) \/ ClientStep(c) PROVE PublisherInv'
  BY <1>1, <1>3, InvThread, InvClient DEF PublisherInv
<1>4. CASE UNCHANGED publisherVars
  <2> USE <1>4 DEF PublisherInv, publisherVars
  <2>1. MutexInv'
    BY DEF MutexInv, Holding
  <2>2. RingInv'
    BY DEF RingInv, Phase, Pending
  <2>3. CurrentInv' /\ SentIsLogged'
    BY DEF CurrentInv, SentIsLogged, Published
  <2>4. FramesInv'
    BY DEF FramesInv
  <2> QED
    BY <1>1, <2>1, <2>2, <2>3, <2>4
<1> QED
  BY <1>2, <1>3, <1>4 DEF Next, Exited

(* The inductive invariant holds of every behaviour of the publisher.       *)
THEOREM PublisherInvariant == Spec => []PublisherInv
<1> QED
  BY InvInit, InvNext, PTL DEF Spec

(* Whoever could take ring_mutex finds in every ring exactly the last       *)
(* ring_size messages, complete and under their numbers                     *)
(* (feedpublisher.h, publish(), finish() and serve_one_client()).           *)
THEOREM WindowTheorem == Spec => []RingIsTheWindow
<1>1. PublisherInv => RingIsTheWindow
  <2> SUFFICES ASSUME PublisherInv, mutex # Main, NEW b \in Bucket,
                      NEW s \in 0..Published(b)
               PROVE  LET slot == ring[b][s % RingSize] IN
                        IF s >= 1 /\ s > Published(b) - RingSize
                        THEN slot.used /\ slot.sequence = s /\ slot.msg = log[b][s]
                        ELSE ~(slot.used /\ slot.sequence = s)
    BY DEF RingIsTheWindow
  <2>0. TypeOK
    BY DEF PublisherInv
  <2>1. ring[b] \in SlotsOf /\ nextSequence[b] \in Nat \ {0} /\ log[b] \in Seq(Payload)
    BY <2>0, BucketType
  <2>2. Published(b) = Len(log[b]) /\ Len(log[b]) \in Nat /\ s \in 0..Len(log[b])
    BY <2>1, LenProperties DEF Published
  <2>3. Phase(b) = "settled"
    BY DEF PublisherInv, MutexInv, Holding, Phase
  <2>4. Good(ring[b], nextSequence[b], log[b], "settled", Pending)
    BY <2>3 DEF PublisherInv, RingInv
  <2>5. Window(ring[b], Len(log[b]))
    <3>1. nextSequence[b] - 1 = Len(log[b])
      BY <2>1, <2>2, <2>4 DEF Good
    <3> QED
      BY <2>4, <3>1 DEF Good
  <2>6. PICK i \in 0..(RingSize - 1) : i = s % RingSize
    <3>1. s \in Nat
      BY <2>2
    <3> QED
      BY <3>1, Constants
  <2>7. (ring[b][i].used /\ ring[b][i].sequence = s)
          <=> (s >= 1 /\ s > Len(log[b]) - RingSize)
    BY <2>1, <2>2, <2>5, <2>6, WindowHolds
  <2>8. ring[b][i].used => ring[b][i].msg = log[b][ring[b][i].sequence]
    BY <2>1, <2>4, SettledRing
  <2> QED
    BY <2>2, <2>6, <2>7, <2>8
<1> QED
  BY <1>1, PublisherInvariant, PTL

(* No answer is torn, however the publisher and the repair threads          *)
(* interleave: a frame with a message carries the message published under   *)
(* the sequence it names.                                                   *)
THEOREM AnswersTheorem == Spec => []AnswersAreTrue
<1>1. PublisherInv => AnswersAreTrue
  BY DEF PublisherInv, FramesInv, TrueQueue, TrueFrame, AnswersAreTrue, Published
<1> QED
  BY <1>1, PublisherInvariant, PTL

(* The multicast and the repair answers come from one log: a datagram names  *)
(* the sequence its message was published under.                            *)
THEOREM SentTheorem == Spec => []SentIsLogged
<1>1. PublisherInv => SentIsLogged
  BY DEF PublisherInv
<1> QED
  BY <1>1, PublisherInvariant, PTL
=============================================================================
