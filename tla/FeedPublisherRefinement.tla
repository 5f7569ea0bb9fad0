----------------------- MODULE FeedPublisherRefinement -----------------------
(***************************************************************************)
(* The locked rings of FeedPublisher implement the atomic RetransmitService *)
(* for every number of buckets and connections and every ring size: a       *)
(* batch of repair requests is answered as if at one instant, although its  *)
(* thread looks the sequences up one after the other.                       *)
(***************************************************************************)
EXTENDS FeedPublisherProofs

-----------------------------------------------------------------------------
(* What is added to the invariant of FeedPublisherProofs.                   *)

Held(b, s) == s >= 1 /\ s <= Published(b) /\ s > Published(b) - RingSize

(* The frames of a batch in progress are those the service would give now:  *)
(* the log cannot move while the thread holds the mutex.                    *)
AnswersSoFar(c) ==
  /\ Len(response[c]) <= Len(request[c].sequences)
  /\ \A i \in 1..Len(response[c]) :
       /\ response[c][i].bucket = request[c].bucket
       /\ response[c][i].sequence = request[c].sequences[i]
       /\ response[c][i].inRing <=> Held(request[c].bucket, request[c].sequences[i])

ConnectionGood(c) ==
  /\ link[c] # "open" => inbox[c] = <<>>
  /\ link[c] = "none" => outbox[c] = <<>>
  /\ step[c] \in {"idle", "read", "lock"} => response[c] = <<>>
  /\ step[c] \in {"lock", "answer"} => request[c] # Malformed
  /\ step[c] = "answer" => AnswersSoFar(c)

RepairInv == \A c \in Client : ConnectionGood(c)

(* The message being published is one the bound allows.                     *)
RoomInv == pc \in {"stamp", "fill", "unlock"} => Published(current.bucket) < MaxPublished

RefinementInv == PublisherInv /\ RepairInv /\ RoomInv

LEMMA RefinementInit == Init => RefinementInv
<1> SUFFICES ASSUME Init PROVE RefinementInv
  OBVIOUS
<1>1. PublisherInv
  BY InvInit
<1>2. RepairInv
  BY DEF Init, RepairInv, ConnectionGood
<1>3. RoomInv
  BY DEF Init, RoomInv
<1> QED
  BY <1>1, <1>2, <1>3 DEF RefinementInv

(* A connection no step touched stays good, and so does one that is being   *)
(* answered as long as nothing is published.                                *)
LEMMA ConnectionKept ==
  ASSUME NEW c \in Client, ConnectionGood(c),
         UNCHANGED <<link[c], inbox[c], outbox[c], step[c], request[c], response[c]>>,
         step[c] = "answer" => log' = log
  PROVE  ConnectionGood(c)'
<1>1. step[c] = "answer" => AnswersSoFar(c)'
  BY DEF ConnectionGood, AnswersSoFar, Held, Published
<1> QED
  BY <1>1 DEF ConnectionGood

LEMMA RepairMain ==
  ASSUME RefinementInv, MainStep
  PROVE  RepairInv'
<1> SUFFICES ASSUME NEW c \in Client PROVE ConnectionGood(c)'
  BY DEF RepairInv
<1>1. ConnectionGood(c) /\ TypeOK /\ MutexInv
  BY DEF RefinementInv, RepairInv, PublisherInv
<1>2. CASE Exit
  <2>1. /\ inbox'[c] = <<>> /\ step'[c] = "idle" /\ response'[c] = <<>>
        /\ link'[c] = IF link[c] = "open" THEN "lost" ELSE link[c]
        /\ outbox'[c] \in Prefixes(outbox[c])
    BY <1>2 DEF Exit
  <2>2. link'[c] = "none" => outbox'[c] = <<>>
    <3>1. ASSUME link'[c] = "none" PROVE outbox[c] = <<>>
      BY <1>1, <2>1, <3>1 DEF ConnectionGood
    <3>2. ASSUME outbox[c] = <<>> PROVE outbox'[c] = <<>>
      <4>1. outbox[c] \in Seq(Frame)
        BY <1>1 DEF TypeOK
      <4>2. outbox'[c] \in Seq(Frame) /\ Len(outbox'[c]) <= Len(outbox[c])
        BY <2>1, <4>1, PrefixType
      <4> QED
        BY <3>2, <4>2, EmptySeq, LenProperties
    <3> QED
      BY <3>1, <3>2
  <2> QED
    BY <2>1, <2>2 DEF ConnectionGood
<1>3. CASE ~Exit
  <2>1. UNCHANGED <<link, inbox, outbox, step, request, response>>
    BY <1>3 DEF MainStep, PublishLock, PublishStamp, PublishFill, PublishUnlock, PublishSend,
       FinishLock, FinishStamp, FinishFill, FinishUnlock, Announce, socketVars, threadVars
  <2>2. ASSUME step[c] = "answer" PROVE log' = log
    <3>1. ~Holding
      BY <1>1, <2>2, Constants DEF MutexInv
    <3> QED
      BY <1>3, <3>1 DEF MainStep, Holding, PublishLock, PublishStamp, PublishFill,
         PublishUnlock, PublishSend, FinishLock, FinishStamp, FinishFill, FinishUnlock, Announce
  <2> QED
    BY <1>1, <2>1, <2>2, ConnectionKept
<1> QED
  BY <1>2, <1>3

LEMMA RoomKept ==
  ASSUME RefinementInv, [Next]_publisherVars
  PROVE  RoomInv'
<1> USE DEF RefinementInv, RoomInv
<1>1. CASE UNCHANGED <<pc, current, log>>
  BY <1>1 DEF Published
<1>2. CASE MainStep
  <2>1. ASSUME NEW b \in Bucket, NEW m \in Msg, PublishLock(b, m) PROVE RoomInv'
    BY <2>1 DEF PublishLock, Published
  <2>2. CASE PublishStamp \/ PublishFill
    BY <2>2 DEF PublishStamp, PublishFill, Published
  <2>3. CASE pc' \notin {"stamp", "fill", "unlock"}
    BY <2>3
  <2> QED
    BY <1>2, <2>1, <2>2, <2>3 DEF MainStep, PublishUnlock, PublishSend, FinishLock, FinishStamp,
       FinishFill, FinishUnlock, Announce, Exit
<1>3. ASSUME NEW c \in Client, ThreadStep(c) \/ ClientStep(c) PROVE UNCHANGED <<pc, current, log>>
  BY <1>3 DEF ThreadStep, ClientStep, ReadRequest, RejectRequest, LockRing, AnswerOne, UnlockRing,
     WriteResponse, WriteFails, Accept, ClientTakes, ClientCloses, ClientAsks, mainVars
<1> QED
  BY <1>1, <1>2, <1>3 DEF Next, Exited, publisherVars

(* A slot carries a sequence exactly while the service holds it.            *)
LEMMA RingTellsHeld ==
  ASSUME TypeOK, MutexInv, RingInv, mutex # Main, NEW b \in Bucket, NEW s \in Sequence
  PROVE  (ring[b][s % RingSize].used /\ ring[b][s % RingSize].sequence = s) <=> Held(b, s)
<1>1. ring[b] \in SlotsOf /\ nextSequence[b] \in Nat \ {0} /\ log[b] \in Seq(Payload)
  BY BucketType
<1>2. Published(b) = Len(log[b]) /\ Len(log[b]) \in Nat
  BY <1>1, LenProperties DEF Published
<1>3. Phase(b) = "settled"
  BY DEF MutexInv, Holding, Phase
<1>4. Good(ring[b], nextSequence[b], log[b], "settled", Pending)
  BY <1>3 DEF RingInv
<1>5. Window(ring[b], Len(log[b]))
  <2>1. nextSequence[b] - 1 = Len(log[b])
    BY <1>1, <1>2, <1>4 DEF Good
  <2> QED
    BY <1>4, <2>1 DEF Good
<1>6. s \in Nat
  BY Constants
<1>7. PICK i \in 0..(RingSize - 1) : i = s % RingSize
  BY <1>6, Constants
<1>8. CASE s <= Len(log[b])
  <2>1. s \in 0..Len(log[b])
    BY <1>2, <1>6, <1>8
  <2>2. (ring[b][i].used /\ ring[b][i].sequence = s)
          <=> (s >= 1 /\ s > Len(log[b]) - RingSize)
    BY <1>1, <1>2, <1>5, <1>7, <2>1, WindowHolds
  <2> QED
    BY <1>2, <1>7, <1>8, <2>2 DEF Held
<1>9. CASE ~(s <= Len(log[b]))
  <2>1. ring[b][i].used => ring[b][i].sequence \in 1..Len(log[b])
    BY <1>1, <1>4, <1>7, SettledRing
  <2>2. ring[b][i].used => ring[b][i].sequence # s
    BY <1>2, <1>6, <1>9, <2>1
  <2> QED
    BY <1>2, <1>7, <1>9, <2>2 DEF Held
<1> QED
  BY <1>8, <1>9

(* One more sequence looked up: the ring says of it what the service would. *)
LEMMA AnswerGood ==
  ASSUME RefinementInv, NEW c \in Client, AnswerOne(c)
  PROVE  AnswersSoFar(c)'
<1>1. TypeOK /\ MutexInv /\ RingInv /\ AnswersSoFar(c) /\ mutex = c
  BY DEF RefinementInv, PublisherInv, RepairInv, ConnectionGood, AnswerOne, MutexInv
<1> DEFINE n == Len(response[c])
           b == request[c].bucket
           s == request[c].sequences[n + 1]
           slot == ring[b][s % RingSize]
           here == slot.used /\ slot.sequence = s
           f == [bucket |-> b, sequence |-> s, inRing |-> here,
                 msg |-> IF here THEN slot.msg ELSE Blank]
<1>2. response' = [response EXCEPT ![c] = Append(response[c], f)]
  BY DEF AnswerOne
<1>3. request' = request /\ log' = log
  BY DEF AnswerOne
<1>4. Answering(c)
  BY DEF AnswerOne
<1>5. b \in Bucket /\ s \in Sequence
  BY <1>1, <1>4, AskedFor
<1>6. here <=> Held(b, s)
  <2>1. mutex # Main
    BY <1>1, Constants
  <2>2. \A x \in Bucket : \A y \in Sequence :
          (ring[x][y % RingSize].used /\ ring[x][y % RingSize].sequence = y) <=> Held(x, y)
    BY <1>1, <2>1, RingTellsHeld
  <2> HIDE DEF b, s
  <2>3. (ring[b][s % RingSize].used /\ ring[b][s % RingSize].sequence = s) <=> Held(b, s)
    BY <1>5, <2>2
  <2> QED
    BY <2>3
<1>7. response[c] \in Seq(Frame) /\ n \in Nat
  BY <1>1, LenProperties DEF TypeOK
<1>8. /\ f.bucket = b /\ f.sequence = s /\ (f.inRing <=> here)
  OBVIOUS
<1>9. n < Len(request[c].sequences)
  BY <1>4 DEF Answering
<1> HIDE DEF here, slot, f
<1>10. request[c].sequences \in Seq(Sequence) /\ Len(request[c].sequences) \in Nat
  <2>1. request[c] \in Request /\ request[c] # Malformed
    BY <1>1, <1>7, <1>9, MalformedType DEF TypeOK
  <2>2. request[c].sequences \in Seq(Sequence)
    BY <2>1, RequestType
  <2> QED
    BY <2>2, LenProperties
<1> DEFINE q == Append(response[c], f)
<1>11. response'[c] = q
  BY <1>1, <1>2 DEF TypeOK
<1>12. /\ Len(q) = n + 1 /\ q[n + 1] = f
       /\ \A i \in 1..n : q[i] = response[c][i]
  <2>1. response[c] \in Seq(Frame \cup {f}) /\ f \in Frame \cup {f}
    BY <1>7, SeqMonotonic
  <2> QED
    BY <2>1, AppendProperties
<1> HIDE DEF q
<1>13. \A i \in 1..(n + 1) :
         /\ q[i].bucket = b
         /\ q[i].sequence = request[c].sequences[i]
         /\ q[i].inRing <=> Held(b, request[c].sequences[i])
  <2> SUFFICES ASSUME NEW i \in 1..(n + 1)
               PROVE  /\ q[i].bucket = b
                      /\ q[i].sequence = request[c].sequences[i]
                      /\ q[i].inRing <=> Held(b, request[c].sequences[i])
    OBVIOUS
  <2>1. CASE i = n + 1
    <3>1. q[i] = f
      BY <1>12, <2>1
    <3>2. request[c].sequences[i] = s
      BY <2>1
    <3> QED
      BY <1>6, <1>8, <3>1, <3>2
  <2>2. CASE i \in 1..n
    BY <1>1, <1>12, <2>2 DEF AnswersSoFar
  <2> QED
    BY <1>7, <2>1, <2>2
<1>14. n + 1 <= Len(request[c].sequences)
  BY <1>7, <1>9, <1>10
<1>15. \A x, y : Held(x, y)' <=> Held(x, y)
  BY <1>3 DEF Held, Published
<1> QED
  BY <1>3, <1>11, <1>12, <1>13, <1>14, <1>15 DEF AnswersSoFar

LEMMA EmptyPrefix == ASSUME NEW q \in Prefixes(<<>>) PROVE q = <<>>
<1>1. <<>> \in Seq(Frame) /\ Len(<<>>) = 0
  OBVIOUS
<1>2. q \in Seq(Frame) /\ Len(q) <= 0
  BY <1>1, PrefixType
<1> QED
  BY <1>2, EmptySeq, LenProperties

(* Leaving the socket to itself: nothing is asked or answered any more.     *)
LEMMA ClosedGood ==
  ASSUME TypeOK, NEW c \in Client, ConnectionGood(c), CloseSocket(c),
         response'[c] = <<>>, outbox[c] = <<>> => outbox'[c] = <<>>
  PROVE  ConnectionGood(c)'
<1>1. /\ link'[c] = IF link[c] = "open" THEN "lost" ELSE link[c]
      /\ inbox'[c] = <<>> /\ step'[c] = "idle"
  BY DEF CloseSocket, TypeOK
<1>2. link'[c] = "none" => outbox'[c] = <<>>
  BY <1>1 DEF ConnectionGood
<1> QED
  BY <1>1, <1>2 DEF ConnectionGood

LEMMA RepairThread ==
  ASSUME RefinementInv, NEW c \in Client, ThreadStep(c)
  PROVE  RepairInv'
<1> USE DEF mainVars, ringVars, socketVars, threadVars
<1>1. TypeOK /\ \A e \in Client : ConnectionGood(e)
  BY DEF RefinementInv, RepairInv, PublisherInv
<1>2. log' = log
  BY DEF ThreadStep, ReadRequest, RejectRequest, LockRing, AnswerOne, UnlockRing,
         WriteResponse, WriteFails
<1>3. ASSUME NEW e \in Client, e # c PROVE ConnectionGood(e)'
  <2>1. UNCHANGED <<link[e], inbox[e], outbox[e], step[e], request[e], response[e]>>
    <3>1. CASE ReadRequest(c) \/ LockRing(c)
      BY <1>1, <1>3, <3>1 DEF ReadRequest, LockRing, TypeOK
    <3>2. CASE RejectRequest(c)
      BY <1>1, <1>3, <3>2 DEF RejectRequest, CloseSocket, TypeOK
    <3>3. CASE AnswerOne(c) \/ UnlockRing(c)
      BY <1>1, <1>3, <3>3 DEF AnswerOne, UnlockRing, TypeOK
    <3>4. CASE WriteResponse(c)
      BY <1>1, <1>3, <3>4 DEF WriteResponse, TypeOK
    <3>5. CASE WriteFails(c)
      BY <1>1, <1>3, <3>5 DEF WriteFails, CloseSocket, TypeOK
    <3> QED
      BY <3>1, <3>2, <3>3, <3>4, <3>5 DEF ThreadStep
  <2> QED
    BY <1>1, <1>2, <2>1, ConnectionKept
<1>4. ConnectionGood(c)'
  <2>0. ConnectionGood(c)
    BY <1>1
  <2>1. CASE ReadRequest(c)
    <3>1. /\ UNCHANGED <<link, outbox, response>>
          /\ inbox[c] # <<>> /\ Head(inbox[c]) # Malformed /\ step[c] = "read"
      BY <2>1 DEF ReadRequest
    <3>2. step'[c] = "lock" /\ request'[c] = Head(inbox[c])
      BY <1>1, <2>1 DEF ReadRequest, TypeOK
    <3> QED
      BY <2>0, <3>1, <3>2 DEF ConnectionGood
  <2>2. CASE RejectRequest(c)
    <3>1. response'[c] = <<>> /\ CloseSocket(c)
      BY <2>0, <2>2 DEF RejectRequest, ConnectionGood
    <3>2. PICK q \in Prefixes(outbox[c]) : outbox' = [outbox EXCEPT ![c] = q]
      BY <2>2 DEF RejectRequest
    <3>3. outbox[c] = <<>> => outbox'[c] = <<>>
      BY <1>1, <3>2, EmptyPrefix DEF TypeOK
    <3> QED
      BY <1>1, <2>0, <3>1, <3>3, ClosedGood
  <2>3. CASE LockRing(c)
    <3>1. /\ UNCHANGED <<link, inbox, outbox, request, response>>
          /\ step[c] = "lock" /\ step'[c] = "answer"
      BY <1>1, <2>3 DEF LockRing, TypeOK
    <3>2. response[c] = <<>> /\ request[c] # Malformed
      BY <2>0, <3>1 DEF ConnectionGood
    <3>3. Len(response'[c]) = 0 /\ Len(request'[c].sequences) \in Nat
      <4>1. request[c].sequences \in Seq(Sequence)
        BY <1>1, <3>2, RequestType DEF TypeOK
      <4> QED
        BY <3>1, <3>2, <4>1, LenProperties
    <3>4. AnswersSoFar(c)'
      BY <3>3 DEF AnswersSoFar
    <3> QED
      BY <2>0, <3>1, <3>2, <3>4 DEF ConnectionGood
  <2>4. CASE AnswerOne(c)
    <3>1. /\ UNCHANGED <<link, inbox, outbox, step, request>> /\ step[c] = "answer"
      BY <2>4 DEF AnswerOne
    <3>2. AnswersSoFar(c)'
      BY <2>4, AnswerGood
    <3> QED
      BY <2>0, <3>1, <3>2 DEF ConnectionGood
  <2>5. CASE UnlockRing(c)
    <3>1. UNCHANGED <<link, inbox, outbox>> /\ step'[c] = "write"
      BY <1>1, <2>5 DEF UnlockRing, TypeOK
    <3> QED
      BY <2>0, <3>1 DEF ConnectionGood
  <2>6. CASE WriteResponse(c)
    <3>1. /\ UNCHANGED <<link, inbox>> /\ link[c] = "open"
          /\ step'[c] = "read" /\ response'[c] = <<>>
      BY <1>1, <2>6 DEF WriteResponse, TypeOK
    <3> QED
      BY <2>0, <3>1 DEF ConnectionGood
  <2>7. CASE WriteFails(c)
    <3>1. CloseSocket(c) /\ response'[c] = <<>>
      BY <1>1, <2>7 DEF WriteFails, TypeOK
    <3>2. CASE link[c] = "open"
      <4>1. link'[c] = "lost" /\ inbox'[c] = <<>> /\ step'[c] = "idle"
        BY <1>1, <3>1, <3>2 DEF CloseSocket, TypeOK
      <4> QED
        BY <3>1, <4>1 DEF ConnectionGood
    <3>3. CASE link[c] # "open"
      <4>1. outbox' = outbox
        BY <2>7, <3>3 DEF WriteFails
      <4> QED
        BY <1>1, <2>0, <3>1, <4>1, ClosedGood
    <3> QED
      BY <3>2, <3>3
  <2> QED
    BY <2>1, <2>2, <2>3, <2>4, <2>5, <2>6, <2>7 DEF ThreadStep
<1> QED
  BY <1>3, <1>4 DEF RepairInv

LEMMA RepairClient ==
  ASSUME RefinementInv, NEW c \in Client, ClientStep(c)
  PROVE  RepairInv'
<1> USE DEF mainVars, ringVars, socketVars, threadVars
<1>1. TypeOK /\ \A e \in Client : ConnectionGood(e)
  BY DEF RefinementInv, RepairInv, PublisherInv
<1>2. UNCHANGED <<log, request, response>>
  BY DEF ClientStep, Accept, ClientTakes, ClientCloses, ClientAsks
<1>3. ASSUME NEW e \in Client, e # c PROVE ConnectionGood(e)'
  <2>1. UNCHANGED <<link[e], inbox[e], outbox[e], step[e]>>
    BY <1>1, <1>3 DEF ClientStep, Accept, ClientTakes, ClientCloses, ClientAsks, TypeOK
  <2> QED
    BY <1>1, <1>2, <2>1, ConnectionKept
<1>4. ConnectionGood(c)'
  <2>1. AnswersSoFar(c) => AnswersSoFar(c)'
    BY <1>2 DEF AnswersSoFar, Held, Published
  <2>2. CASE Accept(c)
    <3>1. /\ UNCHANGED <<inbox, outbox>> /\ link'[c] = "open" /\ link[c] = "none"
          /\ step'[c] = "read" /\ step[c] = "idle"
      BY <1>1, <2>2 DEF Accept, TypeOK
    <3> QED
      BY <1>1, <1>2, <3>1 DEF ConnectionGood
  <2>3. ASSUME NEW r \in Request, ClientAsks(c, r) PROVE ConnectionGood(c)'
    <3>1. UNCHANGED <<link, outbox, step>> /\ link[c] = "open"
      BY <2>3 DEF ClientAsks
    <3> QED
      BY <1>1, <1>2, <2>1, <3>1 DEF ConnectionGood
  <2>4. CASE ClientTakes(c)
    <3>1. UNCHANGED <<link, inbox, step>> /\ outbox[c] # <<>>
      BY <2>4 DEF ClientTakes
    <3>2. link[c] # "none"
      BY <1>1, <3>1 DEF ConnectionGood
    <3> QED
      BY <1>1, <1>2, <2>1, <3>1, <3>2 DEF ConnectionGood
  <2>5. CASE ClientCloses(c)
    <3>1. /\ UNCHANGED step /\ link'[c] = "none" /\ inbox'[c] = <<>> /\ outbox'[c] = <<>>
      BY <1>1, <2>5 DEF ClientCloses, TypeOK
    <3> QED
      BY <1>1, <1>2, <2>1, <3>1 DEF ConnectionGood
  <2> QED
    BY <2>2, <2>3, <2>4, <2>5 DEF ClientStep
<1> QED
  BY <1>3, <1>4 DEF RepairInv

LEMMA RefinementNext == RefinementInv /\ [Next]_publisherVars => RefinementInv'
<1> SUFFICES ASSUME RefinementInv, [Next]_publisherVars PROVE RefinementInv'
  OBVIOUS
<1>1. PublisherInv' /\ RoomInv'
  BY InvNext, RoomKept DEF RefinementInv
<1>2. RepairInv'
  <2>1. CASE UNCHANGED publisherVars
    <3> SUFFICES ASSUME NEW c \in Client PROVE ConnectionGood(c)'
      BY DEF RepairInv
    <3>1. /\ UNCHANGED <<link[c], inbox[c], outbox[c], step[c], request[c], response[c]>>
          /\ log' = log
      BY <2>1 DEF publisherVars
    <3> QED
      BY <3>1, ConnectionKept DEF RefinementInv, RepairInv
  <2> QED
    BY <2>1, RepairMain, RepairThread, RepairClient DEF Next, Exited
<1> QED
  BY <1>1, <1>2 DEF RefinementInv

-----------------------------------------------------------------------------
(* Queues of frames, with and without their payloads.                       *)

(* What the frames of the service say of frames with payloads.              *)
Brief == [bucket : Bucket, sequence : Sequence, inRing : BOOLEAN]

LEMMA AnswersType ==
  ASSUME NEW q \in Seq(Frame)
  PROVE  /\ Answers(q) \in Seq(Brief) /\ Len(Answers(q)) = Len(q)
         /\ \A i \in 1..Len(q) :
              Answers(q)[i] = [bucket |-> q[i].bucket, sequence |-> q[i].sequence,
                               inRing |-> q[i].inRing]
<1> DEFINE brief(i) == [bucket |-> q[i].bucket, sequence |-> q[i].sequence,
                        inRing |-> q[i].inRing]
<1>1. PICK n \in Nat : n = Len(q)
  BY LenProperties
<1>2. DOMAIN q = 1..n /\ \A i \in 1..n : q[i] \in Frame
  BY <1>1, LenProperties, ElementOfSeq
<1>3. \A i \in 1..n : brief(i) \in Brief
  BY <1>2 DEF Frame, Brief
<1>4. Answers(q) = [i \in 1..n |-> brief(i)]
  BY <1>2 DEF Answers
<1> HIDE DEF brief
<1>5. Answers(q) \in [1..n -> Brief]
  BY <1>3, <1>4
<1>6. Answers(q) \in Seq(Brief)
  BY <1>5, SeqDef
<1>7. Len(Answers(q)) = n
  BY <1>5, <1>6, LenProperties
<1>8. \A i \in 1..n : Answers(q)[i] = brief(i)
  BY <1>4
<1> QED
  BY <1>1, <1>6, <1>7, <1>8 DEF brief

LEMMA AnswersEmpty == Answers(<<>>) = <<>>
BY DEF Answers

LEMMA AnswersConcat ==
  ASSUME NEW p \in Seq(Frame), NEW q \in Seq(Frame)
  PROVE  /\ p \o q \in Seq(Frame)
         /\ Answers(p \o q) = Answers(p) \o Answers(q)
<1>1. PICK m \in Nat, n \in Nat : m = Len(p) /\ n = Len(q)
  BY LenProperties
<1>2. /\ p \o q \in Seq(Frame) /\ Len(p \o q) = m + n
      /\ \A i \in 1..(m + n) : (p \o q)[i] = IF i <= m THEN p[i] ELSE q[i - m]
  BY <1>1, ConcatProperties
<1>3. /\ Answers(p) \in Seq(Brief) /\ Len(Answers(p)) = m
      /\ Answers(q) \in Seq(Brief) /\ Len(Answers(q)) = n
      /\ Answers(p \o q) \in Seq(Brief) /\ Len(Answers(p \o q)) = m + n
  BY <1>1, <1>2, AnswersType
<1>4. /\ Answers(p) \o Answers(q) \in Seq(Brief) /\ Len(Answers(p) \o Answers(q)) = m + n
      /\ \A i \in 1..(m + n) :
           (Answers(p) \o Answers(q))[i] = IF i <= m THEN Answers(p)[i] ELSE Answers(q)[i - m]
  BY <1>3, ConcatProperties
<1>5. ASSUME NEW i \in 1..(m + n)
      PROVE  Answers(p \o q)[i] = (Answers(p) \o Answers(q))[i]
  <2>1. Answers(p \o q)[i] = [bucket |-> (p \o q)[i].bucket, sequence |-> (p \o q)[i].sequence,
                              inRing |-> (p \o q)[i].inRing]
    BY <1>2, AnswersType
  <2>2. CASE i <= m
    <3>1. i \in 1..Len(p)
      BY <1>1, <2>2
    <3>2. Answers(p)[i] = [bucket |-> p[i].bucket, sequence |-> p[i].sequence,
                           inRing |-> p[i].inRing]
      BY <3>1, AnswersType
    <3>3. (p \o q)[i] = p[i] /\ (Answers(p) \o Answers(q))[i] = Answers(p)[i]
      BY <1>2, <1>4, <2>2
    <3> QED
      BY <2>1, <3>2, <3>3
  <2>3. CASE ~(i <= m)
    <3>1. i - m \in 1..Len(q)
      BY <1>1, <2>3
    <3>2. Answers(q)[i - m] = [bucket |-> q[i - m].bucket, sequence |-> q[i - m].sequence,
                               inRing |-> q[i - m].inRing]
      BY <3>1, AnswersType
    <3>3. (p \o q)[i] = q[i - m] /\ (Answers(p) \o Answers(q))[i] = Answers(q)[i - m]
      BY <1>2, <1>4, <2>3
    <3> QED
      BY <2>1, <3>2, <3>3
  <2> QED
    BY <2>2, <2>3
<1> QED
  BY <1>2, <1>3, <1>4, <1>5, SeqEqual

(* A prefix of the frames is a prefix of what they say.                     *)
LEMMA AnswersPrefix ==
  ASSUME NEW q \in Seq(Frame), NEW p \in Prefixes(q)
  PROVE  Answers(p) \in Prefixes(Answers(q))
<1>1. PICK n \in 0..Len(q) : p = SubSeq(q, 1, n)
  BY DEF Prefixes
<1>2. n \in Nat /\ n <= Len(q) /\ Len(q) \in Nat
  BY <1>1, LenProperties
<1>3. \A i \in 1..n : q[i] \in Frame
  BY <1>2, ElementOfSeq
<1>4. p \in Seq(Frame) /\ Len(p) = n /\ \A i \in 1..n : p[i] = q[i]
  BY <1>1, <1>2, <1>3, SubSeqProperties
<1>5. Answers(q) \in Seq(Brief) /\ Len(Answers(q)) = Len(q)
      /\ Answers(p) \in Seq(Brief) /\ Len(Answers(p)) = n
  BY <1>4, AnswersType
<1> DEFINE t == SubSeq(Answers(q), 1, n)
<1>6. \A i \in 1..n : Answers(q)[i] \in Brief
  BY <1>2, <1>5, ElementOfSeq
<1>7. t \in Seq(Brief) /\ Len(t) = n /\ \A i \in 1..n : t[i] = Answers(q)[i]
  BY <1>2, <1>6, SubSeqProperties
<1>8. t \in Prefixes(Answers(q))
  BY <1>2, <1>5 DEF Prefixes
<1> HIDE DEF t
<1>9. ASSUME NEW i \in 1..n PROVE Answers(p)[i] = t[i]
  <2>1. i \in 1..Len(p) /\ i \in 1..Len(q)
    BY <1>2, <1>4
  <2>2. Answers(p)[i] = [bucket |-> p[i].bucket, sequence |-> p[i].sequence,
                         inRing |-> p[i].inRing]
    BY <1>4, <2>1, AnswersType
  <2>3. Answers(q)[i] = [bucket |-> q[i].bucket, sequence |-> q[i].sequence,
                         inRing |-> q[i].inRing]
    BY <2>1, AnswersType
  <2> QED
    BY <1>4, <1>7, <2>2, <2>3
<1>10. Answers(p) = t
  BY <1>2, <1>5, <1>7, <1>9, SeqEqual
<1> QED
  BY <1>8, <1>10

(* What joining two queues does to the front of the first.                  *)
LEMMA FrontOfJoined ==
  ASSUME NEW X, NEW p \in Seq(X), NEW q \in Seq(X), p # <<>>
  PROVE  p \o q # <<>> /\ Tail(p \o q) = Tail(p) \o q /\ Head(p \o q) = Head(p)
<1>1. PICK m \in Nat, n \in Nat : m = Len(p) /\ n = Len(q)
  BY LenProperties
<1>2. m >= 1
  BY <1>1, EmptySeq
<1>3. /\ p \o q \in Seq(X) /\ Len(p \o q) = m + n
      /\ \A i \in 1..(m + n) : (p \o q)[i] = IF i <= m THEN p[i] ELSE q[i - m]
  BY <1>1, ConcatProperties
<1>4. p \o q # <<>>
  BY <1>2, <1>3, EmptySeq
<1>5. /\ Tail(p) \in Seq(X) /\ Len(Tail(p)) = m - 1
      /\ \A i \in 1..(m - 1) : Tail(p)[i] = p[i + 1]
  BY <1>1, HeadTailProperties
<1>6. /\ Tail(p \o q) \in Seq(X) /\ Len(Tail(p \o q)) = m + n - 1
      /\ \A i \in 1..(m + n - 1) : Tail(p \o q)[i] = (p \o q)[i + 1]
  BY <1>3, <1>4, HeadTailProperties
<1>7. /\ Tail(p) \o q \in Seq(X) /\ Len(Tail(p) \o q) = m - 1 + n
      /\ \A i \in 1..(m - 1 + n) :
           (Tail(p) \o q)[i] = IF i <= m - 1 THEN Tail(p)[i] ELSE q[i - (m - 1)]
  BY <1>1, <1>5, ConcatProperties
<1>8. ASSUME NEW i \in 1..(m + n - 1) PROVE Tail(p \o q)[i] = (Tail(p) \o q)[i]
  <2>1. i + 1 \in 1..(m + n) /\ i \in 1..(m - 1 + n) /\ i \in Nat
    BY <1>2
  <2>2. CASE i <= m - 1
    <3>1. i \in 1..(m - 1) /\ i + 1 <= m
      BY <2>1, <2>2
    <3> QED
      BY <1>3, <1>5, <1>6, <1>7, <2>1, <3>1
  <2>3. CASE ~(i <= m - 1)
    <3>1. ~(i + 1 <= m) /\ (i + 1) - m = i - (m - 1)
      BY <2>1, <2>3
    <3>2. Tail(p \o q)[i] = q[(i + 1) - m]
      BY <1>3, <1>6, <2>1, <3>1
    <3>3. (Tail(p) \o q)[i] = q[i - (m - 1)]
      BY <1>7, <2>1, <2>3
    <3> QED
      BY <3>1, <3>2, <3>3
  <2> QED
    BY <2>2, <2>3
<1>9. Tail(p \o q) = Tail(p) \o q
  <2>1. m - 1 + n = m + n - 1
    OBVIOUS
  <2> QED
    BY <1>6, <1>7, <1>8, <2>1, SeqEqual
<1>10. Head(p \o q) = (p \o q)[1] /\ Head(p) = p[1]
  OBVIOUS
<1>11. (p \o q)[1] = p[1]
  BY <1>2, <1>3
<1> QED
  BY <1>4, <1>9, <1>10, <1>11

LEMMA OneAhead ==
  ASSUME NEW X, NEW x \in X, NEW q \in Seq(X)
  PROVE  /\ <<x>> \o q \in Seq(X) /\ <<x>> \o q # <<>>
         /\ Len(<<x>> \o q) = Len(q) + 1
         /\ Head(<<x>> \o q) = x /\ Tail(<<x>> \o q) = q
<1>1. <<x>> \in Seq(X) /\ <<x>> # <<>> /\ Len(<<x>>) = 1 /\ Head(<<x>>) = x /\ Tail(<<x>>) = <<>>
  OBVIOUS
<1>2. /\ <<x>> \o q # <<>> /\ Tail(<<x>> \o q) = Tail(<<x>>) \o q
      /\ Head(<<x>> \o q) = Head(<<x>>)
  BY <1>1, FrontOfJoined
<1>3. <<x>> \o q \in Seq(X) /\ Len(<<x>> \o q) = 1 + Len(q) /\ Len(q) \in Nat
  BY <1>1, ConcatProperties, LenProperties
<1>4. <<>> \o q = q
  BY ConcatEmptySeq
<1> QED
  BY <1>1, <1>2, <1>3, <1>4

LEMMA AnswersTail ==
  ASSUME NEW q \in Seq(Frame), q # <<>>
  PROVE  Answers(q) # <<>> /\ Tail(Answers(q)) = Answers(Tail(q))
<1>1. PICK n \in Nat : n = Len(q)
  BY LenProperties
<1>2. n >= 1
  BY <1>1, EmptySeq
<1>3. /\ Tail(q) \in Seq(Frame) /\ Len(Tail(q)) = n - 1
      /\ \A i \in 1..(n - 1) : Tail(q)[i] = q[i + 1]
  BY <1>1, HeadTailProperties
<1>4. Answers(q) \in Seq(Brief) /\ Len(Answers(q)) = n
      /\ Answers(Tail(q)) \in Seq(Brief) /\ Len(Answers(Tail(q))) = n - 1
  BY <1>1, <1>3, AnswersType
<1>5. Answers(q) # <<>>
  BY <1>2, <1>4, EmptySeq
<1>6. /\ Tail(Answers(q)) \in Seq(Brief) /\ Len(Tail(Answers(q))) = n - 1
      /\ \A i \in 1..(n - 1) : Tail(Answers(q))[i] = Answers(q)[i + 1]
  BY <1>4, <1>5, HeadTailProperties
<1>7. ASSUME NEW i \in 1..(n - 1) PROVE Tail(Answers(q))[i] = Answers(Tail(q))[i]
  <2>1. i + 1 \in 1..Len(q) /\ i \in 1..Len(Tail(q))
    BY <1>1, <1>3
  <2>2. Answers(q)[i + 1] = [bucket |-> q[i + 1].bucket, sequence |-> q[i + 1].sequence,
                             inRing |-> q[i + 1].inRing]
    BY <2>1, AnswersType
  <2>3. Answers(Tail(q))[i] = [bucket |-> Tail(q)[i].bucket, sequence |-> Tail(q)[i].sequence,
                               inRing |-> Tail(q)[i].inRing]
    BY <1>3, <2>1, AnswersType
  <2> QED
    BY <1>3, <1>6, <2>2, <2>3
<1>8. Tail(Answers(q)) = Answers(Tail(q))
  BY <1>2, <1>4, <1>6, <1>7, SeqEqual
<1> QED
  BY <1>5, <1>8

-----------------------------------------------------------------------------
(* What the service's variables stand for.                                  *)
Asked(c) ==
  IF link[c] # "open" THEN <<>>
  ELSE IF step[c] \in {"lock", "answer"} THEN <<request[c]>> \o inbox[c] ELSE inbox[c]

Unread(c) ==
  IF link[c] = "open" /\ step[c] = "write" THEN Answers(outbox[c] \o response[c])
  ELSE Answers(outbox[c])

counts == [b \in Bucket |-> Published(b)]
ended == pc \in {"announce", "done", "exited"}
asked == [c \in Client |-> Asked(c)]
unread == [c \in Client |-> Unread(c)]

(* The actions of the service, said of those.                               *)
LEMMA AsPublish ==
  ASSUME NEW b \in Bucket, Alive, ~ended, counts[b] < MaxPublished,
         counts' = [counts EXCEPT ![b] = counts[b] + 1],
         UNCHANGED <<ended, Alive, link, asked, unread>>
  PROVE  Service!Next
<1>1. Service!Publish(b)
  BY DEF Service!Publish, counts, ended, asked, unread, Asked, Unread
<1> QED
  BY <1>1 DEF Service!Next

LEMMA AsFinish ==
  ASSUME Alive, ~ended,
         counts' = [b \in Bucket |-> counts[b] + 1], ended',
         UNCHANGED <<Alive, link, asked, unread>>
  PROVE  Service!Next
<1>1. Service!Finish
  BY DEF Service!Finish, counts, ended, asked, unread, Asked, Unread
<1> QED
  BY <1>1 DEF Service!Next

LEMMA AsExit ==
  ASSUME Alive, ended, ~Alive',
         link' = [c \in Client |-> IF link[c] = "open" THEN "lost" ELSE link[c]],
         asked' = [c \in Client |-> <<>>],
         \A c \in Client : unread'[c] \in Prefixes(unread[c]),
         UNCHANGED <<counts, ended>>
  PROVE  Service!Next
<1>1. \A q : Service!Prefixes(q) = Prefixes(q)
  BY DEF Service!Prefixes, Prefixes
<1>2. unread' \in [Client -> UNION {Prefixes(unread[c]) : c \in Client}]
  BY DEF unread
<1>3. Service!Exit
  BY <1>1, <1>2 DEF Service!Exit, counts, ended, asked, unread, Asked, Unread
<1> QED
  BY <1>3 DEF Service!Next

LEMMA AsConnect ==
  ASSUME NEW c \in Client, Alive, link[c] = "none", link' = [link EXCEPT ![c] = "open"],
         UNCHANGED <<counts, ended, Alive, asked, unread>>
  PROVE  Service!Next
<1>1. Service!Connect(c)
  BY DEF Service!Connect, counts, ended, asked, unread, Asked, Unread
<1> QED
  BY <1>1 DEF Service!Next

LEMMA AsAsk ==
  ASSUME NEW c \in Client, NEW r \in Request, link[c] = "open", Len(asked[c]) < MaxPipelined,
         asked' = [asked EXCEPT ![c] = Append(asked[c], r)],
         UNCHANGED <<counts, ended, Alive, link, unread>>
  PROVE  Service!Next
<1>1. Service!Ask(c, r)
  BY DEF Service!Ask, counts, ended, asked, unread, Asked, Unread
<1>2. r \in Service!Request
  BY DEF Request, Service!Request, Batch, Service!Batch, Ascending, Service!Ascending,
         Malformed, Service!Malformed
<1> QED
  BY <1>1, <1>2 DEF Service!Next

AnswerTo(r) ==
  [i \in 1..Len(r.sequences) |->
     [bucket |-> r.bucket, sequence |-> r.sequences[i],
      inRing |-> Held(r.bucket, r.sequences[i])]]

LEMMA AsServe ==
  ASSUME NEW c \in Client, Alive, link[c] = "open", asked[c] # <<>>,
         Head(asked[c]) # Malformed, Head(asked[c]).bucket \in Bucket,
         unread' = [unread EXCEPT ![c] = unread[c] \o AnswerTo(Head(asked[c]))],
         asked' = [asked EXCEPT ![c] = Tail(asked[c])],
         UNCHANGED <<counts, ended, Alive, link>>
  PROVE  Service!Next
<1>1. Service!Answer(Head(asked[c])) = AnswerTo(Head(asked[c]))
  BY DEF Service!Answer, AnswerTo, Service!InRing, Held
<1>2. Service!Serve(c)
  BY <1>1 DEF Service!Serve, Service!Malformed, Malformed, counts, ended, asked, unread, Asked,
              Unread
<1> QED
  BY <1>2 DEF Service!Next

LEMMA AsTake ==
  ASSUME NEW c \in Client, unread[c] # <<>>,
         unread' = [unread EXCEPT ![c] = Tail(unread[c])],
         UNCHANGED <<counts, ended, Alive, link, asked>>
  PROVE  Service!Next
<1>1. Service!Take(c)
  BY DEF Service!Take, counts, ended, asked, unread, Asked, Unread
<1> QED
  BY <1>1 DEF Service!Next

LEMMA AsHangUp ==
  ASSUME NEW c \in Client, link[c] = "open", link' = [link EXCEPT ![c] = "lost"],
         asked' = [asked EXCEPT ![c] = <<>>],
         NEW q \in Prefixes(unread[c]), unread' = [unread EXCEPT ![c] = q],
         UNCHANGED <<counts, ended, Alive>>
  PROVE  Service!Next
<1>1. \A p : Service!Prefixes(p) = Prefixes(p)
  BY DEF Service!Prefixes, Prefixes
<1>2. Service!HangUp(c)
  BY <1>1 DEF Service!HangUp, counts, ended, asked, unread, Asked, Unread
<1> QED
  BY <1>2 DEF Service!Next

LEMMA AsAbandon ==
  ASSUME NEW c \in Client, link[c] # "none", link' = [link EXCEPT ![c] = "none"],
         asked' = [asked EXCEPT ![c] = <<>>], unread' = [unread EXCEPT ![c] = <<>>],
         UNCHANGED <<counts, ended, Alive>>
  PROVE  Service!Next
<1>1. Service!Abandon(c)
  BY DEF Service!Abandon, counts, ended, asked, unread, Asked, Unread
<1> QED
  BY <1>1 DEF Service!Next

-----------------------------------------------------------------------------
(* How the steps of the threads move what the service sees.                 *)

LEMMA MappedType ==
  ASSUME TypeOK, NEW c \in Client
  PROVE  /\ asked[c] = Asked(c) /\ unread[c] = Unread(c)
         /\ Asked(c) \in Seq(Request) /\ Unread(c) \in Seq(Brief)
<1>1. inbox[c] \in Seq(Request) /\ request[c] \in Request
      /\ outbox[c] \in Seq(Frame) /\ response[c] \in Seq(Frame)
  BY DEF TypeOK
<1>2. <<request[c]>> \o inbox[c] \in Seq(Request)
  BY <1>1, OneAhead
<1>3. Asked(c) \in Seq(Request)
  BY <1>1, <1>2 DEF Asked
<1>4. Answers(outbox[c] \o response[c]) \in Seq(Brief) /\ Answers(outbox[c]) \in Seq(Brief)
  BY <1>1, AnswersConcat, AnswersType
<1> QED
  BY <1>3, <1>4 DEF asked, unread, Unread

(* A connection a step leaves alone looks the same to the service.          *)
LEMMA SameToService ==
  ASSUME NEW c, UNCHANGED <<link[c], inbox[c], outbox[c], step[c], request[c], response[c]>>
  PROVE  Asked(c)' = Asked(c) /\ Unread(c)' = Unread(c)
BY DEF Asked, Unread, Answers

LEMMA Stutters ==
  ASSUME UNCHANGED <<log, link>>, ended' = ended, Alive' = Alive,
         \A c \in Client : Asked(c)' = Asked(c) /\ Unread(c)' = Unread(c)
  PROVE  UNCHANGED Service!serviceVars
<1>1. asked' = asked /\ unread' = unread
  BY DEF asked, unread
<1>2. counts' = counts
  BY DEF counts, Published
<1> QED
  BY <1>1, <1>2 DEF Service!serviceVars, counts, ended, asked, unread, Asked, Unread

(* A step concerns one connection.                                          *)
Others(c) ==
  \A e \in Client \ {c} :
    UNCHANGED <<link[e], inbox[e], outbox[e], step[e], request[e], response[e]>>

LEMMA AskedMoves ==
  ASSUME NEW c \in Client, Others(c), NEW v, Asked(c)' = v
  PROVE  asked' = [asked EXCEPT ![c] = v]
<1>1. \A e \in Client : Asked(e)' = IF e = c THEN v ELSE Asked(e)
  BY SameToService DEF Others
<1> QED
  BY <1>1 DEF asked

LEMMA UnreadMoves ==
  ASSUME NEW c \in Client, Others(c), NEW v, Unread(c)' = v
  PROVE  unread' = [unread EXCEPT ![c] = v]
<1>1. \A e \in Client : Unread(e)' = IF e = c THEN v ELSE Unread(e)
  BY SameToService DEF Others
<1> QED
  BY <1>1 DEF unread

LEMMA SameQueues ==
  ASSUME NEW c \in Client, Others(c)
  PROVE  /\ Asked(c)' = Asked(c) => asked' = asked
         /\ Unread(c)' = Unread(c) => unread' = unread
<1>1. \A e \in Client \ {c} : Asked(e)' = Asked(e) /\ Unread(e)' = Unread(e)
  BY SameToService DEF Others
<1> QED
  BY <1>1 DEF asked, unread

LEMMA PrefixOfJoined ==
  ASSUME NEW p \in Seq(Frame), NEW q \in Seq(Frame), NEW t \in Prefixes(p)
  PROVE  t \in Prefixes(p \o q)
<1>1. PICK n \in 0..Len(p) : t = SubSeq(p, 1, n)
  BY DEF Prefixes
<1>2. Len(p) \in Nat /\ Len(q) \in Nat /\ Len(p \o q) = Len(p) + Len(q)
  BY LenProperties, ConcatProperties
<1>3. n \in 0..Len(p \o q)
  BY <1>1, <1>2
<1>4. SubSeq(p \o q, 1, n) = t
  <2>1. CASE n = 0
    BY <1>1, <2>1, SubSeqEmpty
  <2>2. CASE n # 0
    <3>1. 1 \in 1..Len(p) /\ n \in 1..Len(p)
      BY <1>1, <1>2, <2>2
    <3> QED
      BY <1>1, <3>1, SubSeqOfConcat1
  <2> QED
    BY <2>1, <2>2
<1> QED
  BY <1>3, <1>4 DEF Prefixes

(* Unless it publishes or exits the publishing thread is invisible to the   *)
(* service; a publication takes effect when it gives the mutex back.        *)
LEMMA MainRefines ==
  ASSUME RefinementInv, MainStep
  PROVE  Service!Next \/ UNCHANGED Service!serviceVars
<1>1. TypeOK /\ RoomInv /\ RepairInv
  BY DEF RefinementInv, PublisherInv
<1>2. ASSUME UNCHANGED <<link, inbox, outbox, step, request, response>>
      PROVE  asked' = asked /\ unread' = unread
  BY <1>2, SameToService DEF asked, unread
<1>3. CASE PublishUnlock
  <2> DEFINE b == current.bucket
  <2>1. b \in Bucket /\ log \in [Bucket -> Seq(Payload)] /\ current.msg \in Payload
    BY <1>1 DEF TypeOK
  <2>2. log' = [log EXCEPT ![b] = Append(log[b], current.msg)]
    BY <1>3 DEF PublishUnlock
  <2>3. Alive /\ Alive' = Alive /\ ~ended /\ ended' = ended
    BY <1>3 DEF PublishUnlock, Alive, ended
  <2>4. UNCHANGED <<link, asked, unread>>
    BY <1>2, <1>3 DEF PublishUnlock, socketVars, threadVars
  <2>5. counts[b] < MaxPublished
    BY <1>1, <1>3, <2>1 DEF PublishUnlock, RoomInv, counts
  <2> HIDE DEF b
  <2>6. counts' = [counts EXCEPT ![b] = counts[b] + 1]
    <3>1. Len(Append(log[b], current.msg)) = Len(log[b]) + 1
      BY <2>1, AppendProperties
    <3>2. \A a \in Bucket : Len(log'[a]) = IF a = b THEN Len(log[b]) + 1 ELSE Len(log[a])
      BY <2>1, <2>2, <3>1
    <3> QED
      BY <2>1, <3>2 DEF counts, Published
  <2> QED
    BY <2>1, <2>3, <2>4, <2>5, <2>6, AsPublish
<1>4. CASE FinishUnlock
  <2>1. Alive /\ Alive' = Alive /\ ~ended /\ ended'
    BY <1>4 DEF FinishUnlock, Alive, ended
  <2>2. UNCHANGED <<link, asked, unread>>
    BY <1>2, <1>4 DEF FinishUnlock, socketVars, threadVars
  <2>3. counts' = [b \in Bucket |-> counts[b] + 1]
    <3>1. \A b \in Bucket : Len(Append(log[b], EndMsg)) = Len(log[b]) + 1
      BY <1>1, Constants, AppendProperties DEF TypeOK
    <3>2. \A b \in Bucket : Len(log'[b]) = Len(log[b]) + 1
      BY <1>4, <3>1 DEF FinishUnlock
    <3> QED
      BY <3>2 DEF counts, Published
  <2> QED
    BY <2>1, <2>2, <2>3, AsFinish
<1>5. CASE Exit
  <2>1. Alive /\ ended /\ ~Alive' /\ ended' = ended
    BY <1>5 DEF Exit, Alive, ended
  <2>2. link' = [c \in Client |-> IF link[c] = "open" THEN "lost" ELSE link[c]]
    BY <1>5 DEF Exit
  <2>3. counts' = counts
    BY <1>5 DEF Exit, counts, Published
  <2>4. \A c \in Client : link'[c] # "open"
    BY <2>2
  <2>5. asked' = [c \in Client |-> <<>>]
    BY <2>4 DEF asked, Asked
  <2>6. ASSUME NEW c \in Client PROVE unread'[c] \in Prefixes(unread[c])
    <3>1. /\ unread'[c] = Answers(outbox'[c]) /\ unread[c] = Unread(c)
          /\ outbox'[c] \in Prefixes(outbox[c])
      BY <1>5, <2>4 DEF Exit, unread, Unread, Answers
    <3>2. outbox[c] \in Seq(Frame) /\ response[c] \in Seq(Frame)
      BY <1>1 DEF TypeOK
    <3>3. outbox'[c] \in Prefixes(outbox[c] \o response[c])
      BY <3>1, <3>2, PrefixOfJoined
    <3>4. outbox[c] \o response[c] \in Seq(Frame)
      BY <3>2, AnswersConcat
    <3> QED
      BY <3>1, <3>2, <3>3, <3>4, AnswersPrefix DEF Unread
  <2> QED
    BY <2>1, <2>2, <2>3, <2>5, <2>6, AsExit
<1>6. CASE ~PublishUnlock /\ ~FinishUnlock /\ ~Exit
  <2>1. UNCHANGED <<log, link, inbox, outbox, step, request, response>>
    BY <1>6 DEF MainStep, PublishLock, PublishStamp, PublishFill, PublishSend,
       FinishLock, FinishStamp, FinishFill, Announce, socketVars, threadVars
  <2>2. ended' = ended /\ Alive' = Alive
    BY <1>6 DEF MainStep, PublishLock, PublishStamp, PublishFill, PublishSend,
       FinishLock, FinishStamp, FinishFill, Announce, ended, Alive
  <2> QED
    BY <2>1, <2>2, SameToService, Stutters
<1> QED
  BY <1>3, <1>4, <1>5, <1>6

LEMMA ThreadLocal ==
  ASSUME TypeOK, NEW c \in Client, ThreadStep(c) \/ ClientStep(c)
  PROVE  Others(c) /\ log' = log /\ pc' = pc
<1> USE DEF mainVars, ringVars, socketVars, threadVars
<1>1. CASE ReadRequest(c) \/ LockRing(c)
  BY <1>1 DEF ReadRequest, LockRing, TypeOK, Others
<1>2. CASE RejectRequest(c)
  BY <1>2 DEF RejectRequest, CloseSocket, TypeOK, Others
<1>3. CASE AnswerOne(c) \/ UnlockRing(c)
  BY <1>3 DEF AnswerOne, UnlockRing, TypeOK, Others
<1>4. CASE WriteResponse(c)
  BY <1>4 DEF WriteResponse, TypeOK, Others
<1>5. CASE WriteFails(c)
  BY <1>5 DEF WriteFails, CloseSocket, TypeOK, Others
<1>6. CASE ClientStep(c)
  BY <1>6 DEF ClientStep, Accept, ClientTakes, ClientCloses, ClientAsks, TypeOK, Others
<1> QED
  BY <1>1, <1>2, <1>3, <1>4, <1>5, <1>6 DEF ThreadStep

LEMMA StuttersHere ==
  ASSUME NEW c \in Client, Others(c), UNCHANGED <<log, pc, link>>,
         Asked(c)' = Asked(c), Unread(c)' = Unread(c)
  PROVE  UNCHANGED Service!serviceVars
<1>1. \A e \in Client : Asked(e)' = Asked(e) /\ Unread(e)' = Unread(e)
  BY SameToService DEF Others
<1>2. ended' = ended /\ Alive' = Alive
  BY DEF ended, Alive
<1> QED
  BY <1>1, <1>2, Stutters

(* A socket closed under the client: the service hangs up.                  *)
LEMMA ClosesAsHangUp ==
  ASSUME TypeOK, NEW c \in Client, Others(c), UNCHANGED <<log, pc>>, Alive,
         link[c] = "open", CloseSocket(c),
         NEW q \in Seq(Frame), Unread(c) = Answers(q),
         NEW p \in Prefixes(q), outbox' = [outbox EXCEPT ![c] = p]
  PROVE  Service!Next
<1>1. link' = [link EXCEPT ![c] = "lost"] /\ link'[c] = "lost" /\ outbox'[c] = p
  BY DEF CloseSocket, TypeOK
<1>2. asked' = [asked EXCEPT ![c] = <<>>]
  <2>1. Asked(c)' = <<>>
    BY <1>1 DEF Asked
  <2> QED
    BY <2>1, AskedMoves
<1>3. unread' = [unread EXCEPT ![c] = Answers(p)]
  <2>1. Unread(c)' = Answers(p)
    BY <1>1 DEF Unread, Answers
  <2> QED
    BY <2>1, UnreadMoves
<1>4. Answers(p) \in Prefixes(unread[c])
  BY AnswersPrefix, MappedType
<1>5. counts' = counts /\ ended' = ended /\ Alive' = Alive
  BY DEF counts, Published, ended, Alive
<1> QED
  BY <1>1, <1>2, <1>3, <1>4, <1>5, AsHangUp

(* The frames of a finished batch are the answer of the service.            *)
LEMMA BatchAnswered ==
  ASSUME RefinementInv, NEW c \in Client, step[c] = "answer", ~Answering(c)
  PROVE  Answers(response[c]) = AnswerTo(request[c])
<1>1. TypeOK /\ AnswersSoFar(c) /\ request[c] # Malformed
  BY DEF RefinementInv, PublisherInv, RepairInv, ConnectionGood
<1>2. response[c] \in Seq(Frame) /\ request[c] \in Request
  BY <1>1 DEF TypeOK
<1>3. request[c].bucket \in Bucket /\ request[c].sequences \in Seq(Sequence)
  BY <1>1, <1>2, RequestType
<1>4. PICK n \in Nat : n = Len(request[c].sequences)
  BY <1>3, LenProperties
<1>5. Len(response[c]) = n
  BY <1>1, <1>2, <1>4, LenProperties DEF AnswersSoFar, Answering
<1>6. \A i \in 1..n : Answers(response[c])[i]
        = [bucket |-> request[c].bucket, sequence |-> request[c].sequences[i],
           inRing |-> Held(request[c].bucket, request[c].sequences[i])]
  <2> SUFFICES ASSUME NEW i \in 1..n
               PROVE  Answers(response[c])[i]
                        = [bucket |-> request[c].bucket, sequence |-> request[c].sequences[i],
                           inRing |-> Held(request[c].bucket, request[c].sequences[i])]
    OBVIOUS
  <2>1. Answers(response[c])[i]
          = [bucket |-> response[c][i].bucket, sequence |-> response[c][i].sequence,
             inRing |-> response[c][i].inRing]
    BY <1>2, <1>5, AnswersType
  <2>2. /\ response[c][i].bucket = request[c].bucket
        /\ response[c][i].sequence = request[c].sequences[i]
        /\ response[c][i].inRing <=> Held(request[c].bucket, request[c].sequences[i])
    BY <1>1, <1>5 DEF AnswersSoFar
  <2>3. response[c][i].inRing \in BOOLEAN
    <3>1. response[c][i] \in Frame
      BY <1>2, <1>5, ElementOfSeq
    <3> QED
      BY <3>1 DEF Frame
  <2>4. Held(request[c].bucket, request[c].sequences[i]) \in BOOLEAN
    BY DEF Held
  <2>5. response[c][i].inRing = Held(request[c].bucket, request[c].sequences[i])
    BY <2>2, <2>3, <2>4
  <2> QED
    BY <2>1, <2>2, <2>5
<1>7. Answers(response[c]) \in [1..n -> Brief]
  BY <1>2, <1>5, AnswersType, LenProperties
<1>8. AnswerTo(request[c]) = [i \in 1..n |->
        [bucket |-> request[c].bucket, sequence |-> request[c].sequences[i],
         inRing |-> Held(request[c].bucket, request[c].sequences[i])]]
  BY <1>4 DEF AnswerTo
<1> QED
  BY <1>6, <1>7, <1>8

LEMMA HeadJoined ==
  ASSUME NEW X, NEW q \in Seq(X), q # <<>>
  PROVE  <<Head(q)>> \o Tail(q) = q
<1>1. Len(q) \in Nat \ {0}
  BY EmptySeq
<1>2. q = SubSeq(q, 1, Len(q)) /\ Tail(q) = SubSeq(q, 2, Len(q)) /\ Head(q) = q[1]
  BY SubSeqFull, TailIsSubSeq
<1>3. 1 \in 1..Len(q) /\ Len(q) \in 1..Len(q) /\ 1 + 1 = 2
  BY <1>1
<1>4. SubSeq(q, 1, Len(q)) = <<q[1]>> \o SubSeq(q, 1 + 1, Len(q))
  BY <1>3, SubSeqRecursiveFirst
<1> QED
  BY <1>2, <1>3, <1>4

(* A batch is answered, for the service, when its thread gives the mutex    *)
(* back; writing the frames to the socket changes nothing the client sees.  *)
LEMMA ThreadRefines ==
  ASSUME RefinementInv, NEW c \in Client, ThreadStep(c)
  PROVE  Service!Next \/ UNCHANGED Service!serviceVars
<1>1. TypeOK /\ ConnectionGood(c)
  BY DEF RefinementInv, PublisherInv, RepairInv
<1>2. Others(c) /\ log' = log /\ pc' = pc
  BY <1>1, ThreadLocal
<1>3. Alive
  BY DEF ThreadStep, ReadRequest, RejectRequest, LockRing, AnswerOne, UnlockRing, WriteResponse,
         WriteFails
<1>4. inbox[c] \in Seq(Request) /\ request[c] \in Request
      /\ outbox[c] \in Seq(Frame) /\ response[c] \in Seq(Frame)
  BY <1>1 DEF TypeOK
<1>5. CASE ReadRequest(c)
  <2>1. /\ UNCHANGED <<link, outbox, response>> /\ inbox[c] # <<>> /\ step[c] = "read"
        /\ step'[c] = "lock" /\ request'[c] = Head(inbox[c]) /\ inbox'[c] = Tail(inbox[c])
    BY <1>1, <1>5 DEF ReadRequest, TypeOK
  <2>2. <<Head(inbox[c])>> \o Tail(inbox[c]) = inbox[c]
    BY <1>4, <2>1, HeadJoined
  <2>3. Asked(c)' = Asked(c) /\ Unread(c)' = Unread(c)
    BY <2>1, <2>2 DEF Asked, Unread, Answers
  <2> QED
    BY <1>2, <2>1, <2>3, StuttersHere
<1>6. CASE RejectRequest(c)
  <2>1. CloseSocket(c) /\ step[c] = "read"
    BY <1>6 DEF RejectRequest
  <2>2. PICK q \in Prefixes(outbox[c]) : outbox' = [outbox EXCEPT ![c] = q]
    BY <1>6 DEF RejectRequest
  <2>3. CASE link[c] = "open"
    <3>1. Unread(c) = Answers(outbox[c])
      BY <2>1 DEF Unread
    <3> QED
      BY <1>1, <1>2, <1>3, <1>4, <2>1, <2>2, <2>3, <3>1, ClosesAsHangUp
  <2>4. CASE link[c] # "open"
    <3>1. link[c] = "none" /\ outbox[c] = <<>>
      BY <1>1, <1>6, <2>4 DEF RejectRequest, ConnectionGood
    <3>2. q = <<>>
      BY <2>2, <3>1, EmptyPrefix
    <3>3. link' = link /\ outbox' = outbox
      BY <1>1, <2>1, <2>2, <2>4, <3>1, <3>2 DEF CloseSocket, TypeOK
    <3>4. Asked(c)' = Asked(c) /\ Unread(c)' = Unread(c)
      BY <2>4, <3>3 DEF Asked, Unread, Answers
    <3> QED
      BY <1>2, <3>3, <3>4, StuttersHere
  <2> QED
    BY <2>3, <2>4
<1>7. CASE LockRing(c)
  <2>1. /\ UNCHANGED <<link, inbox, outbox, request, response>>
        /\ step[c] = "lock" /\ step'[c] = "answer"
    BY <1>1, <1>7 DEF LockRing, TypeOK, socketVars
  <2>2. Asked(c)' = Asked(c) /\ Unread(c)' = Unread(c)
    BY <2>1 DEF Asked, Unread, Answers
  <2> QED
    BY <1>2, <2>1, <2>2, StuttersHere
<1>8. CASE AnswerOne(c)
  <2>1. UNCHANGED <<link, inbox, outbox, request, step>> /\ step[c] = "answer"
    BY <1>8 DEF AnswerOne, socketVars
  <2>2. Asked(c)' = Asked(c) /\ Unread(c)' = Unread(c)
    BY <2>1 DEF Asked, Unread, Answers
  <2> QED
    BY <1>2, <2>1, <2>2, StuttersHere
<1>9. CASE UnlockRing(c)
  <2>1. /\ UNCHANGED <<link, inbox, outbox, response>>
        /\ step[c] = "answer" /\ step'[c] = "write" /\ ~Answering(c)
    BY <1>1, <1>9 DEF UnlockRing, TypeOK, socketVars
  <2>2. CASE link[c] = "open"
    <3>1. /\ Asked(c) = <<request[c]>> \o inbox[c] /\ Asked(c)' = inbox[c]
          /\ Unread(c) = Answers(outbox[c])
          /\ Unread(c)' = Answers(outbox[c] \o response[c])
      BY <2>1, <2>2 DEF Asked, Unread, Answers
    <3>2. Asked(c) # <<>> /\ Head(Asked(c)) = request[c] /\ Tail(Asked(c)) = inbox[c]
      BY <1>4, <3>1, OneAhead
    <3>3. request[c] # Malformed /\ request[c].bucket \in Bucket
      BY <1>1, <1>4, <2>1, RequestType DEF ConnectionGood
    <3>4. Unread(c)' = Unread(c) \o AnswerTo(request[c])
      BY <1>4, <2>1, <3>1, AnswersConcat, BatchAnswered
    <3>5. asked' = [asked EXCEPT ![c] = Tail(Asked(c))]
      BY <1>2, <3>1, <3>2, AskedMoves
    <3>6. unread' = [unread EXCEPT ![c] = Unread(c) \o AnswerTo(request[c])]
      BY <1>2, <3>4, UnreadMoves
    <3>7. asked[c] = Asked(c) /\ unread[c] = Unread(c)
      BY <1>1, MappedType
    <3>8. counts' = counts /\ ended' = ended /\ Alive' = Alive
      BY <1>2 DEF counts, Published, ended, Alive
    <3> QED
      BY <1>3, <2>1, <2>2, <3>2, <3>3, <3>5, <3>6, <3>7, <3>8, AsServe
  <2>3. CASE link[c] # "open"
    <3>1. Asked(c)' = Asked(c) /\ Unread(c)' = Unread(c)
      BY <2>1, <2>3 DEF Asked, Unread, Answers
    <3> QED
      BY <1>2, <2>1, <3>1, StuttersHere
  <2> QED
    BY <2>2, <2>3
<1>10. CASE WriteResponse(c)
  <2>1. /\ UNCHANGED <<link, inbox, request>> /\ link[c] = "open"
        /\ step[c] = "write" /\ step'[c] = "read"
        /\ outbox'[c] = outbox[c] \o response[c]
    BY <1>1, <1>10 DEF WriteResponse, TypeOK
  <2>2. Asked(c)' = Asked(c) /\ Unread(c)' = Unread(c)
    BY <2>1 DEF Asked, Unread, Answers
  <2> QED
    BY <1>2, <2>1, <2>2, StuttersHere
<1>11. CASE WriteFails(c)
  <2>1. CloseSocket(c) /\ step[c] = "write"
    BY <1>11 DEF WriteFails
  <2>2. CASE link[c] = "open"
    <3>1. PICK q \in Prefixes(outbox[c] \o response[c]) : outbox' = [outbox EXCEPT ![c] = q]
      BY <1>11, <2>2 DEF WriteFails
    <3>2. outbox[c] \o response[c] \in Seq(Frame)
      BY <1>4, AnswersConcat
    <3>3. Unread(c) = Answers(outbox[c] \o response[c])
      BY <2>1, <2>2 DEF Unread
    <3> QED
      BY <1>1, <1>2, <1>3, <2>1, <2>2, <3>1, <3>2, <3>3, ClosesAsHangUp
  <2>3. CASE link[c] # "open"
    <3>1. link' = link /\ outbox' = outbox
      BY <1>1, <1>11, <2>1, <2>3 DEF WriteFails, CloseSocket, TypeOK
    <3>2. Asked(c)' = Asked(c) /\ Unread(c)' = Unread(c)
      BY <2>3, <3>1 DEF Asked, Unread, Answers
    <3> QED
      BY <1>2, <3>1, <3>2, StuttersHere
  <2> QED
    BY <2>2, <2>3
<1> QED
  BY <1>5, <1>6, <1>7, <1>8, <1>9, <1>10, <1>11 DEF ThreadStep

LEMMA AppendJoined ==
  ASSUME NEW X, NEW x \in X, NEW q \in Seq(X), NEW r \in X
  PROVE  <<x>> \o Append(q, r) = Append(<<x>> \o q, r)
<1>1. <<x>> \in Seq(X) /\ <<r>> \in Seq(X) /\ <<x>> \o q \in Seq(X)
  BY OneAhead
<1>2. Append(q, r) = q \o <<r>> /\ Append(<<x>> \o q, r) = (<<x>> \o q) \o <<r>>
  BY <1>1, AppendIsConcat
<1>3. (<<x>> \o q) \o <<r>> = <<x>> \o (q \o <<r>>)
  BY <1>1, ConcatAssociative
<1> QED
  BY <1>2, <1>3

(* The clients' ends: what they ask, read and close is what the service     *)
(* sees them do.                                                            *)
LEMMA ClientRefines ==
  ASSUME RefinementInv, NEW c \in Client, ClientStep(c)
  PROVE  Service!Next \/ UNCHANGED Service!serviceVars
<1>1. TypeOK /\ ConnectionGood(c)
  BY DEF RefinementInv, PublisherInv, RepairInv
<1>2. Others(c) /\ log' = log /\ pc' = pc
  BY <1>1, ThreadLocal
<1>3. counts' = counts /\ ended' = ended /\ Alive' = Alive
  BY <1>2 DEF counts, Published, ended, Alive
<1>4. inbox[c] \in Seq(Request) /\ request[c] \in Request
      /\ outbox[c] \in Seq(Frame) /\ response[c] \in Seq(Frame)
  BY <1>1 DEF TypeOK
<1>5. asked[c] = Asked(c) /\ unread[c] = Unread(c)
  BY <1>1, MappedType
<1>6. CASE Accept(c)
  <2>1. /\ UNCHANGED <<inbox, outbox, request, response>> /\ Alive
        /\ link[c] = "none" /\ step[c] = "idle" /\ step'[c] = "read"
        /\ link' = [link EXCEPT ![c] = "open"] /\ link'[c] = "open"
    BY <1>1, <1>6 DEF Accept, TypeOK
  <2>2. Asked(c)' = Asked(c)
    BY <1>1, <2>1 DEF Asked, ConnectionGood
  <2>3. Unread(c)' = Unread(c)
    BY <2>1 DEF Unread, Answers
  <2>4. asked' = asked /\ unread' = unread
    BY <1>2, <2>2, <2>3, SameQueues
  <2> QED
    BY <1>3, <2>1, <2>4, AsConnect
<1>7. ASSUME NEW r \in Request, ClientAsks(c, r) PROVE Service!Next
  <2>1. /\ UNCHANGED <<link, outbox, step, request, response>> /\ link[c] = "open"
        /\ Len(inbox[c]) + (IF step[c] \in {"lock", "answer"} THEN 1 ELSE 0) < MaxPipelined
        /\ inbox'[c] = Append(inbox[c], r)
    BY <1>1, <1>7 DEF ClientAsks, TypeOK, threadVars
  <2>2. Unread(c)' = Unread(c)
    BY <2>1 DEF Unread, Answers
  <2>3. Len(Asked(c)) < MaxPipelined /\ Asked(c)' = Append(Asked(c), r)
    <3>1. CASE step[c] \in {"lock", "answer"}
      <4>1. Asked(c) = <<request[c]>> \o inbox[c]
            /\ Asked(c)' = <<request[c]>> \o Append(inbox[c], r)
        BY <2>1, <3>1 DEF Asked
      <4>2. Len(<<request[c]>> \o inbox[c]) = Len(inbox[c]) + 1
        BY <1>4, OneAhead
      <4>3. <<request[c]>> \o Append(inbox[c], r) = Append(<<request[c]>> \o inbox[c], r)
        BY <1>4, AppendJoined
      <4> QED
        BY <2>1, <3>1, <4>1, <4>2, <4>3
    <3>2. CASE step[c] \notin {"lock", "answer"}
      <4>1. Len(inbox[c]) \in Nat
        BY <1>4, LenProperties
      <4> QED
        BY <2>1, <3>2, <4>1 DEF Asked
    <3> QED
      BY <3>1, <3>2
  <2>4. asked' = [asked EXCEPT ![c] = Append(asked[c], r)] /\ unread' = unread
    BY <1>2, <1>5, <2>2, <2>3, AskedMoves, SameQueues
  <2> QED
    BY <1>3, <1>5, <2>1, <2>3, <2>4, AsAsk
<1>8. CASE ClientTakes(c)
  <2>1. /\ UNCHANGED <<link, inbox, step, request, response>> /\ outbox[c] # <<>>
        /\ outbox'[c] = Tail(outbox[c])
    BY <1>1, <1>8 DEF ClientTakes, TypeOK, threadVars
  <2>2. Asked(c)' = Asked(c)
    BY <2>1 DEF Asked
  <2>3. Unread(c) # <<>> /\ Unread(c)' = Tail(Unread(c))
    <3>1. CASE link[c] = "open" /\ step[c] = "write"
      <4>1. Unread(c) = Answers(outbox[c] \o response[c])
            /\ Unread(c)' = Answers(Tail(outbox[c]) \o response[c])
        BY <2>1, <3>1 DEF Unread, Answers
      <4>2. outbox[c] \o response[c] # <<>>
            /\ Tail(outbox[c] \o response[c]) = Tail(outbox[c]) \o response[c]
        BY <1>4, <2>1, FrontOfJoined
      <4>3. outbox[c] \o response[c] \in Seq(Frame)
        BY <1>4, AnswersConcat
      <4> QED
        BY <4>1, <4>2, <4>3, AnswersTail
    <3>2. CASE ~(link[c] = "open" /\ step[c] = "write")
      <4>1. Unread(c) = Answers(outbox[c]) /\ Unread(c)' = Answers(Tail(outbox[c]))
        BY <2>1, <3>2 DEF Unread, Answers
      <4> QED
        BY <1>4, <2>1, <4>1, AnswersTail
    <3> QED
      BY <3>1, <3>2
  <2>4. asked' = asked
    BY <1>2, <2>2, SameQueues
  <2>5. unread' = [unread EXCEPT ![c] = Tail(unread[c])] /\ unread[c] # <<>>
    BY <1>2, <1>5, <2>3, UnreadMoves
  <2> QED
    BY <1>3, <2>1, <2>4, <2>5, AsTake
<1>9. CASE ClientCloses(c)
  <2>1. /\ link[c] # "none" /\ link' = [link EXCEPT ![c] = "none"] /\ link'[c] = "none"
        /\ outbox'[c] = <<>>
    BY <1>1, <1>9 DEF ClientCloses, TypeOK
  <2>2. Asked(c)' = <<>> /\ Unread(c)' = <<>>
    BY <2>1 DEF Asked, Unread, Answers
  <2>3. asked' = [asked EXCEPT ![c] = <<>>] /\ unread' = [unread EXCEPT ![c] = <<>>]
    BY <1>2, <2>2, AskedMoves, UnreadMoves
  <2> QED
    BY <1>3, <2>1, <2>3, AsAbandon
<1> QED
  BY <1>6, <1>7, <1>8, <1>9 DEF ClientStep

LEMMA InitRefines == Init => Service!Init
BY AnswersEmpty DEF Init, Service!Init, Published, Alive

LEMMA NextRefines ==
  RefinementInv /\ [Next]_publisherVars => [Service!Next]_Service!serviceVars
<1> SUFFICES ASSUME RefinementInv, [Next]_publisherVars
             PROVE  Service!Next \/ UNCHANGED Service!serviceVars
  OBVIOUS
<1>1. CASE UNCHANGED publisherVars
  <2>1. UNCHANGED <<log, link, pc>> /\ ended' = ended /\ Alive' = Alive
    BY <1>1 DEF publisherVars, ended, Alive
  <2>2. \A c \in Client : Asked(c)' = Asked(c) /\ Unread(c)' = Unread(c)
    BY <1>1 DEF publisherVars, Asked, Unread, Answers
  <2> QED
    BY <2>1, <2>2, Stutters
<1> QED
  BY <1>1, MainRefines, ThreadRefines, ClientRefines DEF Next, Exited

LEMMA RefinementInvariant == Spec => []RefinementInv
<1> QED
  BY RefinementInit, RefinementNext, PTL DEF Spec

(* A repair client sees what the atomic service of RetransmitService would  *)
(* show it: every batch is answered from one state of the rings, in the     *)
(* order asked, and nothing within ring_size messages is forgotten, however *)
(* publish(), finish() and the threads of serve_one_client() interleave.    *)
THEOREM ServiceTheorem == Spec => ServiceKept
<1> QED
  BY InitRefines, NextRefines, RefinementInvariant, PTL DEF Spec, ServiceKept, Service!Spec
=============================================================================
