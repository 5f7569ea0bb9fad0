--------------------------- MODULE ReliableFeedProofs ---------------------------
(***************************************************************************)
(* What the whole reliable multicast promises, for every stream, ring size  *)
(* and setting of the timers: the receiver of the composition is the one of *)
(* Subscriber, so all its theorems hold here too, and the two sides agree   *)
(* about what is asked and what is answered.                                *)
(***************************************************************************)
EXTENDS ReliableFeed, SubscriberProofs, SequenceTheorems, Numbers

(* Requests the server accepts, for sequences below one already heard.      *)
Askable ==
  {r \in [bucket : Bucket, sequences : Server!Batch] :
     \A i \in DOMAIN r.sequences : r.sequences[i] < seen[r.bucket]}

(* Answers to them; one that is not in the ring has been overwritten.       *)
Usable ==
  {f \in [bucket : Bucket, sequence : Nat \ {0}, inRing : BOOLEAN] :
     /\ f.sequence < seen[f.bucket]
     /\ ~f.inRing => f.sequence <= published[f.bucket] - RingSize}

ConnectionInv ==
  /\ link \in [{Repair} -> {"none", "open", "lost"}]
  /\ requests \in [{Repair} -> Seq(Askable)]
  /\ frames \in [{Repair} -> Seq(Usable)]
  /\ connected <=> link[Repair] # "none"

(* Nothing is on the network, and nothing has been heard, that was not      *)
(* published; the terminator is the last of it.                             *)
StreamInv ==
  /\ published \in [Bucket -> Nat] /\ finished \in BOOLEAN /\ up \in BOOLEAN
  /\ wire \in [Bucket -> SUBSET Nat]
  /\ \A b \in Bucket :
       /\ published[b] <= End[b] /\ (finished => published[b] = End[b])
       /\ seen[b] <= published[b]
       /\ \A s \in wire[b] : 1 <= s /\ s <= published[b]

FeedInv == Inv /\ StreamInv /\ ConnectionInv

-----------------------------------------------------------------------------
(* Constants.                                                               *)

LEMMA FeedConstants ==
  /\ RingSize \in Nat \ {0} /\ MaxBatch \in Nat \ {0}
  /\ \A b \in Bucket : End[b] \in Nat \ {0}
BY FeedAssumption, SubscriberAssumption

LEMMA EndsBelowLongest ==
  /\ LongestStream \in Nat \ {0}
  /\ \A b \in Bucket : End[b] \in 1..LongestStream
<1>1. End \in [Bucket -> Nat \ {0}] /\ Bucket = 1..NumBuckets /\ NumBuckets \in Nat \ {0}
  BY ConstantTypes
<1>2. IsFiniteSet(Bucket) /\ Bucket # {}
  <2>1. 1 \in Int /\ NumBuckets \in Int /\ 1 \in Bucket
    BY <1>1
  <2>2. IsFiniteSet(1..NumBuckets)
    BY <2>1, FS_Interval
  <2> QED
    BY <1>1, <2>1, <2>2
<1>3. End \in Surjection(Bucket, Range(End))
  BY <1>1 DEF Surjection, Range
<1>4. IsFiniteSet(Range(End))
  BY <1>2, <1>3, FS_Surjection
<1>5. Range(End) \subseteq Nat \ {0} /\ Range(End) # {}
  BY <1>1, <1>2 DEF Range
<1>6. \E n \in Range(End) : \A m \in Range(End) : m <= n
  BY <1>4, <1>5, Largest
<1>7. LongestStream \in Range(End) /\ \A m \in Range(End) : m <= LongestStream
  BY <1>6 DEF LongestStream
<1>8. \A b \in Bucket : End[b] \in Range(End)
  BY <1>1 DEF Range
<1> QED
  BY <1>1, <1>5, <1>7, <1>8

-----------------------------------------------------------------------------
(* What nak() asks for.                                                     *)

(* The sequences of a request: missing, real, and at most a full batch.     *)
LEMMA RequestSet ==
  ASSUME Inv, NEW b \in Bucket
  PROVE  /\ ToRequest(b) \subseteq DOMAIN holes[b]
         /\ \A s \in ToRequest(b) : s \in Nat \ {0} /\ s < seen[b]
         /\ IsFiniteSet(ToRequest(b))
         /\ Cardinality(ToRequest(b)) \in Nat /\ Cardinality(ToRequest(b)) <= MaxBatch
<1> DEFINE due == {s \in DOMAIN Chased(b) : Due(Chased(b)[s])}
           below(m) == {t \in due : t < m}
           S == ToRequest(b)
<1>1. TypeOK /\ BucketInv(b)
  BY DEF Inv
<1>2. DOMAIN Chased(b) \subseteq DOMAIN holes[b]
  BY <1>1, ChasedLemma
<1>3. \A s \in DOMAIN holes[b] : s \in Nat \ {0} /\ s < seen[b]
  BY <1>1, BucketTypes DEF BucketInv, InWindow
<1>4. due \subseteq DOMAIN holes[b] /\ seen[b] \in Nat
  BY <1>1, <1>2, BucketTypes
<1>5. S \subseteq due /\ \A s \in S : Cardinality(below(s)) < MaxBatch
  BY DEF ToRequest
<1> HIDE DEF S, due
<1>6. /\ due \in SUBSET Nat /\ due \in SUBSET Int /\ S \in SUBSET Int /\ S \in SUBSET due
      /\ \A s \in due : s <= seen[b]
  BY <1>3, <1>4, <1>5
<1>7. IsFiniteSet(due)
  BY <1>4, <1>6, FS_BoundedSetOfNaturals
<1>8. IsFiniteSet(S) /\ Cardinality(S) \in Nat
  BY <1>6, <1>7, FS_Subset, FS_CardinalityType
<1>9. Cardinality(S) <= MaxBatch
  <2>1. CASE S = {}
    BY <2>1, FS_EmptySet, FeedConstants
  <2>2. CASE S # {}
    <3>1. PICK m \in S : \A s \in S : s <= m
      BY <1>6, <1>8, <2>2, Largest
    <3>2. below(m) \in SUBSET due
      OBVIOUS
    <3>3. IsFiniteSet(below(m)) /\ Cardinality(below(m)) \in Nat
      BY <1>7, <3>2, FS_Subset, FS_CardinalityType
    <3>4. /\ IsFiniteSet(below(m) \cup {m})
          /\ Cardinality(below(m) \cup {m}) <= Cardinality(below(m)) + 1
      <4>1. /\ IsFiniteSet(below(m) \cup {m})
            /\ Cardinality(below(m) \cup {m})
                 = IF m \in below(m) THEN Cardinality(below(m)) ELSE Cardinality(below(m)) + 1
        <5> HIDE DEF below
        <5> QED
          BY <3>3, FS_AddElement
      <4> QED
        BY <3>3, <4>1
    <3>5. S \in SUBSET (below(m) \cup {m})
      BY <1>6, <3>1
    <3>6. Cardinality(S) <= Cardinality(below(m) \cup {m})
      BY <3>4, <3>5, FS_Subset
    <3>7. Cardinality(below(m) \cup {m}) \in Nat
      BY <3>4, FS_CardinalityType
    <3>8. Cardinality(below(m)) < MaxBatch /\ MaxBatch \in Nat
      BY <1>5, <3>1, FeedConstants
    <3> QED
      BY <1>8, <3>3, <3>4, <3>6, <3>7, <3>8
  <2> QED
    BY <2>1, <2>2
<1> QED
  BY <1>3, <1>4, <1>5, <1>8, <1>9 DEF S

(* A finite set of numbers has an ascending enumeration for InOrder.        *)
LEMMA InOrderLemma ==
  ASSUME NEW S \in SUBSET Int, IsFiniteSet(S)
  PROVE  /\ InOrder(S) \in [1..Cardinality(S) -> S]
         /\ \A i, j \in 1..Cardinality(S) : i < j => InOrder(S)[i] < InOrder(S)[j]
<1>1. \E q \in [1..Cardinality(S) -> S] : \A i, j \in DOMAIN q : i < j => q[i] < q[j]
  BY Enumeration
<1>2. /\ InOrder(S) \in [1..Cardinality(S) -> S]
      /\ \A i, j \in DOMAIN InOrder(S) : i < j => InOrder(S)[i] < InOrder(S)[j]
  BY <1>1 DEF InOrder
<1> QED
  BY <1>2

LEMMA BatchAskable ==
  ASSUME Inv, NEW b \in Bucket, Asks(b)
  PROVE  Batch(b) \in Askable
<1> DEFINE S == ToRequest(b)
           q == InOrder(S)
<1>1. /\ \A s \in S : s \in Nat \ {0} /\ s < seen[b]
      /\ IsFiniteSet(S) /\ Cardinality(S) \in Nat /\ Cardinality(S) <= MaxBatch
  BY RequestSet
<1>2. S # {}
  BY DEF Asks
<1>3. seen[b] <= End[b] /\ seen[b] \in Nat
  BY BucketTypes DEF Inv, BucketInv, InWindow
<1> HIDE DEF S
<1>4. Cardinality(S) \in 1..MaxBatch
  <2>1. Cardinality(S) # 0
    BY <1>1, <1>2, FS_EmptySet
  <2> QED
    BY <1>1, <2>1, FeedConstants
<1>5. PICK n \in 1..MaxBatch : n = Cardinality(S)
  BY <1>4
<1>6. S \in SUBSET Int /\ S \subseteq 1..LongestStream
  BY <1>1, <1>3, EndsBelowLongest
<1>7. q \in [1..n -> S] /\ \A i, j \in 1..n : i < j => q[i] < q[j]
  BY <1>1, <1>5, <1>6, InOrderLemma
<1> HIDE DEF q
<1>8. q \in [1..n -> 1..LongestStream]
  BY <1>6, <1>7
<1>9. q \in Server!Batch
  BY <1>7, <1>8 DEF Server!Batch, Server!Ascending
<1>10. \A i \in DOMAIN q : q[i] < seen[b]
  BY <1>1, <1>7
<1>11. Batch(b) = [bucket |-> b, sequences |-> q]
  BY DEF Batch, S, q
<1> QED
  BY <1>9, <1>10, <1>11 DEF Askable

-----------------------------------------------------------------------------
(* Connections.                                                             *)

(* What may be asked and what may be used only grows.                       *)
Forward ==
  \A b \in Bucket : /\ seen[b] \in Nat /\ seen'[b] \in Nat /\ seen[b] <= seen'[b]
                    /\ published[b] \in Nat /\ published'[b] \in Nat
                    /\ published[b] <= published'[b]

LEMMA ForwardKeeps ==
  ASSUME Forward
  PROVE  /\ \A q \in Seq(Askable) : q \in Seq(Askable')
         /\ \A q \in Seq(Usable) : q \in Seq(Usable')
<1>1. Askable \subseteq Askable'
  <2> SUFFICES ASSUME NEW r \in Askable PROVE r \in Askable'
    OBVIOUS
  <2>1. /\ r \in [bucket : Bucket, sequences : Server!Batch]
        /\ \A i \in DOMAIN r.sequences : r.sequences[i] < seen[r.bucket]
    BY DEF Askable
  <2>2. /\ r.bucket \in Bucket /\ seen[r.bucket] \in Nat /\ seen'[r.bucket] \in Nat
        /\ seen[r.bucket] <= seen'[r.bucket]
    BY <2>1 DEF Forward
  <2>3. PICK n \in 1..MaxBatch : r.sequences \in [1..n -> 1..LongestStream]
    BY <2>1 DEF Server!Batch
  <2>4. \A i \in DOMAIN r.sequences : r.sequences[i] \in Int
    BY <2>3
  <2>5. \A i \in DOMAIN r.sequences : r.sequences[i] < seen'[r.bucket]
    BY <2>1, <2>2, <2>4
  <2> QED
    BY <2>1, <2>5 DEF Askable
<1>2. Usable \subseteq Usable'
  <2> SUFFICES ASSUME NEW f \in Usable PROVE f \in Usable'
    OBVIOUS
  <2>1. /\ f \in [bucket : Bucket, sequence : Nat \ {0}, inRing : BOOLEAN]
        /\ f.sequence < seen[f.bucket]
        /\ ~f.inRing => f.sequence <= published[f.bucket] - RingSize
    BY DEF Usable
  <2>2. f.bucket \in Bucket /\ f.sequence \in Nat
    BY <2>1
  <2>3. f.sequence < seen'[f.bucket]
    BY <2>1, <2>2 DEF Forward
  <2>4. ~f.inRing => f.sequence <= published'[f.bucket] - RingSize
    BY <2>1, <2>2, FeedConstants DEF Forward
  <2> QED
    BY <2>1, <2>3, <2>4 DEF Usable
<1> QED
  BY <1>1, <1>2, SeqMonotonic

LEMMA ConnectionKept ==
  ASSUME ConnectionInv, Forward, UNCHANGED connectionVars, connected' = connected
  PROVE  ConnectionInv'
<1>1. /\ requests[Repair] \in Seq(Askable) /\ frames[Repair] \in Seq(Usable)
      /\ requests \in [{Repair} -> Seq(Askable)] /\ frames \in [{Repair} -> Seq(Usable)]
  BY DEF ConnectionInv
<1>2. /\ \A q \in Seq(Askable) : q \in Seq(Askable')
      /\ \A q \in Seq(Usable) : q \in Seq(Usable')
  BY ForwardKeeps
<1>3. requests \in [{Repair} -> Seq(Askable')] /\ frames \in [{Repair} -> Seq(Usable')]
  BY <1>1, <1>2
<1> QED
  BY <1>3 DEF ConnectionInv, connectionVars

(* The queues of a connection, when nothing is published or heard.          *)
LEMMA SameSets ==
  ASSUME UNCHANGED <<seen, published>>
  PROVE  Askable' = Askable /\ Usable' = Usable
BY DEF Askable, Usable

LEMMA PrefixUsable ==
  ASSUME NEW q \in Seq(Usable), NEW p \in Server!Prefixes(q)
  PROVE  p \in Seq(Usable)
<1>1. PICK n \in 0..Len(q) : p = SubSeq(q, 1, n)
  BY DEF Server!Prefixes
<1>2. n \in Int /\ \A i \in 1..n : q[i] \in Usable
  <2>1. Len(q) \in Nat
    OBVIOUS
  <2> QED
    BY <2>1, ElementOfSeq
<1> QED
  BY <1>1, <1>2, SubSeqProperties

(* The server's answers to a request of this receiver can be used by it.    *)
LEMMA AnswerUsable ==
  ASSUME Inv, StreamInv, NEW r \in Askable
  PROVE  Server!Answer(r) \in Seq(Usable)
<1> DEFINE q == r.sequences
           b == r.bucket
           frame(i) == [bucket |-> b, sequence |-> q[i], inRing |-> Server!InRing(b, q[i])]
<1>1. /\ r \in [bucket : Bucket, sequences : Server!Batch]
      /\ \A i \in DOMAIN q : q[i] < seen[b]
  BY DEF Askable
<1>2. b \in Bucket
  BY <1>1
<1>3. PICK n \in 1..MaxBatch : q \in [1..n -> 1..LongestStream]
  BY <1>1 DEF Server!Batch
<1>4. n \in Nat /\ n \in 1..n
  BY <1>3, FeedConstants
<1>5. Len(q) = n
  BY <1>3, <1>4
<1>6. ASSUME NEW i \in 1..n PROVE frame(i) \in Usable
  <2>1. q[i] \in Nat \ {0} /\ q[i] < seen[b]
    BY <1>1, <1>3, EndsBelowLongest
  <2>2. seen[b] \in Nat /\ published[b] \in Nat /\ seen[b] <= published[b]
    BY <1>2, BucketTypes DEF Inv, StreamInv
  <2>3. Server!InRing(b, q[i]) \in BOOLEAN
    BY DEF Server!InRing
  <2>4. ~Server!InRing(b, q[i]) => q[i] <= published[b] - RingSize
    BY <2>1, <2>2, FeedConstants DEF Server!InRing
  <2> QED
    BY <1>2, <2>1, <2>3, <2>4 DEF Usable
<1>7. Server!Answer(r) = [i \in 1..n |-> frame(i)]
  BY <1>5 DEF Server!Answer
<1> HIDE DEF frame
<1>8. [i \in 1..n |-> frame(i)] \in [1..n -> Usable]
  BY <1>6
<1> QED
  BY <1>4, <1>7, <1>8, SeqDef

-----------------------------------------------------------------------------
(* The initial states, and the steps of the publisher.                      *)

LEMMA FeedInitInv == FeedInit => FeedInv
<1> SUFFICES ASSUME FeedInit PROVE FeedInv
  OBVIOUS
<1>1. Init /\ Server!Init /\ wire = [b \in Bucket |-> {}]
  BY DEF FeedInit
<1>2. Inv
  BY <1>1, InitInv
<1>3. StreamInv
  <2>1. /\ published = [b \in Bucket |-> 0] /\ finished = FALSE /\ up = TRUE
        /\ seen = [b \in Bucket |-> 0] /\ wire = [b \in Bucket |-> {}]
    BY <1>1 DEF Server!Init, Init
  <2>2. \A b \in Bucket : /\ published[b] = 0 /\ seen[b] = 0 /\ wire[b] = {}
                          /\ published[b] <= End[b]
    BY <2>1, FeedConstants
  <2>3. /\ published \in [Bucket -> Nat] /\ finished \in BOOLEAN /\ up \in BOOLEAN
        /\ wire \in [Bucket -> SUBSET Nat]
    BY <2>1
  <2>4. finished = FALSE
    BY <2>1
  <2> QED
    BY <2>2, <2>3, <2>4 DEF StreamInv
<1>4. ConnectionInv
  <2>1. /\ link = [c \in {Repair} |-> "none"] /\ requests = [c \in {Repair} |-> <<>>]
        /\ frames = [c \in {Repair} |-> <<>>] /\ connected = FALSE
    BY <1>1 DEF Server!Init, Init
  <2>2. <<>> \in Seq(Askable) /\ <<>> \in Seq(Usable)
    BY EmptySeq
  <2> QED
    BY <2>1, <2>2 DEF ConnectionInv
<1> QED
  BY <1>2, <1>3, <1>4 DEF FeedInv

(* A step that leaves the receiver alone keeps its invariant.               *)
LEMMA ReceiverIdle ==
  ASSUME Inv, UNCHANGED subscriberVars
  PROVE  Inv' /\ seen' = seen /\ connected' = connected
<1>1. [Next]_subscriberVars
  OBVIOUS
<1>2. Inv'
  BY <1>1, NextInv
<1>3. seen' = seen /\ connected' = connected
  BY DEF subscriberVars
<1> QED
  BY <1>2, <1>3

LEMMA HeardType ==
  ASSUME Inv
  PROVE  \A b \in Bucket : seen[b] \in Nat /\ seen[b] <= End[b]
BY BucketTypes DEF Inv, BucketInv, InWindow

LEMMA PublishKeeps ==
  ASSUME FeedInv, NEW b \in Bucket, Publish(b)
  PROVE  FeedInv'
<1> USE DEF FeedInv
<1>1. /\ published[b] < End[b] - 1 /\ ~finished
      /\ published' = [published EXCEPT ![b] = published[b] + 1]
      /\ UNCHANGED <<finished, up, link, requests, frames, rounds>>
      /\ UNCHANGED subscriberVars
      /\ \/ wire' = [wire EXCEPT ![b] = wire[b] \cup {published'[b]}]
         \/ UNCHANGED wire
  BY DEF Publish, Server!Publish
<1>2. Inv' /\ seen' = seen /\ connected' = connected
  BY <1>1, ReceiverIdle
<1>3. /\ published \in [Bucket -> Nat] /\ published' \in [Bucket -> Nat]
      /\ \A c \in Bucket : published[c] <= published'[c]
  BY <1>1 DEF StreamInv
<1>4. Forward
  BY <1>2, <1>3, HeardType DEF Forward
<1>5. ConnectionInv'
  BY <1>1, <1>2, <1>4, ConnectionKept DEF connectionVars
<1>6. wire' \in [Bucket -> SUBSET Nat]
  BY <1>1, <1>3 DEF StreamInv
<1>7. ASSUME NEW c \in Bucket
      PROVE  /\ published'[c] <= End[c] /\ (finished' => published'[c] = End[c])
             /\ seen'[c] <= published'[c]
             /\ \A s \in wire'[c] : 1 <= s /\ s <= published'[c]
  <2>1. /\ published[c] \in Nat /\ published'[c] \in Nat /\ seen[c] \in Nat /\ End[c] \in Nat
        /\ \A s \in wire[c] : s \in Nat
    BY <1>3, HeardType, FeedConstants DEF StreamInv
  <2>2. /\ published[c] <= End[c] /\ seen[c] <= published[c]
        /\ \A s \in wire[c] : 1 <= s /\ s <= published[c]
    BY DEF StreamInv
  <2>3. published'[c] = (IF c = b THEN published[c] + 1 ELSE published[c])
    BY <1>1, <1>3
  <2>4. published'[c] <= End[c] /\ seen'[c] <= published'[c] /\ ~finished'
    BY <1>1, <1>2, <2>1, <2>2, <2>3
  <2>5. wire'[c] \subseteq wire[c] \cup {published'[c]} /\ (c # b => wire'[c] = wire[c])
    BY <1>1 DEF StreamInv
  <2>6. \A s \in wire'[c] : 1 <= s /\ s <= published'[c]
    BY <2>1, <2>2, <2>3, <2>5
  <2> QED
    BY <2>4, <2>6
<1>8. StreamInv'
  BY <1>1, <1>3, <1>6, <1>7 DEF StreamInv
<1> QED
  BY <1>2, <1>5, <1>8

(* The terminators go out, when each has been published.                    *)
LEMMA EndsSent ==
  ASSUME Inv, StreamInv, SendEnds, UNCHANGED <<seen, up>>,
         published' \in [Bucket -> Nat], finished',
         \A b \in Bucket : published[b] <= published'[b] /\ published'[b] = End[b]
  PROVE  StreamInv'
<1>1. PICK heard \in SUBSET Bucket :
        wire' = [b \in Bucket |-> IF b \in heard THEN wire[b] \cup {End[b]} ELSE wire[b]]
  BY DEF SendEnds
<1>2. wire' \in [Bucket -> SUBSET Nat]
  BY <1>1, FeedConstants DEF StreamInv
<1>3. ASSUME NEW b \in Bucket
      PROVE  /\ seen'[b] <= published'[b]
             /\ \A s \in wire'[b] : 1 <= s /\ s <= published'[b]
  <2>1. /\ End[b] \in Nat \ {0} /\ seen[b] \in Nat /\ published[b] \in Nat
        /\ seen[b] <= published[b] /\ published[b] <= published'[b] /\ published'[b] = End[b]
        /\ \A s \in wire[b] : s \in Nat /\ 1 <= s /\ s <= published[b]
    BY HeardType, FeedConstants DEF StreamInv
  <2>2. wire'[b] \subseteq wire[b] \cup {End[b]}
    BY <1>1
  <2> QED
    BY <2>1, <2>2
<1> QED
  BY <1>2, <1>3, FeedConstants DEF StreamInv

LEMMA FinishKeeps ==
  ASSUME FeedInv, Finish
  PROVE  FeedInv'
<1> USE DEF FeedInv
<1>1. /\ \A b \in Bucket : published[b] = End[b] - 1
      /\ published' = [b \in Bucket |-> published[b] + 1] /\ finished' = TRUE
      /\ UNCHANGED <<up, link, requests, frames>> /\ UNCHANGED subscriberVars /\ SendEnds
  BY DEF Finish, Server!Finish
<1>2. Inv' /\ seen' = seen /\ connected' = connected
  BY <1>1, ReceiverIdle
<1>3. /\ published \in [Bucket -> Nat] /\ published' \in [Bucket -> Nat]
      /\ \A b \in Bucket : published[b] <= published'[b] /\ published'[b] = End[b]
  BY <1>1, FeedConstants DEF StreamInv
<1>4. Forward
  BY <1>2, <1>3, HeardType DEF Forward
<1>5. ConnectionInv'
  BY <1>1, <1>2, <1>4, ConnectionKept DEF connectionVars
<1>6. StreamInv'
  BY <1>1, <1>2, <1>3, EndsSent
<1> QED
  BY <1>2, <1>5, <1>6

LEMMA FinishAgainKeeps ==
  ASSUME FeedInv, FinishAgain
  PROVE  FeedInv'
<1> USE DEF FeedInv
<1>1. /\ finished /\ UNCHANGED <<published, finished, up, link, requests, frames>>
      /\ UNCHANGED subscriberVars /\ SendEnds
  BY DEF FinishAgain, publisherVars, connectionVars
<1>2. Inv' /\ seen' = seen /\ connected' = connected
  BY <1>1, ReceiverIdle
<1>3. /\ published' \in [Bucket -> Nat]
      /\ \A b \in Bucket : published[b] <= published'[b] /\ published'[b] = End[b]
  BY <1>1, FeedConstants DEF StreamInv
<1>4. Forward
  BY <1>1, <1>2, HeardType DEF Forward, StreamInv
<1>5. ConnectionInv'
  BY <1>1, <1>2, <1>4, ConnectionKept DEF connectionVars
<1>6. StreamInv'
  BY <1>1, <1>2, <1>3, EndsSent
<1> QED
  BY <1>2, <1>5, <1>6

(* The steps of the server that touch a connection only.                    *)
LEMMA StreamKept ==
  ASSUME StreamInv, UNCHANGED <<published, finished, wire, seen>>, up' \in BOOLEAN
  PROVE  StreamInv'
BY DEF StreamInv

LEMMA ServerKeeps ==
  ASSUME FeedInv, PublisherExits \/ Serve \/ HangUp
  PROVE  FeedInv'
<1> USE DEF FeedInv
<1>1. UNCHANGED subscriberVars /\ UNCHANGED <<published, finished, wire>> /\ up' \in BOOLEAN
  <2>1. up \in BOOLEAN
    BY DEF StreamInv
  <2> QED
    BY <2>1 DEF PublisherExits, Serve, HangUp, Server!Exit, Server!Serve, Server!HangUp,
                networkVars
<1>2. Inv' /\ seen' = seen /\ connected' = connected
  BY <1>1, ReceiverIdle
<1>3. StreamInv'
  BY <1>1, <1>2, StreamKept
<1>4. Askable' = Askable /\ Usable' = Usable
  BY <1>1, <1>2, SameSets
<1>5. /\ link \in [{Repair} -> {"none", "open", "lost"}]
      /\ requests \in [{Repair} -> Seq(Askable)] /\ frames \in [{Repair} -> Seq(Usable)]
      /\ requests[Repair] \in Seq(Askable) /\ frames[Repair] \in Seq(Usable)
      /\ (connected <=> link[Repair] # "none") /\ Repair \in {Repair}
      /\ <<>> \in Seq(Askable)
  BY EmptySeq DEF ConnectionInv
<1>6. CASE PublisherExits
  <2>1. /\ link' = [c \in {Repair} |-> IF link[c] = "open" THEN "lost" ELSE link[c]]
        /\ requests' = [c \in {Repair} |-> <<>>]
        /\ frames' \in [{Repair} -> UNION {Server!Prefixes(frames[c]) : c \in {Repair}}]
        /\ \A c \in {Repair} : frames'[c] \in Server!Prefixes(frames[c])
    BY <1>6 DEF PublisherExits, Server!Exit
  <2>2. frames' \in [{Repair} -> Seq(Usable)]
    BY <1>5, <2>1, PrefixUsable
  <2>3. /\ link' \in [{Repair} -> {"none", "open", "lost"}]
        /\ (link'[Repair] # "none" <=> link[Repair] # "none")
    BY <1>5, <2>1
  <2> QED
    BY <1>2, <1>3, <1>4, <1>5, <2>1, <2>2, <2>3 DEF ConnectionInv
<1>7. CASE Serve
  <2>1. /\ requests[Repair] # <<>> /\ link' = link
        /\ frames' = [frames EXCEPT
                        ![Repair] = frames[Repair] \o Server!Answer(Head(requests[Repair]))]
        /\ requests' = [requests EXCEPT ![Repair] = Tail(requests[Repair])]
    BY <1>7 DEF Serve, Server!Serve
  <2>2. Head(requests[Repair]) \in Askable /\ Tail(requests[Repair]) \in Seq(Askable)
    BY <1>5, <2>1, HeadTailProperties
  <2>3. frames[Repair] \o Server!Answer(Head(requests[Repair])) \in Seq(Usable)
    BY <1>5, <2>2, AnswerUsable, ConcatProperties
  <2>4. requests' \in [{Repair} -> Seq(Askable)] /\ frames' \in [{Repair} -> Seq(Usable)]
    BY <1>5, <2>1, <2>2, <2>3
  <2> QED
    BY <1>2, <1>3, <1>4, <1>5, <2>1, <2>4 DEF ConnectionInv
<1>8. CASE HangUp
  <2>1. /\ link[Repair] = "open" /\ link' = [link EXCEPT ![Repair] = "lost"]
        /\ requests' = [requests EXCEPT ![Repair] = <<>>]
        /\ \E q \in Server!Prefixes(frames[Repair]) : frames' = [frames EXCEPT ![Repair] = q]
    BY <1>8 DEF HangUp, Server!HangUp
  <2>2. PICK q \in Seq(Usable) : frames' = [frames EXCEPT ![Repair] = q]
    BY <1>5, <2>1, PrefixUsable
  <2>3. requests' \in [{Repair} -> Seq(Askable)] /\ frames' \in [{Repair} -> Seq(Usable)]
    BY <1>5, <2>1, <2>2
  <2>4. /\ link' \in [{Repair} -> {"none", "open", "lost"}]
        /\ link[Repair] # "none" /\ link'[Repair] # "none"
    BY <1>5, <2>1
  <2> QED
    BY <1>2, <1>3, <1>4, <1>5, <2>3, <2>4 DEF ConnectionInv
<1> QED
  BY <1>6, <1>7, <1>8

-----------------------------------------------------------------------------
(* The steps of the receiver.  Each is a step of Subscriber, and only       *)
(* ReceiveDatagram hears anything.                                          *)

LEMMA ReceiveDatagramStep ==
  ASSUME FeedInv, NEW b \in Bucket, NEW s \in 1..End[b], ReceiveDatagram(b, s)
  PROVE  Next /\ StreamInv' /\ ConnectionInv'
<1> USE DEF FeedInv
<1>1. /\ s \in wire[b] /\ AcceptOrderMessage(b, s)
      /\ wire' = [wire EXCEPT ![b] = wire[b] \ {s}]
      /\ UNCHANGED <<published, finished, up, link, requests, frames, rounds>>
  BY DEF ReceiveDatagram, publisherVars, connectionVars
<1>2. Next
  BY <1>1 DEF Next
<1>3. /\ seen' = [seen EXCEPT ![b] = IF s > seen[b] THEN s ELSE seen[b]]
      /\ connected' = connected /\ seen \in [Bucket -> Nat] /\ s \in Nat
  BY <1>1 DEF AcceptOrderMessage, repairVars, Inv, TypeOK
<1>4. ASSUME NEW c \in Bucket
      PROVE  /\ seen[c] \in Nat /\ seen'[c] \in Nat /\ seen[c] <= seen'[c]
             /\ published[c] \in Nat /\ seen'[c] <= published[c]
  <2>1. /\ seen[c] \in Nat /\ published[c] \in Nat /\ seen[c] <= published[c]
        /\ s <= published[b]
    BY <1>1, <1>3 DEF StreamInv
  <2>2. seen'[c] = IF c = b /\ s > seen[c] THEN s ELSE seen[c]
    BY <1>3
  <2> QED
    BY <1>3, <2>1, <2>2
<1>5. Forward
  BY <1>1, <1>4 DEF Forward
<1>6. ConnectionInv'
  BY <1>1, <1>3, <1>5, ConnectionKept DEF connectionVars
<1>7. /\ wire' \in [Bucket -> SUBSET Nat]
      /\ \A c \in Bucket : wire'[c] \subseteq wire[c]
  BY <1>1 DEF StreamInv
<1>8. StreamInv'
  BY <1>1, <1>4, <1>7 DEF StreamInv
<1> QED
  BY <1>2, <1>6, <1>8

(* Steps that touch neither the network nor the connection.                 *)
LEMMA ElsewhereKeeps ==
  ASSUME FeedInv, Elsewhere, UNCHANGED <<seen, connected>>
  PROVE  StreamInv' /\ ConnectionInv'
<1> USE DEF FeedInv
<1>1. /\ UNCHANGED <<published, finished, up, wire>> /\ UNCHANGED connectionVars
  BY DEF Elsewhere, publisherVars, networkVars
<1>2. StreamInv'
  BY <1>1 DEF StreamInv
<1>3. Forward
  BY <1>1, HeardType DEF Forward, StreamInv
<1> QED
  BY <1>1, <1>2, <1>3, ConnectionKept

LEMMA SeeClosedStep ==
  ASSUME FeedInv, SeeClosed
  PROVE  Next /\ StreamInv' /\ ConnectionInv'
<1> USE DEF FeedInv
<1>1. /\ PeerClosed /\ connected' = FALSE /\ UNCHANGED seen
      /\ link' = [link EXCEPT ![Repair] = "none"]
      /\ requests' = [requests EXCEPT ![Repair] = <<>>]
      /\ frames' = [frames EXCEPT ![Repair] = <<>>]
      /\ UNCHANGED <<published, finished, up, wire>>
  BY DEF SeeClosed, PeerClosed, ResetRepair, Server!Abandon, networkVars
<1>2. Next
  BY <1>1 DEF Next
<1>3. StreamInv' /\ Askable' = Askable /\ Usable' = Usable
  BY <1>1, SameSets DEF StreamInv
<1>4. <<>> \in Seq(Askable) /\ <<>> \in Seq(Usable)
  BY EmptySeq
<1>5. /\ link' \in [{Repair} -> {"none", "open", "lost"}] /\ link'[Repair] = "none"
      /\ requests' \in [{Repair} -> Seq(Askable)] /\ frames' \in [{Repair} -> Seq(Usable)]
  BY <1>1, <1>4 DEF ConnectionInv
<1> QED
  BY <1>1, <1>2, <1>3, <1>5 DEF ConnectionInv

(* The frame at the front of the stream is one Subscriber may be sent.      *)
LEMMA FrontFrame ==
  ASSUME FeedInv, frames[Repair] # <<>>
  PROVE  LET f == Head(frames[Repair]) IN
           /\ f \in Usable /\ f.bucket \in Bucket /\ f.inRing \in BOOLEAN
           /\ f.sequence \in 1..End[f.bucket] /\ f.sequence < seen[f.bucket]
           /\ ~f.inRing => f.sequence <= published[f.bucket] - RingSize
<1> USE DEF FeedInv
<1> DEFINE f == Head(frames[Repair])
<1>1. frames[Repair] \in Seq(Usable)
  BY DEF ConnectionInv
<1>2. f \in Usable
  BY <1>1, HeadTailProperties
<1> HIDE DEF f
<1>3. /\ f.bucket \in Bucket /\ f.inRing \in BOOLEAN /\ f.sequence \in Nat \ {0}
      /\ f.sequence < seen[f.bucket]
      /\ ~f.inRing => f.sequence <= published[f.bucket] - RingSize
  BY <1>2 DEF Usable
<1>4. seen[f.bucket] \in Nat /\ seen[f.bucket] <= End[f.bucket] /\ End[f.bucket] \in Nat
  BY <1>3, HeardType, FeedConstants
<1>5. f.sequence \in 1..End[f.bucket]
  BY <1>3, <1>4
<1> QED
  BY <1>2, <1>3, <1>5 DEF f

LEMMA ReadFrameStep ==
  ASSUME FeedInv, ReadFrame
  PROVE  Next /\ StreamInv' /\ ConnectionInv'
<1> USE DEF FeedInv
<1> DEFINE f == Head(frames[Repair])
<1>1. /\ frames[Repair] # <<>> /\ AcceptFrame(f.bucket, f.sequence, f.inRing)
      /\ frames' = [frames EXCEPT ![Repair] = Tail(frames[Repair])]
      /\ UNCHANGED <<published, finished, up, link, requests, wire, rounds>>
  BY DEF ReadFrame, Server!Take, networkVars
<1>2. /\ f.bucket \in Bucket /\ f.inRing \in BOOLEAN /\ f.sequence \in 1..End[f.bucket]
  BY <1>1, FrontFrame
<1>3. UNCHANGED <<seen, connected>>
  BY <1>1 DEF AcceptFrame, repairVars
<1> HIDE DEF f
<1>4. Next
  BY <1>1, <1>2 DEF Next
<1>5. StreamInv' /\ Askable' = Askable /\ Usable' = Usable
  BY <1>1, <1>3, SameSets DEF StreamInv
<1>6. frames \in [{Repair} -> Seq(Usable)] /\ frames[Repair] \in Seq(Usable)
  BY DEF ConnectionInv
<1>7. frames' \in [{Repair} -> Seq(Usable)]
  BY <1>1, <1>6, HeadTailProperties
<1> QED
  BY <1>1, <1>3, <1>4, <1>5, <1>7 DEF ConnectionInv

LEMMA SendRequestStep ==
  ASSUME FeedInv, NEW b \in Bucket, SendRequest(b)
  PROVE  Next /\ StreamInv' /\ ConnectionInv'
<1> USE DEF FeedInv
<1>1. /\ NakSent(b) /\ Asks(b) /\ connected' = TRUE
      /\ UNCHANGED <<seen, published, finished, up, wire>>
  BY DEF SendRequest, NakSent, publisherVars, networkVars
<1>2. Next
  BY <1>1 DEF Next
<1>3. StreamInv' /\ Askable' = Askable /\ Usable' = Usable
  BY <1>1, SameSets DEF StreamInv
<1>4. Batch(b) \in Askable
  BY <1>1, BatchAskable
<1>5. /\ link \in [{Repair} -> {"none", "open", "lost"}]
      /\ requests \in [{Repair} -> Seq(Askable)] /\ frames \in [{Repair} -> Seq(Usable)]
      /\ requests[Repair] \in Seq(Askable)
  BY DEF ConnectionInv
<1>6. CASE /\ link' = [link EXCEPT ![Repair] = "open"]
           /\ requests' = [requests EXCEPT ![Repair] = <<Batch(b)>>]
           /\ UNCHANGED frames
  <2>1. <<Batch(b)>> \in Seq(Askable)
    BY <1>4
  <2>2. requests' \in [{Repair} -> Seq(Askable)]
    BY <1>5, <1>6, <2>1
  <2>3. link' \in [{Repair} -> {"none", "open", "lost"}] /\ link'[Repair] # "none"
    BY <1>5, <1>6
  <2> QED
    BY <1>1, <1>2, <1>3, <1>5, <1>6, <2>2, <2>3 DEF ConnectionInv
<1>7. CASE /\ link[Repair] = "open"
           /\ requests' = [requests EXCEPT ![Repair] = Append(requests[Repair], Batch(b))]
           /\ UNCHANGED <<link, frames>>
  <2>1. Append(requests[Repair], Batch(b)) \in Seq(Askable)
    BY <1>4, <1>5, AppendProperties
  <2>2. requests' \in [{Repair} -> Seq(Askable)]
    BY <1>5, <1>7, <2>1
  <2> QED
    BY <1>1, <1>2, <1>3, <1>5, <1>7, <2>2 DEF ConnectionInv
<1>8. CASE link[Repair] = "lost" /\ UNCHANGED <<link, requests, frames>>
  BY <1>1, <1>2, <1>3, <1>5, <1>8 DEF ConnectionInv
<1> QED
  BY <1>6, <1>7, <1>8 DEF SendRequest, connectionVars

LEMMA RequestFailsStep ==
  ASSUME FeedInv, NEW b \in Bucket, RequestFails(b)
  PROVE  Next /\ StreamInv' /\ ConnectionInv'
<1> USE DEF FeedInv
<1>1. /\ NakFailed(b) /\ connected' = FALSE
      /\ UNCHANGED <<seen, published, finished, up, wire>>
      /\ IF connected THEN Server!Abandon(Repair) ELSE UNCHANGED <<link, requests, frames>>
  BY DEF RequestFails, NakFailed, ResetRepair, publisherVars, connectionVars, networkVars,
         Server!Abandon
<1>2. Next
  BY <1>1 DEF Next
<1>3. StreamInv' /\ Askable' = Askable /\ Usable' = Usable
  BY <1>1, SameSets DEF StreamInv
<1>4. <<>> \in Seq(Askable) /\ <<>> \in Seq(Usable)
  BY EmptySeq
<1>5. /\ link' \in [{Repair} -> {"none", "open", "lost"}] /\ link'[Repair] = "none"
      /\ requests' \in [{Repair} -> Seq(Askable)] /\ frames' \in [{Repair} -> Seq(Usable)]
  BY <1>1, <1>4 DEF ConnectionInv, Server!Abandon
<1> QED
  BY <1>1, <1>2, <1>3, <1>5 DEF ConnectionInv

(* Every step of the composition is a step of Subscriber or leaves it alone. *)
LEMMA FeedStep ==
  ASSUME FeedInv, [FeedNext]_feedVars
  PROVE  [Next]_subscriberVars /\ StreamInv' /\ ConnectionInv'
<1> USE DEF FeedInv
<1>1. CASE PublisherStep
  <2>1. UNCHANGED subscriberVars
    BY <1>1 DEF PublisherStep, Publish, Finish, FinishAgain, PublisherExits, Serve, HangUp
  <2>2. StreamInv' /\ ConnectionInv'
    BY <1>1, PublishKeeps, FinishKeeps, FinishAgainKeeps, ServerKeeps DEF PublisherStep
  <2> QED
    BY <2>1, <2>2
<1>2. CASE ReceiverStep
  <2>1. CASE \E b \in Bucket : \E s \in 1..End[b] : ReceiveDatagram(b, s)
    BY <2>1, ReceiveDatagramStep
  <2>2. CASE SeeClosed \/ ReadFrame
    BY <2>2, SeeClosedStep, ReadFrameStep
  <2>3. CASE \E b \in Bucket : SendRequest(b) \/ RequestFails(b)
    BY <2>3, SendRequestStep, RequestFailsStep
  <2>4. CASE (Wake \/ UdpDrained \/ TcpDrained \/ Parsed) /\ Elsewhere
    <3>1. Next /\ UNCHANGED <<seen, connected>>
      BY <2>4 DEF Next, Wake, UdpDrained, TcpDrained, Parsed, repairVars
    <3> QED
      BY <2>4, <3>1, ElsewhereKeeps
  <2>5. ASSUME NEW b \in Bucket, NakQuiet(b) /\ Elsewhere
        PROVE  Next /\ StreamInv' /\ ConnectionInv'
    <3>1. Next /\ UNCHANGED <<seen, connected>>
      BY <2>5 DEF Next, NakQuiet, repairVars
    <3> QED
      BY <2>5, <3>1, ElsewhereKeeps
  <2>6. ASSUME NEW b \in Bucket, DeliverParked(b) \/ SkipGone(b) \/ DeliverEnds(b), Elsewhere
        PROVE  Next /\ StreamInv' /\ ConnectionInv'
    <3>1. Next /\ UNCHANGED <<seen, connected>>
      BY <2>6 DEF Next, DeliverParked, SkipGone, DeliverEnds, repairVars
    <3> QED
      BY <2>6, <3>1, ElsewhereKeeps
  <2> QED
    BY <1>2, <2>1, <2>2, <2>3, <2>4, <2>5, <2>6 DEF ReceiverStep
<1>3. CASE (Interrupted \/ Tick) /\ Elsewhere
  <2>1. Next /\ UNCHANGED <<seen, connected>>
    BY <1>3 DEF Next, Interrupted, Tick, repairVars
  <2> QED
    BY <1>3, <2>1, ElsewhereKeeps
<1>4. CASE Returned /\ Elsewhere
  <2>1. UNCHANGED subscriberVars /\ UNCHANGED <<seen, connected>>
    BY <1>4 DEF Returned, subscriberVars
  <2> QED
    BY <1>4, <2>1, ElsewhereKeeps
<1>5. CASE UNCHANGED feedVars
  <2>1. UNCHANGED subscriberVars /\ UNCHANGED <<seen, connected>> /\ Elsewhere
    BY <1>5 DEF feedVars, subscriberVars, Elsewhere
  <2> QED
    BY <2>1, ElsewhereKeeps
<1> QED
  BY <1>1, <1>2, <1>3, <1>4, <1>5 DEF FeedNext

LEMMA FeedNextInv == FeedInv /\ [FeedNext]_feedVars => FeedInv'
<1> SUFFICES ASSUME FeedInv, [FeedNext]_feedVars PROVE FeedInv'
  OBVIOUS
<1>1. [Next]_subscriberVars /\ StreamInv' /\ ConnectionInv'
  BY FeedStep
<1>2. Inv'
  BY <1>1, NextInv DEF FeedInv
<1> QED
  BY <1>1, <1>2 DEF FeedInv

LEMMA FeedInvHolds == FeedSpec => []FeedInv
<1>1. FeedInit => FeedInv
  BY FeedInitInv
<1>2. FeedInv /\ [FeedNext]_feedVars => FeedInv'
  BY FeedNextInv
<1> QED
  BY <1>1, <1>2, PTL DEF FeedSpec

-----------------------------------------------------------------------------
(* The composition, its publisher and network included, is a Subscriber     *)
(* among others: everything SubscriberProofs proves of a receiver in an     *)
(* open environment holds of this one.                                      *)
THEOREM FeedIsSubscriber == FeedSpec => Spec
<1>1. FeedInit => Init
  BY DEF FeedInit
<1>2. FeedInv /\ [FeedNext]_feedVars => [Next]_subscriberVars
  BY FeedStep
<1> QED
  BY <1>1, <1>2, FeedInvHolds, PTL DEF FeedSpec, Spec

(* Hence, over this network and with this server, the receiver still hands  *)
(* each message over once and in order, or counts it lost, but never both.  *)
THEOREM FeedSettledOnce == FeedSpec => []ExactlyOnceInOrder
BY FeedIsSubscriber, SettledExactlyOnce, PTL

(* Every request on its way and every answer on its way back is about a     *)
(* sequence below one already heard.                                        *)
THEOREM AskedBelowSeen == FeedSpec => []AsksBelowSeen
<1>1. ASSUME FeedInv PROVE AsksBelowSeen
  <2>1. requests[Repair] \in Seq(Askable) /\ frames[Repair] \in Seq(Usable)
    BY <1>1 DEF FeedInv, ConnectionInv
  <2>2. ASSUME NEW i \in DOMAIN requests[Repair], NEW s \in Range(requests[Repair][i].sequences)
        PROVE  s < seen[requests[Repair][i].bucket]
    <3>1. requests[Repair][i] \in Askable
      BY <2>1
    <3> QED
      BY <2>2, <3>1 DEF Askable, Range
  <2>3. ASSUME NEW i \in DOMAIN frames[Repair]
        PROVE  frames[Repair][i].sequence < seen[frames[Repair][i].bucket]
    <3>1. frames[Repair][i] \in Usable
      BY <2>1
    <3> QED
      BY <3>1 DEF Usable
  <2> QED
    BY <2>2, <2>3 DEF AsksBelowSeen
<1> QED
  BY <1>1, FeedInvHolds, PTL

(* Every request that reaches the server is one it accepts: a joined bucket, *)
(* between one and MAX_REPAIR_BATCH sequences, each a real one, ascending.   *)
AsksAreAccepted ==
  \A i \in DOMAIN requests[Repair] :
    requests[Repair][i] \in Server!Request \ {Server!Malformed}

(* serve_one_client never hangs up on our receiver for a malformed request. *)
THEOREM ServerNeverRejects == FeedSpec => []AsksAreAccepted
<1>1. ASSUME FeedInv, NEW i \in DOMAIN requests[Repair]
      PROVE  requests[Repair][i] \in Server!Request \ {Server!Malformed}
  <2>1. requests[Repair][i] \in Askable
    BY <1>1 DEF FeedInv, ConnectionInv
  <2>2. /\ requests[Repair][i] \in [bucket : Bucket, sequences : Server!Batch]
        /\ requests[Repair][i].bucket \in Bucket
    BY <2>1 DEF Askable
  <2>3. requests[Repair][i].bucket # 0
    BY <2>2, ConstantTypes
  <2> QED
    BY <2>2, <2>3 DEF Server!Request, Server!Malformed
<1>2. FeedInv => AsksAreAccepted
  BY <1>1 DEF AsksAreAccepted
<1> QED
  BY <1>2, FeedInvHolds, PTL

(* Nothing is heard that was not published, and neither what is parked nor  *)
(* what has been handed to the caller goes beyond what was.                 *)
HeardWasPublished ==
  \A b \in Bucket :
    /\ seen[b] <= published[b]
    /\ \A s \in parked[b] \cup Range(delivered[b]) : s <= published[b]

(* The receiver never hears of, parks or delivers a message before it exists. *)
THEOREM NothingInvented == FeedSpec => []HeardWasPublished
<1>1. ASSUME FeedInv, DeliveredWasHeard, NEW b \in Bucket
      PROVE  /\ seen[b] <= published[b]
             /\ \A s \in parked[b] \cup Range(delivered[b]) : s <= published[b]
  <2>1. seen[b] <= published[b] /\ seen[b] \in Nat /\ published[b] \in Nat
    BY <1>1, HeardType DEF FeedInv, StreamInv
  <2>2. \A s \in parked[b] : s \in Nat /\ s <= seen[b]
    BY <1>1, BucketTypes DEF FeedInv, Inv, BucketInv, InWindow
  <2>3. \A s \in Range(delivered[b]) : s \in Nat /\ s <= seen[b]
    <3>1. delivered[b] \in Seq(Nat)
      BY <1>1, BucketTypes DEF FeedInv, Inv
    <3> QED
      BY <1>1, <3>1 DEF DeliveredWasHeard, Range
  <2> QED
    BY <2>1, <2>2, <2>3
<1>2. FeedInv /\ DeliveredWasHeard => HeardWasPublished
  BY <1>1 DEF HeardWasPublished
<1> QED
  BY <1>2, FeedInvHolds, FeedIsSubscriber, HeardBeforeDelivered, PTL

(* A step writes a sequence off only if it was chased for the whole of      *)
(* REPAIR_GIVEUP_MS or if the publisher has overwritten it: the answer      *)
(* "gone" is never given for a message that is still in the ring or is yet  *)
(* to be published.                                                         *)
THEOREM WrittenOffAlwaysForAReason == FeedSpec => WrittenOffForAReason
<1> DEFINE A == \A b \in Bucket : \A s \in gone'[b] \ gone[b] :
                  s \in Expired(b) \/ s <= published[b] - RingSize
<1>1. ASSUME FeedInv, [FeedNext]_feedVars PROVE A
  <2>1. gone \in [Bucket -> SUBSET (Nat \ {0})]
    BY <1>1 DEF FeedInv, Inv, TypeOK
  <2>2. CASE UNCHANGED gone
    BY <2>2
  <2>3. ASSUME NEW c \in Bucket, WriteOff(c) PROVE A
    BY <2>1, <2>3 DEF WriteOff
  <2>4. CASE ReadFrame
    <3> DEFINE f == Head(frames[Repair])
    <3>1. frames[Repair] # <<>> /\ AcceptFrame(f.bucket, f.sequence, f.inRing)
      BY <2>4 DEF ReadFrame
    <3>2. f.bucket \in Bucket /\ (~f.inRing => f.sequence <= published[f.bucket] - RingSize)
      BY <1>1, <3>1, FrontFrame
    <3> HIDE DEF f
    <3>3. \/ UNCHANGED gone
          \/ ~f.inRing /\ gone' = [gone EXCEPT ![f.bucket] = gone[f.bucket] \cup {f.sequence}]
      BY <3>1 DEF AcceptFrame
    <3> QED
      BY <2>1, <3>2, <3>3
  <2>5. ASSUME NEW c \in Bucket, SkipGone(c) PROVE A
    BY <2>1, <2>5 DEF SkipGone
  <2>6. CASE PublisherStep
    BY <2>2, <2>6 DEF PublisherStep, Publish, Finish, FinishAgain, PublisherExits, Serve, HangUp,
                      subscriberVars
  <2>7. CASE ReceiverStep
    <3>1. \/ UNCHANGED gone \/ ReadFrame
          \/ \E c \in Bucket : WriteOff(c) \/ SkipGone(c)
      BY <2>7 DEF ReceiverStep, Wake, UdpDrained, ReceiveDatagram, AcceptOrderMessage, TcpDrained,
           SeeClosed, PeerClosed, Parsed, NakQuiet, SendRequest, NakSent, RequestFails, NakFailed,
           DeliverParked, DeliverEnds
    <3> QED
      BY <2>2, <2>3, <2>4, <2>5, <3>1
  <2>8. CASE Interrupted \/ Tick \/ Returned \/ UNCHANGED feedVars
    <3>1. UNCHANGED gone
      BY <2>8 DEF Interrupted, Tick, Returned, subscriberVars, feedVars
    <3> QED
      BY <2>2, <3>1
  <2> QED
    BY <1>1, <2>6, <2>7, <2>8 DEF FeedNext
<1> HIDE DEF A
<1>2. FeedInv /\ [FeedNext]_feedVars => [A]_feedVars
  BY <1>1
<1>3. FeedSpec => [][A]_feedVars
  BY <1>2, FeedInvHolds, PTL DEF FeedSpec
<1> QED
  BY <1>3 DEF A, WrittenOffForAReason
=============================================================================
