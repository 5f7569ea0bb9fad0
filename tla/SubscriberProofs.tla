--------------------------- MODULE SubscriberProofs ---------------------------
(***************************************************************************)
(* What Subscriber promises for every number of buckets, every stream       *)
(* length, every batch size and every setting of the timers.                *)
(***************************************************************************)
EXTENDS Subscriber, TLAPS

(* A map of holes, as nak() and accept_OrderMessage() rewrite it.           *)
HoleMap(h) == h \in [DOMAIN h -> Hole] /\ DOMAIN h \subseteq Nat \ {0}

LEMMA ConstantTypes ==
  /\ Bucket = 1..NumBuckets /\ NumBuckets \in Nat \ {0}
  /\ End \in [Bucket -> Nat \ {0}]
  /\ FirstExpected \in Nat /\ Backfill \in Nat
  /\ NakRepeat \in Nat /\ RepairRetry \in Nat /\ GiveUp \in Nat
BY SubscriberAssumption DEF Bucket

(* g is h without S; h with fresh holes for S; h with the same ages.         *)
Erased(g, h, S) ==
  HoleMap(g) /\ DOMAIN g = DOMAIN h \ S /\ \A s \in DOMAIN h \ S : g[s] = h[s]

Widened(g, h, S) ==
  /\ HoleMap(g) /\ DOMAIN g = DOMAIN h \cup S
  /\ \A s \in DOMAIN h \ S : g[s] = h[s]
  /\ \A s \in S : g[s] = NewHole

SameAges(g, h) ==
  /\ HoleMap(g) /\ DOMAIN g = DOMAIN h
  /\ \A s \in DOMAIN h : g[s].noticed = h[s].noticed

(* Erasing holes keeps the others as they are.                              *)
LEMMA UnlessLemma ==
  ASSUME NEW h, NEW S, HoleMap(h)
  PROVE  Erased(Unless(h, S), h, S)
BY DEF HoleMap, Unless, Restrict, Erased

LEMMA NewHoleType == NewHole \in Hole /\ NewHole.noticed = 0
BY ConstantTypes DEF NewHole, Hole, NotAsked

(* Noticing gaps adds fresh holes and keeps the others as they are.         *)
LEMMA WithNewLemma ==
  ASSUME NEW h, NEW S \in SUBSET (Nat \ {0}), HoleMap(h)
  PROVE  Widened(WithNew(h, S), h, S)
BY NewHoleType DEF HoleMap, WithNew, Widened

(* Stamping a request leaves the age of a hole alone.                       *)
LEMMA StampLemma ==
  ASSUME NEW h, NEW S, HoleMap(h)
  PROVE  SameAges(Stamp(h, S), h)
<1>1. \A s \in DOMAIN h : h[s] \in Hole
  BY DEF HoleMap
<1>2. \A s \in DOMAIN h : [h[s] EXCEPT !.asked = 0] \in Hole
                          /\ [h[s] EXCEPT !.asked = 0].noticed = h[s].noticed
  BY <1>1, ConstantTypes DEF Hole, NotAsked
<1> QED
  BY <1>1, <1>2 DEF HoleMap, Stamp, SameAges

(* A tick ages the holes and keeps their order.                             *)
LEMMA AgedLemma ==
  ASSUME NEW h \in Hole
  PROVE  Aged(h) \in Hole /\ Aged(h).noticed = Older(h.noticed, GiveUp + 1)
<1>1. Older(h.noticed, GiveUp + 1) \in 0..(GiveUp + 1)
  BY ConstantTypes DEF Hole, Older
<1>2. ASSUME h.asked # NotAsked PROVE Older(h.asked, NakRepeat + 1) \in NotAsked..(NakRepeat + 1)
  BY <1>2, ConstantTypes DEF Hole, Older, NotAsked
<1> QED
  BY <1>1, <1>2, ConstantTypes DEF Hole, Aged, NotAsked

LEMMA OlderMonotone ==
  ASSUME NEW x \in Int, NEW y \in Int, NEW cap \in Int, x >= y
  PROVE  Older(x, cap) >= Older(y, cap)
BY DEF Older

(* Rewriting the set kept for one bucket.                                   *)
LEMMA SetTyped ==
  ASSUME NEW X, NEW f \in [Bucket -> SUBSET X], NEW b \in Bucket, NEW S \in SUBSET X
  PROVE  [f EXCEPT ![b] = S] \in [Bucket -> SUBSET X]
OBVIOUS

LEMMA ChasedLemma ==
  ASSUME NEW b \in Bucket, TypeOK
  PROVE  /\ HoleMap(holes[b])
         /\ Expired(b) \subseteq DOMAIN holes[b]
         /\ HoleMap(Chased(b))
         /\ DOMAIN Chased(b) = DOMAIN holes[b] \ Expired(b)
         /\ \A s \in DOMAIN Chased(b) : Chased(b)[s] = holes[b][s]
<1>1. HoleMap(holes[b]) /\ Expired(b) \subseteq DOMAIN holes[b]
  BY DEF TypeOK, HoleMap, Expired
<1>2. Erased(Chased(b), holes[b], Expired(b))
  BY <1>1, UnlessLemma DEF Chased
<1> QED
  BY <1>1, <1>2 DEF Erased

(* A stream is taken up at a real sequence number, never past the datagram  *)
(* that was heard: backfill cannot reach below 1.                           *)
LEMMA StartAtLemma ==
  ASSUME NEW s \in Nat \ {0}
  PROVE  StartAt(s) \in 1..s
BY ConstantTypes DEF StartAt

LEMMA ExpectedType ==
  ASSUME TypeOK, NEW b \in Bucket, NEW s \in Nat \ {0}
  PROVE  Expected(b, s) \in Nat \ {0}
BY StartAtLemma DEF Expected, TypeOK

LEMMA MissingType ==
  ASSUME TypeOK, NEW b \in Bucket, NEW s \in Nat \ {0}
  PROVE  Missing(b, s) \in SUBSET (Nat \ {0})
BY ExpectedType DEF Missing

-----------------------------------------------------------------------------
(* Type correctness.                                                        *)

LEMMA InitTypeOK == Init => TypeOK
<1> SUFFICES ASSUME Init PROVE TypeOK
  OBVIOUS
<1>1. DOMAIN holes = Bucket /\ \A b \in Bucket : holes[b] = [s \in {} |-> NewHole]
  BY DEF Init
<1>2. \A b \in Bucket : holes[b] \in [DOMAIN holes[b] -> Hole] /\ DOMAIN holes[b] \subseteq Nat \ {0}
  BY <1>1
<1>3. turn \in Bucket /\ blocked \in 0..RepairRetry
  BY ConstantTypes DEF Init
<1>4. nextSequence \in [Bucket -> Nat \ {0}] /\ start \in [Bucket -> Nat]
  BY ConstantTypes DEF Init
<1>5. delivered \in [Bucket -> Seq(Nat)]
  BY DEF Init
<1>6. /\ parked \in [Bucket -> SUBSET (Nat \ {0})] /\ gone \in [Bucket -> SUBSET (Nat \ {0})]
      /\ lost \in [Bucket -> SUBSET Nat]
  BY DEF Init
<1>7. done \in [Bucket -> BOOLEAN] /\ connected \in BOOLEAN
  BY Zenon DEF Init
<1>9. synced \in [Bucket -> BOOLEAN]
  <2>1. synced = [b \in Bucket |-> FirstExpected > 0]
    BY DEF Init
  <2>2. (FirstExpected > 0) \in BOOLEAN
    BY SMT
  <2> QED BY <2>1, <2>2, Zenon
<1>8. seen \in [Bucket -> Nat] /\ phase = "poll"
  BY DEF Init
<1> QED
  BY <1>1, <1>2, <1>3, <1>4, <1>5, <1>6, <1>7, <1>8, <1>9 DEF TypeOK

LEMMA AdvanceType ==
  ASSUME TypeOK, NEW p, NEW q, Advance(p, q)
  PROVE  turn' \in Bucket /\ phase' \in {p, q}
<1>1. turn \in Bucket
  BY DEF TypeOK
<1>2. CASE turn < NumBuckets
  <2>1. phase' = p /\ turn' = turn + 1
    BY <1>2 DEF Advance
  <2> QED
    BY <1>1, <1>2, <2>1, ConstantTypes
<1>3. CASE ~(turn < NumBuckets)
  <2>1. phase' = q /\ turn' = 1
    BY <1>3 DEF Advance
  <2> QED
    BY <2>1, ConstantTypes
<1> QED
  BY <1>2, <1>3

(* The part of TypeOK about the holes, for a step that rewrites one bucket. *)
LEMMA HolesTyped ==
  ASSUME TypeOK, NEW b \in Bucket, NEW h, HoleMap(h),
         holes' = [holes EXCEPT ![b] = h]
  PROVE  /\ DOMAIN holes' = Bucket
         /\ \A c \in Bucket : holes'[c] \in [DOMAIN holes'[c] -> Hole]
                              /\ DOMAIN holes'[c] \subseteq Nat \ {0}
<1>1. DOMAIN holes' = Bucket /\ \A c \in Bucket : holes'[c] = IF c = b THEN h ELSE holes[c]
  BY DEF TypeOK
<1> QED
  BY <1>1 DEF TypeOK, HoleMap

LEMMA NextTypeOK == TypeOK /\ [Next]_subscriberVars => TypeOK'
<1> SUFFICES ASSUME TypeOK, [Next]_subscriberVars PROVE TypeOK'
  OBVIOUS
<1>1. CASE Wake
  <2>1. 1 \in Bucket
    BY ConstantTypes
  <2> QED
    BY <1>1, <2>1 DEF Wake, TypeOK, repairVars
<1>2. CASE Interrupted
  BY <1>2 DEF Interrupted, TypeOK, repairVars
<1>3. CASE UdpDrained
  BY <1>3, AdvanceType DEF UdpDrained, TypeOK, repairVars
<1>4. ASSUME NEW b \in Bucket, NEW s \in 1..End[b], AcceptOrderMessage(b, s) PROVE TypeOK'
  <2>1. s \in Nat \ {0}
    BY ConstantTypes
  <2>2. Expected(b, s) \in Nat \ {0} /\ StartAt(s) \in Nat
    BY <2>1, ExpectedType, StartAtLemma
  <2>3. nextSequence' \in [Bucket -> Nat \ {0}] /\ start' \in [Bucket -> Nat]
        /\ synced' \in [Bucket -> BOOLEAN] /\ seen' \in [Bucket -> Nat]
    BY <1>4, <2>1, <2>2 DEF AcceptOrderMessage, TypeOK
  <2>4. parked' \in [Bucket -> SUBSET (Nat \ {0})]
    <3>1. parked[b] \cup {s} \in SUBSET (Nat \ {0})
      BY <2>1 DEF TypeOK
    <3>2. parked \in [Bucket -> SUBSET (Nat \ {0})]
      BY DEF TypeOK
    <3> QED BY <1>4, <3>1, <3>2, SetTyped DEF AcceptOrderMessage
  <2>5. HoleMap(Unless(WithNew(holes[b], Missing(b, s)), {s}))
    <3>1. HoleMap(holes[b])
      BY DEF TypeOK, HoleMap
    <3>2. HoleMap(WithNew(holes[b], Missing(b, s)))
      BY <3>1, <2>1, MissingType, WithNewLemma DEF Widened
    <3> QED BY <3>2, UnlessLemma DEF Erased
  <2>6. /\ DOMAIN holes' = Bucket
        /\ \A c \in Bucket : holes'[c] \in [DOMAIN holes'[c] -> Hole]
                             /\ DOMAIN holes'[c] \subseteq Nat \ {0}
    <3>1. CASE holes' = holes
      BY <3>1 DEF TypeOK
    <3>2. CASE holes' = [holes EXCEPT ![b] = Unless(WithNew(holes[b], Missing(b, s)), {s})]
      BY <3>2, <2>5, HolesTyped
    <3> QED BY <3>1, <3>2, <1>4 DEF AcceptOrderMessage
  <2> QED
    BY <1>4, <2>3, <2>4, <2>6 DEF AcceptOrderMessage, TypeOK, repairVars, loopVars
<1>5. CASE TcpDrained
  BY <1>5 DEF TcpDrained, TypeOK, repairVars
<1>6. CASE PeerClosed
  BY <1>6 DEF PeerClosed, ResetRepair, TypeOK
<1>7. CASE BadFrame
  BY <1>7 DEF BadFrame, ResetRepair, TypeOK
<1>8. CASE Parsed
  BY <1>8 DEF Parsed, TypeOK, repairVars
<1>9. ASSUME NEW b \in Bucket, NEW s \in 1..End[b], NEW r \in BOOLEAN, AcceptFrame(b, s, r)
      PROVE TypeOK'
  <2>1. s \in Nat \ {0}
    BY ConstantTypes
  <2>2. HoleMap(Unless(holes[b], {s}))
    <3>1. HoleMap(holes[b])
      BY DEF TypeOK, HoleMap
    <3> QED BY <3>1, UnlessLemma DEF Erased
  <2>3. /\ DOMAIN holes' = Bucket
        /\ \A c \in Bucket : holes'[c] \in [DOMAIN holes'[c] -> Hole]
                             /\ DOMAIN holes'[c] \subseteq Nat \ {0}
    BY <2>2, <1>9, HolesTyped DEF AcceptFrame
  <2>4. parked' \in [Bucket -> SUBSET (Nat \ {0})] /\ gone' \in [Bucket -> SUBSET (Nat \ {0})]
    <3>1. parked[b] \cup {s} \in SUBSET (Nat \ {0}) /\ gone[b] \cup {s} \in SUBSET (Nat \ {0})
      BY <2>1 DEF TypeOK
    <3>2. parked \in [Bucket -> SUBSET (Nat \ {0})] /\ gone \in [Bucket -> SUBSET (Nat \ {0})]
      BY DEF TypeOK
    <3> QED BY <1>9, <3>1, <3>2, SetTyped DEF AcceptFrame
  <2> QED
    BY <1>9, <2>3, <2>4 DEF AcceptFrame, TypeOK, repairVars, loopVars
<1>10. ASSUME NEW b \in Bucket, NakQuiet(b) \/ NakSent(b) \/ NakFailed(b) PROVE TypeOK'
  <2>1. HoleMap(Chased(b)) /\ HoleMap(Stamp(Chased(b), ToRequest(b)))
    BY ChasedLemma, StampLemma DEF SameAges
  <2>2. /\ DOMAIN holes' = Bucket
        /\ \A c \in Bucket : holes'[c] \in [DOMAIN holes'[c] -> Hole]
                             /\ DOMAIN holes'[c] \subseteq Nat \ {0}
    BY <1>10, <2>1, HolesTyped DEF NakQuiet, NakSent, NakFailed
  <2>3. gone' \in [Bucket -> SUBSET (Nat \ {0})]
    <3>1. Expired(b) \in SUBSET (Nat \ {0})
      BY ChasedLemma DEF HoleMap
    <3>2. gone \in [Bucket -> SUBSET (Nat \ {0})]
      BY DEF TypeOK
    <3>3. gone[b] \cup Expired(b) \in SUBSET (Nat \ {0})
      BY <3>1, <3>2
    <3>4. gone' = [gone EXCEPT ![b] = gone[b] \cup Expired(b)]
      BY <1>10 DEF NakQuiet, NakSent, NakFailed, WriteOff
    <3> QED BY <3>2, <3>3, <3>4, SetTyped
  <2>4. blocked' \in 0..RepairRetry /\ connected' \in BOOLEAN
    <3>1. RepairRetry \in 0..RepairRetry
      BY ConstantTypes
    <3>2. blocked \in 0..RepairRetry /\ connected \in BOOLEAN
      BY DEF TypeOK
    <3> QED
      BY <1>10, <3>1, <3>2 DEF NakQuiet, NakSent, NakFailed, ResetRepair, repairVars
  <2> QED
    BY <1>10, <2>2, <2>3, <2>4 DEF NakQuiet, NakSent, NakFailed, TypeOK
<1>11. ASSUME NEW b \in Bucket, DeliverParked(b) PROVE TypeOK'
  <2>1. nextSequence[b] \in Nat \ {0} /\ nextSequence[b] + 1 \in Nat \ {0}
    BY DEF TypeOK
  <2>2. delivered' \in [Bucket -> Seq(Nat)]
    <3>1. Append(delivered[b], nextSequence[b]) \in Seq(Nat)
      BY <2>1 DEF TypeOK
    <3>2. delivered \in [Bucket -> Seq(Nat)]
      BY DEF TypeOK
    <3>3. CASE delivered' = delivered
      BY <3>2, <3>3
    <3>4. CASE delivered' = [delivered EXCEPT ![b] = Append(delivered[b], nextSequence[b])]
      BY <3>1, <3>2, <3>4
    <3> QED BY <3>3, <3>4, <1>11 DEF DeliverParked
  <2>3. nextSequence' \in [Bucket -> Nat \ {0}] /\ done' \in [Bucket -> BOOLEAN]
    BY <2>1, <1>11 DEF DeliverParked, TypeOK
  <2>4. parked' \in [Bucket -> SUBSET (Nat \ {0})]
    <3>1. parked[b] \ {nextSequence[b]} \in SUBSET (Nat \ {0})
      BY DEF TypeOK
    <3>2. parked \in [Bucket -> SUBSET (Nat \ {0})]
      BY DEF TypeOK
    <3> QED BY <1>11, <3>1, <3>2, SetTyped DEF DeliverParked
  <2> QED
    BY <1>11, <2>2, <2>3, <2>4 DEF DeliverParked, TypeOK, repairVars, loopVars
<1>12. ASSUME NEW b \in Bucket, SkipGone(b) PROVE TypeOK'
  <2>1. nextSequence[b] \in Nat \ {0} /\ nextSequence[b] + 1 \in Nat \ {0}
    BY DEF TypeOK
  <2>2. nextSequence' \in [Bucket -> Nat \ {0}] /\ lost' \in [Bucket -> SUBSET Nat]
        /\ gone' \in [Bucket -> SUBSET (Nat \ {0})]
    BY <2>1, <1>12 DEF SkipGone, TypeOK
  <2> QED
    BY <1>12, <2>2 DEF SkipGone, TypeOK, repairVars, loopVars
<1>13. ASSUME NEW b \in Bucket, DeliverEnds(b) PROVE TypeOK'
  <2>1. turn' \in Bucket /\ phase' \in {"nak", "ended", "poll"}
    BY <1>13, AdvanceType DEF DeliverEnds
  <2> QED
    BY <1>13, <2>1 DEF DeliverEnds, TypeOK, repairVars
<1>14. CASE Tick
  <2>1. /\ DOMAIN holes' = Bucket
        /\ \A c \in Bucket : holes'[c] = [s \in DOMAIN holes[c] |-> Aged(holes[c][s])]
    BY <1>14 DEF Tick
  <2>2. \A c \in Bucket : \A s \in DOMAIN holes[c] : Aged(holes[c][s]) \in Hole
    BY AgedLemma DEF TypeOK
  <2>3. \A c \in Bucket : /\ DOMAIN holes'[c] = DOMAIN holes[c]
                          /\ holes'[c] \in [DOMAIN holes'[c] -> Hole]
    BY <2>1, <2>2
  <2>4. blocked' \in 0..RepairRetry
    BY <1>14, ConstantTypes DEF Tick, TypeOK
  <2> QED
    BY <1>14, <2>1, <2>3, <2>4 DEF Tick, TypeOK, loopVars
<1>15. CASE UNCHANGED subscriberVars
  BY <1>15 DEF subscriberVars, TypeOK, repairVars, loopVars
<1> QED
  BY <1>1, <1>2, <1>3, <1>4, <1>5, <1>6, <1>7, <1>8, <1>9, <1>10, <1>11, <1>12,
     <1>13, <1>14, <1>15 DEF Next, Returned

(* The receiver's fields keep their types whatever the network and the      *)
(* repair server do.                                                        *)
THEOREM TypeCorrect == Spec => []TypeOK
<1>1. Init => TypeOK
  BY InitTypeOK
<1>2. TypeOK /\ [Next]_subscriberVars => TypeOK'
  BY NextTypeOK
<1> QED
  BY <1>1, <1>2, PTL DEF Spec

-----------------------------------------------------------------------------
(* The inductive invariant, one conjunct per idea, for each bucket.         *)

(* Before the first datagram of a live join the bucket is empty.            *)
Untuned(b) ==
  ~synced[b] => /\ FirstExpected = 0
                /\ parked[b] = {} /\ gone[b] = {} /\ DOMAIN holes[b] = {}
                /\ seen[b] = 0 /\ ~done[b]
                /\ delivered[b] = <<>> /\ lost[b] = {}

(* Everything the bucket keeps lies between the delivery point and the      *)
(* highest sequence heard; `gone' alone may keep entries already passed.    *)
InWindow(b) ==
  /\ synced[b] => start[b] \in 1..nextSequence[b]
  /\ seen[b] <= End[b]
  /\ \A s \in parked[b] : nextSequence[b] <= s /\ s <= seen[b]
  /\ \A s \in gone[b] : s < seen[b]
  /\ \A s \in DOMAIN holes[b] : nextSequence[b] <= s /\ s < seen[b]

Covered(b) ==
  synced[b] =>
    \A s \in nextSequence[b]..seen[b] : s \in parked[b] \cup gone[b] \cup DOMAIN holes[b]

StillMissing(b) == \A s \in DOMAIN holes[b] : s \notin parked[b] /\ s \notin gone[b]

Aging(b) ==
  \A s, t \in DOMAIN holes[b] : s < t => holes[b][s].noticed >= holes[b][t].noticed

Settled(b) ==
  /\ \A i, j \in DOMAIN delivered[b] : i < j => delivered[b][i] < delivered[b][j]
  /\ Range(delivered[b]) \cap lost[b] = {}
  /\ synced[b] => Range(delivered[b]) \cup lost[b]
                     = (start[b]..(nextSequence[b] - 1)) \ {End[b]}
  /\ done[b] => nextSequence[b] = End[b] + 1

BucketInv(b) ==
  /\ Untuned(b) /\ InWindow(b) /\ Covered(b) /\ StillMissing(b) /\ Aging(b)
  /\ Settled(b)

Inv == TypeOK /\ \A b \in Bucket : BucketInv(b)

(* What TypeOK says of one bucket, in the form the steps below use.         *)
LEMMA BucketTypes ==
  ASSUME TypeOK, NEW b \in Bucket
  PROVE  /\ nextSequence[b] \in Nat \ {0} /\ seen[b] \in Nat /\ start[b] \in Nat
         /\ End[b] \in Nat \ {0}
         /\ synced[b] \in BOOLEAN /\ done[b] \in BOOLEAN
         /\ parked[b] \subseteq Nat \ {0} /\ gone[b] \subseteq Nat \ {0}
         /\ HoleMap(holes[b]) /\ DOMAIN holes[b] \subseteq Nat \ {0}
         /\ delivered[b] \in Seq(Nat) /\ lost[b] \subseteq Nat
         /\ \A s \in DOMAIN holes[b] : holes[b][s] \in Hole /\ holes[b][s].noticed \in Nat
<1>1. \A s \in DOMAIN holes[b] : holes[b][s] \in Hole
  BY DEF TypeOK
<1>2. \A h \in Hole : h.noticed \in Nat
  BY ConstantTypes DEF Hole
<1>3. HoleMap(holes[b])
  BY DEF TypeOK, HoleMap
<1> QED
  BY <1>1, <1>2, <1>3, ConstantTypes DEF TypeOK

(* A bucket whose variables a step leaves alone keeps its invariant.        *)
LEMMA Untouched ==
  ASSUME NEW b \in Bucket, BucketInv(b),
         nextSequence'[b] = nextSequence[b], synced'[b] = synced[b], done'[b] = done[b],
         parked'[b] = parked[b], gone'[b] = gone[b], holes'[b] = holes[b],
         start'[b] = start[b], seen'[b] = seen[b],
         delivered'[b] = delivered[b], lost'[b] = lost[b]
  PROVE  BucketInv(b)'
BY DEF BucketInv, Untuned, InWindow, Covered, StillMissing, Aging, Settled

LEMMA RangeAppend ==
  ASSUME NEW q \in Seq(Nat), NEW n \in Nat
  PROVE  Range(Append(q, n)) = Range(q) \cup {n}
<1>1. DOMAIN Append(q, n) = 1..(Len(q) + 1) /\ DOMAIN q = 1..Len(q) /\ Len(q) \in Nat
  OBVIOUS
<1>2. \A i \in 1..Len(q) : Append(q, n)[i] = q[i]
  OBVIOUS
<1>3. Append(q, n)[Len(q) + 1] = n
  OBVIOUS
<1>4. 1..(Len(q) + 1) = (1..Len(q)) \cup {Len(q) + 1}
  BY <1>1
<1> QED
  BY <1>1, <1>2, <1>3, <1>4 DEF Range

LEMMA InitInv == Init => Inv
<1> SUFFICES ASSUME Init, NEW b \in Bucket PROVE BucketInv(b)
  BY InitTypeOK DEF Inv
<1>1. /\ parked[b] = {} /\ gone[b] = {} /\ DOMAIN holes[b] = {} /\ seen[b] = 0 /\ ~done[b]
      /\ delivered[b] = <<>> /\ lost[b] = {} /\ start[b] = FirstExpected
  BY DEF Init
<1>2. synced[b] <=> FirstExpected > 0
  BY DEF Init
<1>3. nextSequence[b] = IF FirstExpected > 0 THEN FirstExpected ELSE 1
  BY DEF Init
<1>4. Range(delivered[b]) = {} /\ DOMAIN delivered[b] = {}
  BY <1>1 DEF Range
<1>5. Untuned(b)
  BY <1>1, <1>2, ConstantTypes DEF Untuned
<1>6. InWindow(b) /\ Covered(b)
  BY <1>1, <1>2, <1>3, ConstantTypes DEF InWindow, Covered
<1>7. StillMissing(b) /\ Aging(b)
  BY <1>1 DEF StillMissing, Aging
<1>8. Settled(b)
  <2>1. synced[b] => start[b]..(nextSequence[b] - 1) = {}
    BY <1>1, <1>2, <1>3, ConstantTypes
  <2> QED
    BY <1>1, <1>4, <2>1 DEF Settled
<1> QED
  BY <1>5, <1>6, <1>7, <1>8 DEF BucketInv

(* A bucket that has heard something is tuned in.                           *)
LEMMA HeardIsSynced ==
  ASSUME TypeOK, NEW b \in Bucket, BucketInv(b), seen[b] # 0 \/ parked[b] # {} \/ gone[b] # {}
  PROVE  synced[b]
BY DEF BucketInv, Untuned

(* accept_OrderMessage(): the sequences newly noticed missing lie above     *)
(* everything heard so far, hence above every hole already chased.          *)
LEMMA MissingAboveSeen ==
  ASSUME TypeOK, NEW b \in Bucket, BucketInv(b), NEW s \in Nat \ {0}
  PROVE  \A m \in Missing(b, s) : seen[b] < m /\ Expected(b, s) <= m /\ m < s
<1>1. Expected(b, s) \in Nat \ {0}
  BY ExpectedType
<1>2. CASE synced[b]
  <2>1. Expected(b, s) = nextSequence[b]
    BY <1>2 DEF Expected
  <2> QED
    BY <1>1, <1>2, <2>1, BucketTypes DEF BucketInv, Covered, Missing
<1>3. CASE ~synced[b]
  BY <1>1, <1>3 DEF BucketInv, Untuned, Missing
<1> QED
  BY <1>2, <1>3

LEMMA AcceptOrderMessageInv ==
  ASSUME Inv, NEW b \in Bucket, NEW s \in 1..End[b], AcceptOrderMessage(b, s)
  PROVE  BucketInv(b)'
<1> DEFINE E == Expected(b, s)
           M == Missing(b, s)
           h == Unless(WithNew(holes[b], M), {s})
<1>1. TypeOK /\ BucketInv(b) /\ s \in Nat \ {0} /\ s <= End[b]
  BY ConstantTypes DEF Inv
<1>2. E \in Nat \ {0} /\ (synced[b] => E = nextSequence[b]) /\ (~synced[b] => E = StartAt(s) /\ E <= s)
  BY <1>1, ExpectedType, StartAtLemma DEF Expected
<1>3. /\ nextSequence'[b] = E /\ synced'[b]
      /\ start'[b] = (IF synced[b] THEN start[b] ELSE E)
      /\ seen'[b] = (IF s > seen[b] THEN s ELSE seen[b])
      /\ done'[b] = done[b] /\ gone'[b] = gone[b]
      /\ delivered'[b] = delivered[b] /\ lost'[b] = lost[b]
  BY <1>2 DEF AcceptOrderMessage, Inv, TypeOK, Expected
<1>4. \A m \in M : seen[b] < m /\ E <= m /\ m < s /\ m \in Nat \ {0}
  BY <1>1, <1>2, MissingAboveSeen, MissingType
<1>5. \/ Duplicate(b, s) /\ parked'[b] = parked[b] /\ holes'[b] = holes[b]
      \/ ~Duplicate(b, s) /\ parked'[b] = parked[b] \cup {s} /\ holes'[b] = h
  BY DEF AcceptOrderMessage, Inv, TypeOK
<1>6. Settled(b)'
  <2>1. CASE synced[b]
    BY <1>1, <1>2, <1>3, <2>1 DEF BucketInv, Settled
  <2>2. CASE ~synced[b]
    <3>1. delivered[b] = <<>> /\ lost[b] = {} /\ ~done[b]
      BY <1>1, <2>2 DEF BucketInv, Untuned
    <3>2. Range(delivered[b]) = {} /\ E..(E - 1) = {} /\ DOMAIN delivered[b] = {}
      BY <1>2, <3>1 DEF Range
    <3> QED
      BY <1>3, <2>2, <3>1, <3>2 DEF Settled
  <2> QED BY <2>1, <2>2
<1>7. Untuned(b)'
  BY <1>3 DEF Untuned
<1>8. CASE Duplicate(b, s) /\ parked'[b] = parked[b] /\ holes'[b] = holes[b]
  <2>1. synced[b]
    BY <1>1, <1>2, <1>8 DEF Duplicate, BucketInv, Untuned
  <2>2. E = nextSequence[b] /\ (s < nextSequence[b] \/ s <= seen[b])
    BY <1>1, <1>2, <1>8, <2>1 DEF Duplicate, BucketInv, InWindow
  <2>3. InWindow(b)'
    BY <1>1, <1>3, <1>8, <2>1, <2>2, BucketTypes DEF BucketInv, InWindow
  <2>4. Covered(b)'
    BY <1>1, <1>3, <1>8, <2>1, <2>2, BucketTypes DEF BucketInv, Covered
  <2>5. StillMissing(b)' /\ Aging(b)'
    BY <1>1, <1>3, <1>8 DEF BucketInv, StillMissing, Aging
  <2> QED
    BY <1>6, <1>7, <2>3, <2>4, <2>5 DEF BucketInv
<1>9. CASE ~Duplicate(b, s) /\ parked'[b] = parked[b] \cup {s} /\ holes'[b] = h
  <2>1. E <= s /\ s \notin parked[b]
    BY <1>1, <1>2, <1>9 DEF Duplicate
  <2>2. /\ DOMAIN h = (DOMAIN holes[b] \cup M) \ {s}
        /\ \A t \in DOMAIN holes[b] \ (M \cup {s}) : h[t] = holes[b][t]
        /\ \A t \in M \ {s} : h[t] = NewHole
    <3>1. HoleMap(holes[b]) /\ M \in SUBSET (Nat \ {0})
      BY <1>1, <1>4, BucketTypes
    <3>2. Widened(WithNew(holes[b], M), holes[b], M)
      BY <3>1, WithNewLemma
    <3>3. Erased(h, WithNew(holes[b], M), {s})
      BY <3>2, UnlessLemma DEF Widened
    <3> HIDE DEF h, M
    <3> QED BY <3>2, <3>3 DEF Widened, Erased
  <2>3. InWindow(b)'
    <3>1. synced'[b] => start'[b] \in 1..nextSequence'[b]
      BY <1>1, <1>2, <1>3 DEF BucketInv, InWindow
    <3>2. seen'[b] <= End[b] /\ seen[b] <= seen'[b] /\ s <= seen'[b] /\ seen'[b] \in Nat
      BY <1>1, <1>3, BucketTypes DEF BucketInv, InWindow
    <3>3. \A t \in parked[b] \cup {s} : E <= t /\ t <= seen'[b]
      BY <1>1, <1>2, <1>9, <2>1, <3>2, BucketTypes DEF BucketInv, InWindow, Untuned
    <3>4. \A t \in gone[b] : t < seen'[b]
      BY <1>1, <3>2, BucketTypes DEF BucketInv, InWindow
    <3>5. \A t \in (DOMAIN holes[b] \cup M) \ {s} : E <= t /\ t < seen'[b]
      <4>1. \A t \in M : E <= t /\ t < seen'[b]
        BY <1>2, <1>4, <3>2
      <4>2. \A t \in DOMAIN holes[b] : E <= t /\ t < seen'[b]
        BY <1>1, <1>2, <3>2, BucketTypes DEF BucketInv, InWindow, Untuned
      <4> QED BY <4>1, <4>2
    <3> QED
      BY <1>3, <1>9, <2>2, <3>1, <3>2, <3>3, <3>4, <3>5 DEF InWindow
  <2>4. Covered(b)'
    <3>1. SUFFICES ASSUME NEW m \in E..seen'[b]
                   PROVE  m \in parked[b] \cup {s} \cup gone[b] \cup ((DOMAIN holes[b] \cup M) \ {s})
      BY <1>3, <1>9, <2>2 DEF Covered
    <3>2. CASE m = s
      BY <3>2
    <3>3. CASE m # s /\ m < s
      <4>1. m \in E..(s - 1)
        BY <1>1, <1>2, <3>3
      <4> QED BY <3>3, <4>1 DEF Missing
    <3>4. CASE m > s
      <4>1. m \in nextSequence[b]..seen[b] /\ synced[b]
        BY <1>1, <1>2, <1>3, <3>4, BucketTypes DEF BucketInv, Untuned
      <4> QED BY <1>1, <3>4, <4>1 DEF BucketInv, Covered
    <3> QED BY <1>1, <1>2, <3>2, <3>3, <3>4
  <2>5. StillMissing(b)'
    BY <1>1, <1>3, <1>9, <2>2 DEF BucketInv, StillMissing, Missing
  <2>6. Aging(b)'
    <3>1. SUFFICES ASSUME NEW p \in (DOMAIN holes[b] \cup M) \ {s},
                          NEW t \in (DOMAIN holes[b] \cup M) \ {s}, p < t
                   PROVE  h[p].noticed >= h[t].noticed
      BY <1>9, <2>2 DEF Aging
    <3>2. \A x \in M : x \notin DOMAIN holes[b]
      BY DEF Missing
    <3>3. \A x \in DOMAIN holes[b] : x < seen[b] /\ x \in Nat /\ holes[b][x].noticed \in Nat
      BY <1>1, BucketTypes DEF BucketInv, InWindow
    <3>4. CASE t \in M
      <4>1. h[t].noticed = 0
        BY <2>2, <3>1, <3>4, NewHoleType
      <4>2. h[p].noticed \in Nat
        <5>1. CASE p \in M
          BY <2>2, <3>1, <5>1, NewHoleType
        <5>2. CASE p \in DOMAIN holes[b] \ M
          BY <2>2, <3>1, <3>3, <5>2
        <5> QED BY <3>1, <5>1, <5>2
      <4> QED BY <4>1, <4>2, SMT
    <3>5. CASE t \notin M
      <4>1. p \in DOMAIN holes[b] \ M /\ t \in DOMAIN holes[b] \ M
        BY <1>1, <1>4, <3>1, <3>3, <3>5, BucketTypes
      <4>2. h[p] = holes[b][p] /\ h[t] = holes[b][t]
        BY <2>2, <3>1, <4>1
      <4> QED BY <1>1, <3>1, <4>1, <4>2 DEF BucketInv, Aging
    <3> QED BY <3>4, <3>5
  <2> QED
    BY <1>6, <1>7, <2>3, <2>4, <2>5, <2>6 DEF BucketInv
<1> QED
  BY <1>5, <1>8, <1>9

(* drain_tcp(): a frame turns a hole into a parked or written-off sequence  *)
(* or comes too late to matter.                                             *)
LEMMA AcceptFrameInv ==
  ASSUME Inv, NEW b \in Bucket, NEW s \in 1..End[b], NEW r \in BOOLEAN, AcceptFrame(b, s, r)
  PROVE  BucketInv(b)'
<1>1. TypeOK /\ BucketInv(b) /\ s \in Nat \ {0} /\ s < seen[b]
  BY ConstantTypes DEF Inv, AcceptFrame
<1>2. synced[b]
  BY <1>1, BucketTypes, HeardIsSynced
<1>3. /\ nextSequence'[b] = nextSequence[b] /\ synced'[b] /\ start'[b] = start[b]
      /\ seen'[b] = seen[b] /\ done'[b] = done[b]
      /\ delivered'[b] = delivered[b] /\ lost'[b] = lost[b]
  BY <1>2 DEF AcceptFrame, loopVars
<1>4. /\ DOMAIN holes'[b] = DOMAIN holes[b] \ {s}
      /\ \A t \in DOMAIN holes[b] \ {s} : holes'[b][t] = holes[b][t]
  <2>1. holes'[b] = Unless(holes[b], {s})
    BY <1>1 DEF AcceptFrame, TypeOK
  <2>2. HoleMap(holes[b])
    BY <1>1, BucketTypes
  <2>3. Erased(holes'[b], holes[b], {s})
    BY <2>1, <2>2, UnlessLemma
  <2> QED BY <2>3 DEF Erased
<1>5. \/ s < nextSequence[b] /\ parked'[b] = parked[b] /\ gone'[b] = gone[b]
      \/ s >= nextSequence[b] /\ parked'[b] = parked[b] \cup {s} /\ gone'[b] = gone[b]
      \/ s >= nextSequence[b] /\ parked'[b] = parked[b] /\ gone'[b] = gone[b] \cup {s}
  BY <1>1, BucketTypes DEF AcceptFrame, TypeOK
<1>6. Untuned(b)' /\ Settled(b)'
  BY <1>1, <1>2, <1>3 DEF BucketInv, Untuned, Settled
<1>7. InWindow(b)'
  BY <1>1, <1>2, <1>3, <1>4, <1>5, BucketTypes DEF BucketInv, InWindow
<1>8. Covered(b)'
  BY <1>1, <1>2, <1>3, <1>4, <1>5, BucketTypes DEF BucketInv, Covered
<1>9. StillMissing(b)'
  BY <1>1, <1>4, <1>5, BucketTypes DEF BucketInv, StillMissing
<1>10. Aging(b)'
  BY <1>1, <1>4 DEF BucketInv, Aging
<1> QED
  BY <1>6, <1>7, <1>8, <1>9, <1>10 DEF BucketInv

(* nak(): expired holes move to `gone', the others stay.                    *)
LEMMA NakInv ==
  ASSUME Inv, NEW b \in Bucket, NakQuiet(b) \/ NakSent(b) \/ NakFailed(b)
  PROVE  BucketInv(b)'
<1>1. TypeOK /\ BucketInv(b)
  BY DEF Inv
<1>2. /\ nextSequence'[b] = nextSequence[b] /\ synced'[b] = synced[b] /\ start'[b] = start[b]
      /\ seen'[b] = seen[b] /\ done'[b] = done[b] /\ parked'[b] = parked[b]
      /\ delivered'[b] = delivered[b] /\ lost'[b] = lost[b]
      /\ gone'[b] = gone[b] \cup Expired(b)
  BY <1>1 DEF NakQuiet, NakSent, NakFailed, WriteOff, TypeOK
<1>3. holes'[b] = Chased(b) \/ holes'[b] = Stamp(Chased(b), ToRequest(b))
  BY <1>1 DEF NakQuiet, NakSent, NakFailed, TypeOK
<1>4. /\ DOMAIN holes'[b] = DOMAIN holes[b] \ Expired(b)
      /\ \A t \in DOMAIN holes[b] \ Expired(b) : holes'[b][t].noticed = holes[b][t].noticed
      /\ Expired(b) \subseteq DOMAIN holes[b]
  <2>1. /\ HoleMap(Chased(b)) /\ DOMAIN Chased(b) = DOMAIN holes[b] \ Expired(b)
        /\ \A t \in DOMAIN Chased(b) : Chased(b)[t] = holes[b][t]
        /\ Expired(b) \subseteq DOMAIN holes[b]
    BY <1>1, ChasedLemma
  <2>2. /\ DOMAIN holes'[b] = DOMAIN Chased(b)
        /\ \A t \in DOMAIN Chased(b) : holes'[b][t].noticed = Chased(b)[t].noticed
    <3>1. CASE holes'[b] = Chased(b)
      BY <3>1
    <3>2. CASE holes'[b] = Stamp(Chased(b), ToRequest(b))
      <4>1. SameAges(holes'[b], Chased(b))
        BY <2>1, <3>2, StampLemma
      <4> QED BY <4>1 DEF SameAges
    <3> QED BY <1>3, <3>1, <3>2
  <2> QED BY <2>1, <2>2
<1>5. Untuned(b)'
  BY <1>1, <1>2, <1>4 DEF BucketInv, Untuned
<1>6. InWindow(b)'
  BY <1>1, <1>2, <1>4, BucketTypes DEF BucketInv, InWindow
<1>7. Covered(b)' /\ StillMissing(b)'
  BY <1>1, <1>2, <1>4 DEF BucketInv, Covered, StillMissing
<1>8. Aging(b)' /\ Settled(b)'
  BY <1>1, <1>2, <1>4 DEF BucketInv, Aging, Settled
<1> QED
  BY <1>5, <1>6, <1>7, <1>8 DEF BucketInv

(* deliver(): the sequence at the delivery point is settled and the point   *)
(* moves on by one.                                                         *)
LEMMA DeliverParkedInv ==
  ASSUME Inv, NEW b \in Bucket, DeliverParked(b)
  PROVE  BucketInv(b)'
<1> DEFINE n == nextSequence[b]
<1>1. TypeOK /\ BucketInv(b) /\ n \in parked[b] /\ ~done[b] /\ n \in Nat \ {0}
  BY DEF Inv, DeliverParked, TypeOK
<1>2. synced[b] /\ n <= seen[b] /\ n <= End[b] /\ start[b] \in 1..n
  BY <1>1, HeardIsSynced, BucketTypes DEF BucketInv, InWindow
<1>3. /\ nextSequence'[b] = n + 1 /\ synced'[b] /\ start'[b] = start[b]
      /\ seen'[b] = seen[b] /\ parked'[b] = parked[b] \ {n} /\ gone'[b] = gone[b]
      /\ holes'[b] = holes[b] /\ lost'[b] = lost[b]
  BY <1>1, <1>2 DEF DeliverParked, TypeOK
<1>4. \/ n = End[b] /\ done'[b] /\ delivered'[b] = delivered[b]
      \/ n # End[b] /\ ~done'[b] /\ delivered'[b] = Append(delivered[b], n)
  BY <1>1 DEF DeliverParked, TypeOK
<1>5. n \notin DOMAIN holes[b]
  BY <1>1 DEF BucketInv, StillMissing
<1>6. Untuned(b)' /\ StillMissing(b)' /\ Aging(b)'
  BY <1>1, <1>3 DEF BucketInv, Untuned, StillMissing, Aging
<1>7. InWindow(b)'
  BY <1>1, <1>2, <1>3, <1>5, BucketTypes DEF BucketInv, InWindow
<1>8. Covered(b)'
  BY <1>1, <1>2, <1>3, BucketTypes DEF BucketInv, Covered
<1>9. Settled(b)'
  <2>1. Range(delivered[b]) \cup lost[b] = (start[b]..(n - 1)) \ {End[b]}
    BY <1>1, <1>2 DEF BucketInv, Settled
  <2>2. CASE n = End[b] /\ done'[b] /\ delivered'[b] = delivered[b]
    <3>1. (start[b]..n) \ {End[b]} = (start[b]..(n - 1)) \ {End[b]}
      BY <1>1, <1>2, <2>2, BucketTypes
    <3> QED
      BY <1>1, <1>3, <2>1, <2>2, <3>1 DEF BucketInv, Settled
  <2>3. CASE n # End[b] /\ ~done'[b] /\ delivered'[b] = Append(delivered[b], n)
    <3>1. delivered[b] \in Seq(Nat) /\ Range(delivered'[b]) = Range(delivered[b]) \cup {n}
      BY <1>1, <2>3, BucketTypes, RangeAppend
    <3>2. (start[b]..n) \ {End[b]} = ((start[b]..(n - 1)) \ {End[b]}) \cup {n}
      BY <1>1, <1>2, <2>3, BucketTypes
    <3>3. n \notin lost[b] /\ \A i \in DOMAIN delivered[b] : delivered[b][i] < n
      <4>1. \A x \in Range(delivered[b]) \cup lost[b] : x < n
        BY <1>1, <1>2, <2>1, BucketTypes
      <4>2. \A i \in DOMAIN delivered[b] : delivered[b][i] \in Range(delivered[b])
        BY DEF Range
      <4> QED BY <1>1, <4>1, <4>2
    <3>4. \A i, j \in DOMAIN delivered'[b] : i < j => delivered'[b][i] < delivered'[b][j]
      <4>1. /\ Len(delivered[b]) \in Nat /\ DOMAIN delivered[b] = 1..Len(delivered[b])
            /\ DOMAIN delivered'[b] = 1..(Len(delivered[b]) + 1)
            /\ delivered'[b][Len(delivered[b]) + 1] = n
            /\ \A i \in 1..Len(delivered[b]) : delivered'[b][i] = delivered[b][i]
        BY <1>1, <2>3, <3>1
      <4>2. \A i, j \in DOMAIN delivered[b] : i < j => delivered[b][i] < delivered[b][j]
        BY <1>1 DEF BucketInv, Settled
      <4> QED
        BY <3>3, <4>1, <4>2
    <3>5. Range(delivered[b]) \cap lost[b] = {}
      BY <1>1 DEF BucketInv, Settled
    <3>6. Range(delivered'[b]) \cup lost'[b] = (start'[b]..(nextSequence'[b] - 1)) \ {End[b]}
      BY <1>1, <1>3, <2>1, <3>1, <3>2
    <3> QED
      BY <1>3, <2>3, <3>1, <3>3, <3>4, <3>5, <3>6 DEF Settled
  <2> QED BY <1>4, <2>2, <2>3
<1> QED
  BY <1>6, <1>7, <1>8, <1>9 DEF BucketInv

LEMMA SkipGoneInv ==
  ASSUME Inv, NEW b \in Bucket, SkipGone(b)
  PROVE  BucketInv(b)'
<1> DEFINE n == nextSequence[b]
<1>1. TypeOK /\ BucketInv(b) /\ n \in gone[b] /\ n \notin parked[b] /\ ~done[b] /\ n \in Nat \ {0}
  BY DEF Inv, SkipGone, TypeOK
<1>2. synced[b] /\ n < seen[b] /\ n < End[b] /\ start[b] \in 1..n
  BY <1>1, HeardIsSynced, BucketTypes DEF BucketInv, InWindow
<1>3. /\ nextSequence'[b] = n + 1 /\ synced'[b] /\ start'[b] = start[b]
      /\ seen'[b] = seen[b] /\ parked'[b] = parked[b] /\ gone'[b] = gone[b] \ {n}
      /\ holes'[b] = holes[b] /\ lost'[b] = lost[b] \cup {n}
      /\ delivered'[b] = delivered[b] /\ ~done'[b]
  BY <1>1, <1>2 DEF SkipGone, TypeOK
<1>4. n \notin DOMAIN holes[b]
  BY <1>1 DEF BucketInv, StillMissing
<1>5. Untuned(b)' /\ StillMissing(b)' /\ Aging(b)'
  BY <1>1, <1>3 DEF BucketInv, Untuned, StillMissing, Aging
<1>6. InWindow(b)'
  BY <1>1, <1>2, <1>3, <1>4, BucketTypes DEF BucketInv, InWindow
<1>7. Covered(b)'
  BY <1>1, <1>2, <1>3, BucketTypes DEF BucketInv, Covered
<1>8. Settled(b)'
  <2>1. Range(delivered[b]) \cup lost[b] = (start[b]..(n - 1)) \ {End[b]}
    BY <1>1, <1>2 DEF BucketInv, Settled
  <2>2. (start[b]..n) \ {End[b]} = ((start[b]..(n - 1)) \ {End[b]}) \cup {n}
    BY <1>1, <1>2, BucketTypes
  <2>3. n \notin Range(delivered[b])
    BY <1>1, <2>1, BucketTypes
  <2>4. Range(delivered'[b]) \cup lost'[b] = (start'[b]..(nextSequence'[b] - 1)) \ {End[b]}
    BY <1>1, <1>3, <2>1, <2>2
  <2> QED
    BY <1>1, <1>3, <2>3, <2>4 DEF BucketInv, Settled
<1> QED
  BY <1>5, <1>6, <1>7, <1>8 DEF BucketInv

(* Time passes for all holes alike, so their order by age stays.            *)
LEMMA TickInv ==
  ASSUME Inv, NEW b \in Bucket, Tick
  PROVE  BucketInv(b)'
<1>1. TypeOK /\ BucketInv(b)
  BY DEF Inv
<1>2. /\ nextSequence' = nextSequence /\ synced' = synced /\ start' = start
      /\ seen' = seen /\ done' = done /\ parked' = parked /\ gone' = gone
      /\ delivered' = delivered /\ lost' = lost
  BY DEF Tick
<1>3. /\ DOMAIN holes'[b] = DOMAIN holes[b]
      /\ \A s \in DOMAIN holes[b] : holes'[b][s].noticed = Older(holes[b][s].noticed, GiveUp + 1)
  BY <1>1, AgedLemma, BucketTypes DEF Tick
<1>4. Aging(b)'
  <2>1. SUFFICES ASSUME NEW s \in DOMAIN holes[b], NEW t \in DOMAIN holes[b], s < t
                 PROVE  holes'[b][s].noticed >= holes'[b][t].noticed
    BY <1>3 DEF Aging
  <2>2. holes[b][s].noticed >= holes[b][t].noticed
        /\ holes[b][s].noticed \in Nat /\ holes[b][t].noticed \in Nat
    BY <1>1, <2>1, BucketTypes DEF BucketInv, Aging
  <2> QED BY <1>3, <2>2, OlderMonotone, ConstantTypes
<1> QED
  BY <1>1, <1>2, <1>3, <1>4 DEF BucketInv, Untuned, InWindow, Covered, StillMissing, Settled

LEMMA NextInv == Inv /\ [Next]_subscriberVars => Inv'
<1> SUFFICES ASSUME Inv, [Next]_subscriberVars, NEW c \in Bucket PROVE BucketInv(c)'
  BY NextTypeOK DEF Inv
<1>0. TypeOK /\ BucketInv(c)
  BY DEF Inv
<1>1. CASE Wake \/ Interrupted \/ UdpDrained \/ TcpDrained \/ PeerClosed \/ BadFrame \/ Parsed
  BY <1>0, <1>1, Untouched
     DEF Wake, Interrupted, UdpDrained, TcpDrained, PeerClosed, BadFrame, Parsed
<1>2. ASSUME NEW b \in Bucket, NEW s \in 1..End[b], AcceptOrderMessage(b, s) PROVE BucketInv(c)'
  <2>1. CASE c = b
    BY <1>2, <2>1, AcceptOrderMessageInv
  <2>2. CASE c # b
    BY <1>0, <1>2, <2>2, Untouched DEF AcceptOrderMessage, TypeOK
  <2> QED BY <2>1, <2>2
<1>3. ASSUME NEW b \in Bucket, NEW s \in 1..End[b], NEW r \in BOOLEAN, AcceptFrame(b, s, r)
      PROVE BucketInv(c)'
  <2>1. CASE c = b
    BY <1>3, <2>1, AcceptFrameInv
  <2>2. CASE c # b
    BY <1>0, <1>3, <2>2, Untouched DEF AcceptFrame, TypeOK
  <2> QED BY <2>1, <2>2
<1>4. ASSUME NEW b \in Bucket, NakQuiet(b) \/ NakSent(b) \/ NakFailed(b) PROVE BucketInv(c)'
  <2>1. CASE c = b
    BY <1>4, <2>1, NakInv
  <2>2. CASE c # b
    BY <1>0, <1>4, <2>2, Untouched DEF NakQuiet, NakSent, NakFailed, WriteOff, TypeOK
  <2> QED BY <2>1, <2>2
<1>5. ASSUME NEW b \in Bucket, DeliverParked(b) PROVE BucketInv(c)'
  <2>1. CASE c = b
    BY <1>5, <2>1, DeliverParkedInv
  <2>2. CASE c # b
    BY <1>0, <1>5, <2>2, Untouched DEF DeliverParked, TypeOK
  <2> QED BY <2>1, <2>2
<1>6. ASSUME NEW b \in Bucket, SkipGone(b) PROVE BucketInv(c)'
  <2>1. CASE c = b
    BY <1>6, <2>1, SkipGoneInv
  <2>2. CASE c # b
    BY <1>0, <1>6, <2>2, Untouched DEF SkipGone, TypeOK
  <2> QED BY <2>1, <2>2
<1>7. ASSUME NEW b \in Bucket, DeliverEnds(b) PROVE BucketInv(c)'
  BY <1>0, <1>7, Untouched DEF DeliverEnds
<1>8. CASE Tick
  BY <1>8, TickInv
<1>9. CASE UNCHANGED subscriberVars
  BY <1>0, <1>9, Untouched DEF subscriberVars
<1> QED
  BY <1>1, <1>2, <1>3, <1>4, <1>5, <1>6, <1>7, <1>8, <1>9 DEF Next, Returned

LEMMA InvHolds == Spec => []Inv
<1>1. Inv /\ [Next]_subscriberVars => Inv'
  BY NextInv
<1> QED
  BY InitInv, <1>1, PTL DEF Spec

-----------------------------------------------------------------------------
(* Safety, for every stream and every behaviour of network and server.      *)

(* No sequence between the delivery point and the highest one heard is ever *)
(* outside parked, gone and holes: no bucket can stall on a sequence nobody *)
(* is chasing.                                                              *)
THEOREM NothingIsForgotten == Spec => []NothingForgotten
<1>1. Inv => NothingForgotten
  BY DEF Inv, BucketInv, Covered, NothingForgotten
<1> QED
  BY InvHolds, <1>1, PTL

(* nak() only ever chases what is still missing.                            *)
THEOREM OnlyMissingIsChased == Spec => []HolesAreMissing
<1>1. Inv => HolesAreMissing
  <2> SUFFICES ASSUME Inv, NEW b \in Bucket, NEW s \in DOMAIN holes[b]
               PROVE s \in nextSequence[b]..(seen[b] - 1) /\ s \notin parked[b] \cup gone[b]
    BY DEF HolesAreMissing
  <2> QED
    BY BucketTypes DEF Inv, BucketInv, InWindow, StillMissing
<1> QED
  BY InvHolds, <1>1, PTL

(* The expired holes are a prefix of the map, as nak() assumes when it      *)
(* stops its walk at the first live one.                                    *)
THEOREM ExpiryIsAPrefix == Spec => []OldestFirst
<1>1. Inv => OldestFirst
  BY DEF Inv, BucketInv, Aging, OldestFirst
<1> QED
  BY InvHolds, <1>1, PTL

(* Every sequence from the point where the bucket was taken up is settled   *)
(* exactly once and in order: delivered or counted unrecoverable.           *)
THEOREM SettledExactlyOnce == Spec => []ExactlyOnceInOrder
<1>1. Inv => ExactlyOnceInOrder
  BY DEF Inv, BucketInv, Settled, ExactlyOnceInOrder
<1> QED
  BY InvHolds, <1>1, PTL

(* A message that is parked is never counted as lost.                       *)
THEOREM ParkedIsNeverLost == Spec => []ArrivedIsNeverLost
<1>1. Inv => ArrivedIsNeverLost
  <2> SUFFICES ASSUME Inv, NEW b \in Bucket, NEW s \in parked[b] PROVE s \notin lost[b]
    BY DEF ArrivedIsNeverLost
  <2>1. TypeOK /\ BucketInv(b)
    BY DEF Inv
  <2>2. synced[b] /\ nextSequence[b] <= s
    BY <2>1, HeardIsSynced DEF BucketInv, InWindow
  <2>3. lost[b] \subseteq start[b]..(nextSequence[b] - 1)
    BY <2>1, <2>2 DEF BucketInv, Settled
  <2> QED BY <2>1, <2>2, <2>3, BucketTypes
<1> QED
  BY InvHolds, <1>1, PTL

(* What has been handed over was heard: deliver() takes a message out of    *)
(* the parked ones, and none of them is beyond the highest sequence heard.  *)
DeliveredWasHeard == \A b \in Bucket : \A s \in Range(delivered[b]) : s <= seen[b]

LEMMA NextDeliversHeard ==
  ASSUME Inv, DeliveredWasHeard, [Next]_subscriberVars
  PROVE  DeliveredWasHeard'
<1> SUFFICES ASSUME NEW c \in Bucket, NEW s \in Range(delivered'[c])
             PROVE  s <= seen'[c]
  BY DEF DeliveredWasHeard
<1>0. /\ TypeOK /\ seen[c] \in Nat /\ delivered[c] \in Seq(Nat)
      /\ nextSequence[c] \in Nat /\ Range(delivered[c]) \subseteq Nat
  <2>1. TypeOK /\ seen[c] \in Nat /\ delivered[c] \in Seq(Nat) /\ nextSequence[c] \in Nat
    BY BucketTypes DEF Inv
  <2>2. Range(delivered[c]) \subseteq Nat
    BY <2>1 DEF Range
  <2> QED
    BY <2>1, <2>2
<1>1. seen'[c] \in Nat /\ seen[c] <= seen'[c]
  <2>1. CASE UNCHANGED seen
    BY <1>0, <2>1
  <2>2. ASSUME NEW b \in Bucket, NEW n \in 1..End[b], AcceptOrderMessage(b, n)
        PROVE  seen'[c] \in Nat /\ seen[c] <= seen'[c]
    <3>1. n \in Nat /\ seen[b] \in Nat
      BY <1>0, BucketTypes
    <3> QED
      BY <1>0, <2>2, <3>1 DEF AcceptOrderMessage, TypeOK
  <2> QED
    BY <2>1, <2>2
    DEF Next, Wake, Interrupted, UdpDrained, TcpDrained, PeerClosed, BadFrame, Parsed,
        AcceptFrame, NakQuiet, NakSent, NakFailed, DeliverParked, SkipGone, DeliverEnds, Tick,
        Returned, subscriberVars
<1>2. CASE delivered'[c] = delivered[c]
  <2>1. s \in Nat /\ s <= seen[c]
    BY <1>0, <1>2 DEF DeliveredWasHeard
  <2> QED
    BY <1>0, <1>1, <2>1
<1>3. CASE DeliverParked(c)
  <2>1. nextSequence[c] <= seen[c]
    BY <1>3 DEF DeliverParked, Inv, BucketInv, InWindow
  <2>2. \/ delivered'[c] = delivered[c]
        \/ delivered'[c] = Append(delivered[c], nextSequence[c])
    BY <1>0, <1>3 DEF DeliverParked, TypeOK
  <2>3. s \in Range(delivered[c]) \/ s = nextSequence[c]
    BY <1>0, <2>2, RangeAppend
  <2>4. s \in Nat /\ s <= seen[c]
    BY <1>0, <2>1, <2>3 DEF DeliveredWasHeard
  <2> QED
    BY <1>0, <1>1, <2>4
<1>4. delivered'[c] = delivered[c] \/ DeliverParked(c)
  <2>1. ASSUME NEW b \in Bucket, DeliverParked(b), b # c PROVE delivered'[c] = delivered[c]
    BY <1>0, <2>1 DEF DeliverParked, TypeOK
  <2> QED
    BY <2>1
    DEF Next, Wake, Interrupted, UdpDrained, AcceptOrderMessage, TcpDrained, PeerClosed,
        BadFrame, Parsed, AcceptFrame, NakQuiet, NakSent, NakFailed, SkipGone, DeliverEnds, Tick,
        Returned, subscriberVars
<1> QED
  BY <1>2, <1>3, <1>4

LEMMA HeardBeforeDelivered == Spec => []DeliveredWasHeard
<1>1. Init => DeliveredWasHeard
  BY DEF Init, DeliveredWasHeard, Range
<1>2. Inv /\ DeliveredWasHeard /\ [Next]_subscriberVars => DeliveredWasHeard'
  BY NextDeliversHeard
<1> QED
  BY <1>1, <1>2, InvHolds, PTL DEF Spec

-----------------------------------------------------------------------------
(* The receiver implements the ordered feed.                                *)

LEMMA InitRefines == Init => Promise!Init
<1> SUFFICES ASSUME Init PROVE Promise!Init
  OBVIOUS
<1>1. (\A b \in Bucket : synced[b] <=> FirstExpected > 0)
      /\ nextSequence = [b \in Bucket |-> IF FirstExpected > 0 THEN FirstExpected ELSE 1]
  BY DEF Init
<1>2. [b \in Bucket |-> IF synced[b] THEN nextSequence[b] ELSE 0]
        = [b \in Bucket |-> FirstExpected]
  BY <1>1, ConstantTypes
<1> QED
  BY <1>2 DEF Init, Promise!Init

(* A step that moves the delivery point of bucket b only.                   *)
LEMMA PositionMoves ==
  ASSUME TypeOK, NEW b \in Bucket, NEW n \in Nat,
         nextSequence' = [nextSequence EXCEPT ![b] = n],
         synced' = [synced EXCEPT ![b] = TRUE]
  PROVE  [c \in Bucket |-> IF synced'[c] THEN nextSequence'[c] ELSE 0]
           = [[c \in Bucket |-> IF synced[c] THEN nextSequence[c] ELSE 0] EXCEPT ![b] = n]
BY DEF TypeOK

LEMMA NextRefines == Inv /\ [Next]_subscriberVars => [Promise!Next]_(Promise!feedVars)
<1> SUFFICES ASSUME Inv, [Next]_subscriberVars PROVE [Promise!Next]_(Promise!feedVars)
  OBVIOUS
<1> USE DEF Promise!feedVars
<1>0. TypeOK
  BY DEF Inv
<1>1. CASE Wake \/ Interrupted \/ UdpDrained \/ TcpDrained \/ PeerClosed \/ BadFrame \/ Parsed
           \/ Tick
  BY <1>1 DEF Wake, Interrupted, UdpDrained, TcpDrained, PeerClosed, BadFrame, Parsed, Tick
<1>2. ASSUME NEW b \in Bucket, NEW s \in 1..End[b], AcceptOrderMessage(b, s)
      PROVE  [Promise!Next]_(Promise!feedVars)
  <2>1. /\ nextSequence' = [nextSequence EXCEPT ![b] = Expected(b, s)]
        /\ synced' = [synced EXCEPT ![b] = TRUE]
        /\ UNCHANGED <<done, delivered, lost>>
    BY <1>2 DEF AcceptOrderMessage
  <2>2. CASE synced[b]
    <3>1. nextSequence' = nextSequence /\ synced' = synced
      BY <1>0, <2>1, <2>2 DEF Expected, TypeOK
    <3> QED BY <2>1, <3>1
  <2>3. CASE ~synced[b]
    <3>1. Expected(b, s) \in 1..End[b] /\ Expected(b, s) \in Nat
      <4>1. s \in Nat \ {0} /\ End[b] \in Nat
        BY ConstantTypes
      <4>2. Expected(b, s) = StartAt(s) /\ StartAt(s) \in 1..s
        BY <2>3, <4>1, StartAtLemma DEF Expected
      <4> QED BY <4>1, <4>2
    <3>2. [c \in Bucket |-> IF synced'[c] THEN nextSequence'[c] ELSE 0]
            = [[c \in Bucket |-> IF synced[c] THEN nextSequence[c] ELSE 0]
                 EXCEPT ![b] = Expected(b, s)]
      BY <1>0, <2>1, <3>1, PositionMoves
    <3>3. [c \in Bucket |-> IF synced[c] THEN nextSequence[c] ELSE 0][b] = 0
      BY <2>3
    <3>4. Promise!TuneIn(b)
      BY <2>1, <3>1, <3>2, <3>3, Zenon DEF Promise!TuneIn
    <3> QED BY <3>4 DEF Promise!Next
  <2> QED BY <2>2, <2>3
<1>3. ASSUME NEW b \in Bucket, NEW s \in 1..End[b], NEW r \in BOOLEAN, AcceptFrame(b, s, r)
      PROVE  [Promise!Next]_(Promise!feedVars)
  BY <1>3 DEF AcceptFrame
<1>4. ASSUME NEW b \in Bucket, NakQuiet(b) \/ NakSent(b) \/ NakFailed(b) \/ DeliverEnds(b)
      PROVE  [Promise!Next]_(Promise!feedVars)
  BY <1>4 DEF NakQuiet, NakSent, NakFailed, DeliverEnds
<1>5. ASSUME NEW b \in Bucket, DeliverParked(b) \/ SkipGone(b)
      PROVE  [Promise!Next]_(Promise!feedVars)
  <2>1. BucketInv(b) /\ ~done[b] /\ nextSequence[b] \in Nat \ {0}
        /\ (nextSequence[b] \in parked[b] \/ nextSequence[b] \in gone[b])
    BY <1>0, <1>5 DEF Inv, DeliverParked, SkipGone, TypeOK
  <2>2. synced[b]
    BY <1>0, <2>1, HeardIsSynced
  <2>3. /\ nextSequence' = [nextSequence EXCEPT ![b] = nextSequence[b] + 1]
        /\ synced' = [synced EXCEPT ![b] = TRUE]
    BY <1>0, <1>5, <2>2 DEF DeliverParked, SkipGone, TypeOK
  <2>4. Promise!Settle(b)
    <3>1. [c \in Bucket |-> IF synced'[c] THEN nextSequence'[c] ELSE 0]
            = [[c \in Bucket |-> IF synced[c] THEN nextSequence[c] ELSE 0]
                 EXCEPT ![b] = nextSequence[b] + 1]
      <4>1. nextSequence[b] + 1 \in Nat
        BY <2>1
      <4> QED BY <1>0, <2>3, <4>1, PositionMoves
    <3>2. [c \in Bucket |-> IF synced[c] THEN nextSequence[c] ELSE 0][b] = nextSequence[b]
      BY <2>2
    <3> QED BY <2>1, <3>1, <3>2 DEF Promise!Settle
  <2>5. CASE DeliverParked(b)
    <3>1. nextSequence[b] <= End[b]
      BY <1>0, <2>1, <2>5, BucketTypes DEF DeliverParked, BucketInv, InWindow
    <3>2. CASE nextSequence[b] = End[b]
      <4>1. Promise!Finish(b)
        BY <2>2, <2>4, <2>5, <3>2 DEF DeliverParked, Promise!Finish
      <4> QED BY <4>1 DEF Promise!Next
    <3>3. CASE nextSequence[b] # End[b]
      <4>1. Promise!Deliver(b)
        BY <1>0, <2>1, <2>2, <2>4, <2>5, <3>1, <3>3, BucketTypes DEF DeliverParked, Promise!Deliver
      <4> QED BY <4>1 DEF Promise!Next
    <3> QED BY <3>2, <3>3
  <2>6. CASE SkipGone(b)
    <3>1. nextSequence[b] < End[b]
      BY <1>0, <2>1, <2>6, BucketTypes DEF SkipGone, BucketInv, InWindow
    <3>2. Promise!WriteOff(b)
      BY <2>2, <2>4, <2>6, <3>1 DEF SkipGone, Promise!WriteOff
    <3> QED BY <3>2 DEF Promise!Next
  <2> QED BY <1>5, <2>5, <2>6
<1>6. CASE UNCHANGED subscriberVars
  BY <1>6 DEF subscriberVars
<1> QED
  BY <1>1, <1>2, <1>3, <1>4, <1>5, <1>6 DEF Next, Returned

(* The receiver keeps the promise of OrderedFeed: each step of its code is  *)
(* a tuning in, a delivery, a write-off, a finish or a stutter there.       *)
THEOREM ReceiverKeepsPromise == Spec => PromiseKept
<1>1. Inv /\ [Next]_subscriberVars => [Promise!Next]_(Promise!feedVars)
  BY NextRefines
<1> QED
  BY InitRefines, InvHolds, <1>1, PTL DEF Spec, PromiseKept, Promise!Spec
=============================================================================
