--------------------------- MODULE FeedHandlerProofs ---------------------------
(***************************************************************************)
(* What the feed handler does with any tape in any datagrams: messages are  *)
(* decoded at most once and in order, the gaps are counted, what is         *)
(* published draws the decoder's levels, and without losses those are the   *)
(* venue's, uncrossed.                                                      *)
(***************************************************************************)
EXTENDS FeedHandler, Numbers, SequenceTheorems, TLAPS

seqVars == <<packet, position, skip, expected, capture_gaps, decoded, cut>>

(* The number of the next message of the datagram.                          *)
At == packet.first + position

Datagram == [first : Nat \ {0}, count : Nat \ {0}, carried : Nat]

(* A datagram under way has a first message, and the loop is inside it.     *)
SequenceTypes ==
  /\ \/ packet = NoPacket /\ position = 0 /\ skip = 0
     \/ packet \in Datagram /\ packet # NoPacket /\ packet.carried <= packet.count
        /\ position \in 0..packet.carried
  /\ skip \in Nat /\ expected \in Nat /\ capture_gaps \in Nat
  /\ decoded \in Seq(Nat) /\ cut \in BOOLEAN

(* What was decoded lies behind `expected' or is of this very datagram, and  *)
(* the messages to be skipped are those that end at `expected'.             *)
OrderInv ==
  /\ AtMostOnceInOrder
  /\ \A i \in DOMAIN decoded :
       decoded[i] < expected \/ (packet # NoPacket /\ decoded[i] < At)
  /\ packet # NoPacket => expected <= At + skip
  /\ packet # NoPacket /\ skip > 0 => At + skip = expected

(* The first message not yet passed.                                        *)
Front == IF packet # NoPacket /\ At > expected THEN At ELSE expected

(* Before the first datagram has been handled, and from then on.            *)
GapInv ==
  ~cut =>
    /\ packet # NoPacket => packet.carried = packet.count
    /\ expected = 0 =>
         /\ capture_gaps = 0
         /\ Len(decoded) = position
         /\ decoded # <<>> => decoded[1] = packet.first
    /\ expected # 0 =>
         /\ decoded # <<>>
         /\ capture_gaps = (Front - decoded[1]) - Len(decoded)

SequenceInv == SequenceTypes /\ OrderInv /\ GapInv

LEMMA SequenceInit == Init => SequenceInv
<1> SUFFICES ASSUME Init PROVE SequenceInv
  OBVIOUS
<1>1. /\ packet = NoPacket /\ position = 0 /\ skip = 0 /\ expected = 0
      /\ capture_gaps = 0 /\ decoded = <<>> /\ cut = FALSE
  BY DEF Init
<1>2. decoded \in Seq(Nat) /\ DOMAIN decoded = {} /\ Len(decoded) = 0
  BY <1>1
<1> QED
  BY <1>1, <1>2 DEF SequenceInv, SequenceTypes, OrderInv, GapInv, AtMostOnceInOrder

LEMMA SequenceStutter ==
  ASSUME SequenceInv, UNCHANGED seqVars
  PROVE  SequenceInv'
BY DEF SequenceInv, SequenceTypes, OrderInv, GapInv, AtMostOnceInOrder, seqVars, At, Front

(* A new datagram: what it repeats is skipped, what it passes over counted. *)
LEMMA SequenceOnPayload ==
  ASSUME SequenceInv, NEW first \in 1..MaxTape, NEW count \in 1..MaxBatch,
         NEW carried \in 0..count, OnPayload(first, count, carried)
  PROVE  SequenceInv'
<1> USE HandlerAssumption
<1>1. /\ packet = NoPacket /\ position = 0 /\ skip = 0
      /\ packet' = [first |-> first, count |-> count, carried |-> carried]
      /\ position' = 0 /\ expected' = expected /\ decoded' = decoded
      /\ capture_gaps' = capture_gaps + Gap(first) /\ skip' = AlreadySeen(first)
      /\ cut' = (cut \/ carried < count)
  BY DEF OnPayload, SequenceInv, SequenceTypes, NoPacket
<1>2. expected \in Nat /\ capture_gaps \in Nat /\ decoded \in Seq(Nat) /\ cut \in BOOLEAN
  BY DEF SequenceInv, SequenceTypes
<1>3. packet' # NoPacket /\ packet' \in Datagram
  BY <1>1 DEF NoPacket, Datagram
<1>4. SequenceTypes'
  <2>1. Gap(first) \in Nat /\ AlreadySeen(first) \in Nat
    BY <1>2 DEF Gap, AlreadySeen
  <2> QED
    BY <1>1, <1>2, <1>3, <2>1 DEF SequenceTypes
<1>5. OrderInv'
  <2>1. \A i \in DOMAIN decoded : decoded[i] < expected
    BY <1>1 DEF SequenceInv, OrderInv
  <2>2. At' = first
    BY <1>1 DEF At
  <2>3. expected <= first + AlreadySeen(first)
        /\ (AlreadySeen(first) > 0 => first + AlreadySeen(first) = expected)
    BY <1>2 DEF AlreadySeen
  <2> QED
    BY <1>1, <1>3, <2>1, <2>2, <2>3 DEF SequenceInv, OrderInv, AtMostOnceInOrder
<1>6. GapInv'
  <2> SUFFICES ASSUME ~cut' PROVE GapInv'
    BY DEF GapInv
  <2>1. ~cut /\ carried = count
    <3>1. ~(cut \/ carried < count)
      BY <1>1, Zenon
    <3>2. ~cut /\ ~(carried < count)
      BY <3>1
    <3> QED
      BY <3>2
  <2>2. At' = first /\ Front' = IF first > expected THEN first ELSE expected
    BY <1>1, <1>3 DEF At, Front
  <2>3. CASE expected = 0
    <3>1. capture_gaps = 0 /\ Len(decoded) = 0
      BY <1>1, <2>1, <2>3 DEF SequenceInv, GapInv
    <3>2. Gap(first) = 0 /\ decoded = <<>>
      BY <2>3, <3>1, <1>2 DEF Gap
    <3> QED
      BY <1>1, <2>1, <2>3, <3>1, <3>2 DEF GapInv
  <2>4. CASE expected # 0
    <3>1. decoded # <<>> /\ capture_gaps = (expected - decoded[1]) - Len(decoded)
      BY <1>1, <2>1, <2>4 DEF SequenceInv, GapInv, Front
    <3>2. decoded[1] \in Nat /\ Len(decoded) \in Nat
      BY <1>2, <3>1
    <3>3. Front' = expected + Gap(first)
      BY <1>2, <2>2, <2>4 DEF Gap
    <3>4. capture_gaps' = (Front' - decoded[1]) - Len(decoded)
      <4>1. Gap(first) \in Nat
        BY <1>2 DEF Gap
      <4>2. expected \in Int /\ decoded[1] \in Int /\ Len(decoded) \in Int
        BY <1>2, <3>2
      <4> QED
        BY <1>1, <3>1, <3>3, <4>1, <4>2
    <3> QED
      BY <1>1, <2>1, <2>4, <3>1, <3>4 DEF GapInv
  <2> QED
    BY <2>3, <2>4
<1> QED
  BY <1>4, <1>5, <1>6 DEF SequenceInv

LEMMA InsideDatagram ==
  ASSUME SequenceInv, packet # NoPacket
  PROVE  /\ packet \in Datagram /\ packet.carried <= packet.count
         /\ position \in 0..packet.carried /\ At \in Nat \ {0}
         /\ packet.first \in Nat \ {0} /\ packet.count \in Nat \ {0}
         /\ packet.carried \in Nat /\ position \in Nat
BY DEF SequenceInv, SequenceTypes, Datagram, At

(* A message heard before is passed.                                        *)
LEMMA SequenceSkip ==
  ASSUME SequenceInv, SkipMessage
  PROVE  SequenceInv'
<1>1. /\ packet # NoPacket /\ position < packet.carried /\ skip > 0
      /\ skip' = skip - 1 /\ position' = position + 1
      /\ packet' = packet /\ expected' = expected /\ capture_gaps' = capture_gaps
      /\ decoded' = decoded /\ cut' = cut
  BY DEF SkipMessage, AtMessage
<1>2. /\ packet \in Datagram /\ position \in Nat /\ packet.first \in Nat \ {0}
      /\ packet.carried \in Nat
      /\ skip \in Nat /\ expected \in Nat /\ capture_gaps \in Nat /\ decoded \in Seq(Nat)
  BY <1>1, InsideDatagram DEF SequenceInv, SequenceTypes
<1>3. At + skip = expected /\ At' = At + 1 /\ At \in Nat /\ skip \in Nat
  BY <1>1, <1>2, InsideDatagram DEF SequenceInv, OrderInv, At
<1>4. SequenceTypes'
  BY <1>1, <1>2 DEF SequenceInv, SequenceTypes
<1>5. OrderInv'
  <2>1. \A i \in DOMAIN decoded : decoded[i] < expected \/ decoded[i] < At'
    <3>1. \A i \in DOMAIN decoded : decoded[i] \in Nat
      BY <1>2
    <3> QED
      BY <1>1, <1>3, <3>1 DEF SequenceInv, OrderInv
  <2> QED
    BY <1>1, <1>3, <2>1 DEF SequenceInv, OrderInv, AtMostOnceInOrder
<1>6. GapInv'
  <2>1. expected # 0 /\ Front' = Front
    BY <1>1, <1>2, <1>3 DEF Front
  <2> QED
    BY <1>1, <2>1 DEF SequenceInv, GapInv
<1> QED
  BY <1>4, <1>5, <1>6 DEF SequenceInv

(* A new message is decoded: it is at or above `expected'.                   *)
LEMMA SequenceDecode ==
  ASSUME SequenceInv, DecodeMessage
  PROVE  SequenceInv'
<1>1. /\ packet # NoPacket /\ position < packet.carried /\ skip = 0
      /\ skip' = skip /\ position' = position + 1
      /\ packet' = packet /\ expected' = expected /\ capture_gaps' = capture_gaps
      /\ decoded' = Append(decoded, At) /\ cut' = cut
  BY DEF DecodeMessage, AtMessage, At
<1>2. /\ packet \in Datagram /\ position \in Nat /\ packet.first \in Nat \ {0}
      /\ packet.carried \in Nat
      /\ expected \in Nat /\ capture_gaps \in Nat /\ decoded \in Seq(Nat)
  BY <1>1, InsideDatagram DEF SequenceInv, SequenceTypes
<1>3. At' = At + 1 /\ At \in Nat /\ expected <= At
  BY <1>1, <1>2, InsideDatagram DEF SequenceInv, OrderInv, At
<1>4. /\ decoded' \in Seq(Nat) /\ Len(decoded') = Len(decoded) + 1 /\ Len(decoded) \in Nat
      /\ DOMAIN decoded' = 1..(Len(decoded) + 1) /\ DOMAIN decoded = 1..Len(decoded)
      /\ \A i \in DOMAIN decoded : decoded'[i] = decoded[i] /\ decoded[i] \in Nat
      /\ decoded'[Len(decoded) + 1] = At
  BY <1>1, <1>2, <1>3
<1>5. \A i \in DOMAIN decoded : decoded[i] < At
  BY <1>1, <1>2, <1>3, <1>4 DEF SequenceInv, OrderInv
<1>6. SequenceTypes'
  BY <1>1, <1>2, <1>4 DEF SequenceInv, SequenceTypes
<1>7. OrderInv'
  <2>1. AtMostOnceInOrder'
    <3> SUFFICES ASSUME NEW i \in DOMAIN decoded', NEW j \in DOMAIN decoded', i < j
                 PROVE  decoded'[i] < decoded'[j]
      BY DEF AtMostOnceInOrder
    <3>1. i \in DOMAIN decoded
      BY <1>4
    <3>2. CASE j \in DOMAIN decoded
      BY <1>4, <3>1, <3>2 DEF SequenceInv, OrderInv, AtMostOnceInOrder
    <3>3. CASE j = Len(decoded) + 1
      BY <1>4, <1>5, <3>1, <3>3
    <3> QED
      BY <1>4, <3>2, <3>3
  <2>2. \A i \in DOMAIN decoded' : decoded'[i] < At'
    BY <1>3, <1>4, <1>5
  <2>3. packet' # NoPacket /\ expected' <= At' + skip' /\ ~(skip' > 0)
    BY <1>1, <1>2, <1>3
  <2> QED
    BY <2>1, <2>2, <2>3 DEF OrderInv
<1>8. GapInv'
  <2> SUFFICES ASSUME ~cut PROVE GapInv'
    BY <1>1 DEF GapInv
  <2>1. packet.carried = packet.count
    BY <1>1 DEF SequenceInv, GapInv
  <2>2. CASE expected = 0
    <3>1. capture_gaps = 0 /\ Len(decoded) = position
          /\ (decoded # <<>> => decoded[1] = packet.first)
      BY <2>2 DEF SequenceInv, GapInv
    <3>2. decoded'[1] = packet.first
      <4>1. CASE decoded = <<>>
        BY <1>2, <1>4, <3>1, <4>1 DEF At
      <4>2. CASE decoded # <<>>
        BY <1>2, <1>4, <3>1, <4>2
      <4> QED
        BY <4>1, <4>2
    <3> QED
      BY <1>1, <1>4, <2>1, <2>2, <3>1, <3>2 DEF GapInv
  <2>3. CASE expected # 0
    <3>1. decoded # <<>> /\ capture_gaps = (Front - decoded[1]) - Len(decoded)
      BY <2>3 DEF SequenceInv, GapInv
    <3>2. Front = At /\ Front' = At + 1
      BY <1>1, <1>2, <1>3 DEF Front
    <3>3. decoded'[1] = decoded[1] /\ decoded[1] \in Nat /\ decoded' # <<>>
      BY <1>2, <1>4, <3>1
    <3>4. capture_gaps' = (Front' - decoded'[1]) - Len(decoded')
      BY <1>1, <1>3, <1>4, <3>1, <3>2, <3>3
    <3> QED
      BY <1>1, <2>1, <2>3, <3>3, <3>4 DEF GapInv
  <2> QED
    BY <2>2, <2>3
<1> QED
  BY <1>6, <1>7, <1>8 DEF SequenceInv

(* The end of a datagram moves `expected' forward or leaves it.             *)
LEMMA SequenceDone ==
  ASSUME SequenceInv, PayloadDone
  PROVE  SequenceInv'
<1>1. /\ packet # NoPacket /\ position = packet.carried
      /\ expected' = ExpectedAfter /\ packet' = NoPacket /\ position' = 0 /\ skip' = 0
      /\ decoded' = decoded /\ cut' = cut /\ capture_gaps' = capture_gaps
  BY DEF PayloadDone
<1>2. /\ packet.first \in Nat \ {0} /\ packet.count \in Nat \ {0} /\ packet.carried \in Nat
      /\ packet.carried <= packet.count /\ At = packet.first + packet.carried
      /\ expected \in Nat /\ capture_gaps \in Nat /\ decoded \in Seq(Nat) /\ skip \in Nat
  BY <1>1, InsideDatagram DEF SequenceInv, SequenceTypes, At
<1>3. expected' \in Nat \ {0} /\ expected' >= expected /\ expected' >= At
  BY <1>1, <1>2 DEF ExpectedAfter
<1>4. SequenceTypes'
  BY <1>1, <1>3 DEF SequenceInv, SequenceTypes
<1>5. OrderInv'
  <2>1. \A i \in DOMAIN decoded : decoded[i] \in Nat
    BY <1>2
  <2>2. \A i \in DOMAIN decoded : decoded[i] < expected'
    BY <1>2, <1>3, <2>1 DEF SequenceInv, OrderInv
  <2> QED
    BY <1>1, <2>2 DEF SequenceInv, OrderInv, AtMostOnceInOrder
<1>6. GapInv'
  <2> SUFFICES ASSUME ~cut PROVE GapInv'
    BY <1>1 DEF GapInv
  <2>1. packet.carried = packet.count
    BY <1>1 DEF SequenceInv, GapInv
  <2>2. Front' = expected'
    BY <1>1 DEF Front
  <2>3. CASE expected = 0
    <3>1. capture_gaps = 0 /\ Len(decoded) = packet.count
          /\ (decoded # <<>> => decoded[1] = packet.first)
      BY <1>1, <2>1, <2>3 DEF SequenceInv, GapInv
    <3>2. decoded # <<>> /\ expected' = packet.first + packet.count
      BY <1>1, <1>2, <2>3, <3>1 DEF ExpectedAfter
    <3> QED
      BY <1>1, <1>2, <1>3, <2>2, <3>1, <3>2 DEF GapInv
  <2>4. CASE expected # 0
    <3>1. Front = expected'
      BY <1>1, <1>2, <2>1 DEF Front, ExpectedAfter
    <3> QED
      BY <1>1, <1>3, <2>2, <2>4, <3>1 DEF SequenceInv, GapInv
  <2> QED
    BY <2>3, <2>4
<1> QED
  BY <1>4, <1>5, <1>6 DEF SequenceInv

LEMMA SequenceStep ==
  ASSUME SequenceInv, [Next]_handlerVars
  PROVE  SequenceInv'
<1>1. CASE VenueStep \/ PublishUpdate \/ UNCHANGED handlerVars
  <2>1. UNCHANGED seqVars
    BY <1>1 DEF VenueStep, PublishUpdate, handlerVars, seqVars
  <2> QED
    BY <2>1, SequenceStutter
<1>2. CASE \E first \in 1..MaxTape, count \in 1..MaxBatch : \E carried \in 0..count :
             count - carried <= MaxCut /\ OnPayload(first, count, carried)
  BY <1>2, SequenceOnPayload
<1>3. CASE SkipMessage
  BY <1>3, SequenceSkip
<1>4. CASE DecodeMessage
  BY <1>4, SequenceDecode
<1>5. CASE PayloadDone
  BY <1>5, SequenceDone
<1> QED
  BY <1>1, <1>2, <1>3, <1>4, <1>5 DEF Next

LEMMA SequenceAlways == Spec => []SequenceInv
BY SequenceInit, SequenceStep, PTL DEF Spec

(* However datagrams repeat, overlap and overtake each other, each venue    *)
(* message is decoded at most once and in order.                            *)
THEOREM DecodedOnceInOrder == Spec => []AtMostOnceInOrder
<1>1. SequenceInv => AtMostOnceInOrder
  BY DEF SequenceInv, OrderInv
<1> QED
  BY <1>1, SequenceAlways, PTL

(* While no datagram was cut, `capture_gaps' is what was passed over.       *)
THEOREM GapsAreCountedAlways == Spec => []GapsAreCounted
<1>1. SequenceInv => GapsAreCounted
  BY DEF SequenceInv, GapInv, GapsAreCounted, Heard, Front
<1> QED
  BY <1>1, SequenceAlways, PTL

-----------------------------------------------------------------------------
(* The decoder and the published book.                                      *)

VenueOrder == [symbol : Symbol, side : Side, price : Price, size : 1..MaxSize]
Kind == {"add", "delete", "modify", "executed", "trade", "other"}
VenueMessage ==
  [kind : Kind, id : OrderId \cup {0}, symbol : Symbol, side : Side, price : Price,
   size : 1..MaxSize]
Levels == [Symbol -> [Side -> [Price -> Nat]]]

VenueTypes ==
  /\ tape \in Seq(VenueMessage)
  /\ \A i \in DOMAIN tape : tape[i].kind = "add" => tape[i].id \in OrderId
  /\ DOMAIN resting \subseteq OrderId
  /\ \A id \in DOMAIN resting : resting[id] \in VenueOrder

DecoderTypes ==
  /\ DOMAIN orders \subseteq OrderId
  /\ \A id \in DOMAIN orders : orders[id] \in Order
  /\ levels \in Levels
  /\ unknown_references \in Nat
  /\ out \in Seq(Update)
  /\ golden.books \in Levels

(* Only what the venue has sent is handed to the decoder.                   *)
OnTape == packet # NoPacket => packet.first + packet.count - 1 <= Len(tape)

Touches(u, s, side, p) == u.type = side /\ u.symbol = s /\ u.price = p
Untouched(s, side, p) == \A i \in DOMAIN out : ~Touches(out[i], s, side, p)
Published(s, side, p) == levels[s][side][p] % SizeLimit

(* The level is in the published book, or in the last update of it that is  *)
(* still to be published.                                                   *)
Drawn(s, side, p) ==
  \/ Untouched(s, side, p) /\ golden.books[s][side][p] = Published(s, side, p)
  \/ \E i \in DOMAIN out :
       /\ Touches(out[i], s, side, p) /\ out[i].size = Published(s, side, p)
       /\ \A j \in DOMAIN out : j > i => ~Touches(out[j], s, side, p)

DrawInv == \A s \in Symbol, side \in Side, p \in Price : Drawn(s, side, p)

MarketInv == VenueTypes /\ DecoderTypes /\ OnTape /\ DrawInv

LEMMA ModType ==
  ASSUME NEW n \in Nat
  PROVE  n % SizeLimit \in 0..(SizeLimit - 1)
BY DecoderAssumption

LEMMA ModZero == 0 % SizeLimit = 0
BY DecoderAssumption

LEMMA TradeType ==
  ASSUME NEW s \in Symbol, NEW p \in Price, NEW n \in 1..MaxSize
  PROVE  Trade(s, p, n) \in Update /\ Trade(s, p, n).type = "T"
<1>1. n \in 0..(SizeLimit - 1)
  BY HandlerAssumption, DecoderAssumption
<1> QED
  BY <1>1 DEF Trade, Update

LEMMA OrderTypes ==
  ASSUME NEW o \in VenueOrder
  PROVE  /\ o \in Order /\ o.symbol \in Symbol /\ o.side \in Side /\ o.price \in Price
         /\ o.size \in 1..MaxSize
BY HandlerAssumption DEF VenueOrder, Order

LEMMA NewTotalType ==
  ASSUME NEW lv \in Levels, NEW o \in Order, NEW d \in Int
  PROVE  NewTotal(lv, o, d) \in Nat
<1>1. lv[o.symbol][o.side][o.price] \in Nat
  BY DEF Levels, Order
<1> QED
  BY <1>1 DEF NewTotal

(* One level changes, the others stay.                                      *)
LEMMA AddLevelAt ==
  ASSUME NEW lv \in Levels, NEW o \in Order, NEW d \in Int
  PROVE  /\ AddLevel(lv, o, d) \in Levels
         /\ \A s \in Symbol, side \in Side, p \in Price :
              AddLevel(lv, o, d)[s][side][p] =
                IF s = o.symbol /\ side = o.side /\ p = o.price
                THEN NewTotal(lv, o, d) ELSE lv[s][side][p]
<1> DEFINE n == NewTotal(lv, o, d)
<1>1. n \in Nat /\ o.symbol \in Symbol /\ o.side \in Side /\ o.price \in Price
  BY NewTotalType DEF Order
<1>2. AddLevel(lv, o, d) = [lv EXCEPT ![o.symbol][o.side][o.price] = n]
  BY DEF AddLevel
<1> HIDE DEF n
<1>3. [lv EXCEPT ![o.symbol][o.side][o.price] = n] \in Levels
  BY <1>1 DEF Levels
<1>4. \A s \in Symbol, side \in Side, p \in Price :
        [lv EXCEPT ![o.symbol][o.side][o.price] = n][s][side][p] =
          IF s = o.symbol /\ side = o.side /\ p = o.price THEN n ELSE lv[s][side][p]
  BY <1>1 DEF Levels
<1> QED
  BY <1>2, <1>3, <1>4 DEF n

LEMMA AddLevelHere ==
  ASSUME NEW lv \in Levels, NEW o \in Order, NEW d \in Int, NEW new, new = AddLevel(lv, o, d)
  PROVE  new \in Levels /\ new[o.symbol][o.side][o.price] = NewTotal(lv, o, d)
BY AddLevelAt DEF Order

LEMMA AddLevelElsewhere ==
  ASSUME NEW lv \in Levels, NEW o \in Order, NEW d \in Int, NEW new, new = AddLevel(lv, o, d),
         NEW s \in Symbol, NEW side \in Side, NEW p \in Price,
         ~(s = o.symbol /\ side = o.side /\ p = o.price)
  PROVE  new[s][side][p] = lv[s][side][p]
BY AddLevelAt

LEMMA LevelUpdateType ==
  ASSUME NEW lv \in Levels, NEW o \in Order, NEW d \in Int
  PROVE  /\ LevelUpdate(lv, o, d) \in Update
         /\ LevelUpdate(lv, o, d).type = o.side
         /\ LevelUpdate(lv, o, d).symbol = o.symbol
         /\ LevelUpdate(lv, o, d).price = o.price
         /\ LevelUpdate(lv, o, d).size = NewTotal(lv, o, d) % SizeLimit
<1>1. NewTotal(lv, o, d) % SizeLimit \in 0..(SizeLimit - 1)
  BY NewTotalType, ModType
<1>2. o.side \in {"B", "S"} /\ o.symbol \in Symbol /\ o.price \in Price
  BY DEF Order, Side
<1> QED
  BY <1>1, <1>2 DEF LevelUpdate, Update

(* With nothing left to publish the book is the levels.                     *)
LEMMA NothingPending ==
  ASSUME DrawInv, out = <<>>, NEW s \in Symbol, NEW side \in Side, NEW p \in Price
  PROVE  golden.books[s][side][p] = Published(s, side, p)
<1>1. DOMAIN out = {}
  OBVIOUS
<1> QED
  BY <1>1 DEF DrawInv, Drawn

(* A message that changes one level and says so.                            *)
LEMMA OneLevel ==
  ASSUME DecoderTypes, DrawInv, out = <<>>, golden' = golden,
         NEW o \in Order, NEW d \in Int, levels' = AddLevel(levels, o, d),
         out' \in Seq(Update), out' # <<>>, out'[1] = LevelUpdate(levels, o, d),
         \A i \in DOMAIN out' : i > 1 => out'[i].type = "T"
  PROVE  DrawInv'
<1> SUFFICES ASSUME NEW s \in Symbol, NEW side \in Side, NEW p \in Price
             PROVE  Drawn(s, side, p)'
  BY DEF DrawInv
<1>1. levels \in Levels
  BY DEF DecoderTypes
<1>2. 1 \in DOMAIN out' /\ DOMAIN out' = 1..Len(out') /\ Len(out') \in Nat
  OBVIOUS
<1>3. "T" \notin Side /\ side # "T"
  BY DEF Side
<1>4. \A j \in DOMAIN out' : j > 1 => ~Touches(out'[j], s, side, p)
  BY <1>3 DEF Touches
<1>5. golden'.books[s][side][p] = levels[s][side][p] % SizeLimit
  BY NothingPending DEF Published
<1>6. CASE s = o.symbol /\ side = o.side /\ p = o.price
  <2>1. levels'[s][side][p] = NewTotal(levels, o, d)
    BY <1>1, <1>6, AddLevelAt
  <2>2. Touches(out'[1], s, side, p) /\ out'[1].size = Published(s, side, p)'
    BY <1>1, <1>6, <2>1, LevelUpdateType DEF Touches, Published
  <2> QED
    BY <1>2, <1>4, <2>2 DEF Drawn
<1>7. CASE ~(s = o.symbol /\ side = o.side /\ p = o.price)
  <2>1. levels'[s][side][p] = levels[s][side][p]
    BY <1>1, <1>7, AddLevelAt
  <2>2. ~Touches(out'[1], s, side, p)
    BY <1>1, <1>7, LevelUpdateType DEF Touches
  <2>3. \A i \in DOMAIN out' : ~Touches(out'[i], s, side, p)
    BY <1>2, <1>4, <2>2
  <2>4. golden'.books[s][side][p] = Published(s, side, p)'
    BY <1>5, <2>1 DEF Published
  <2> QED
    BY <2>3, <2>4 DEF Drawn, Untouched
<1> QED
  BY <1>6, <1>7

(* An order that moves: the level it leaves, then the one it joins.         *)
LEMMA TwoLevels ==
  ASSUME DecoderTypes, DrawInv, out = <<>>, golden' = golden,
         NEW o \in Order, NEW q \in Order, NEW d \in Int, NEW e \in Int,
         q.symbol = o.symbol, q.side = o.side, q.price # o.price,
         NEW left, left = AddLevel(levels, o, d),
         levels' = AddLevel(left, q, e),
         out' = <<LevelUpdate(levels, o, d), LevelUpdate(left, q, e)>>
  PROVE  DrawInv'
<1> SUFFICES ASSUME NEW s \in Symbol, NEW side \in Side, NEW p \in Price
             PROVE  Drawn(s, side, p)'
  BY DEF DrawInv
<1>1. levels \in Levels /\ left \in Levels
  BY AddLevelAt DEF DecoderTypes
<1>2. /\ DOMAIN out' = {1, 2} /\ out'[1] = LevelUpdate(levels, o, d)
      /\ out'[2] = LevelUpdate(left, q, e)
  OBVIOUS
<1>3. golden'.books[s][side][p] = levels[s][side][p] % SizeLimit
  BY NothingPending DEF Published
<1>4. /\ Touches(out'[1], s, side, p) <=> (s = o.symbol /\ side = o.side /\ p = o.price)
      /\ Touches(out'[2], s, side, p) <=> (s = o.symbol /\ side = o.side /\ p = q.price)
      /\ out'[1].size = NewTotal(levels, o, d) % SizeLimit
      /\ out'[2].size = NewTotal(left, q, e) % SizeLimit
  BY <1>1, <1>2, LevelUpdateType DEF Touches
<1>5. /\ left[o.symbol][o.side][o.price] = NewTotal(levels, o, d)
      /\ levels'[q.symbol][q.side][q.price] = NewTotal(left, q, e)
  BY <1>1, AddLevelHere
<1>6. ~(s = o.symbol /\ side = o.side /\ p = o.price) => left[s][side][p] = levels[s][side][p]
  BY <1>1, AddLevelElsewhere
<1>10. ~(s = q.symbol /\ side = q.side /\ p = q.price) => levels'[s][side][p] = left[s][side][p]
  BY <1>1, AddLevelElsewhere
<1>7. CASE s = o.symbol /\ side = o.side /\ p = o.price
  <2>1. Touches(out'[1], s, side, p) /\ ~Touches(out'[2], s, side, p)
    BY <1>4, <1>7
  <2>2. out'[1].size = Published(s, side, p)'
    BY <1>4, <1>5, <1>10, <1>7 DEF Published
  <2> QED
    BY <1>2, <2>1, <2>2 DEF Drawn
<1>8. CASE s = o.symbol /\ side = o.side /\ p = q.price
  <2>1. Touches(out'[2], s, side, p)
    BY <1>4, <1>8
  <2>2. out'[2].size = Published(s, side, p)'
    BY <1>4, <1>5, <1>8 DEF Published
  <2> QED
    BY <1>2, <2>1, <2>2 DEF Drawn
<1>9. CASE ~(s = o.symbol /\ side = o.side /\ (p = o.price \/ p = q.price))
  <2>1. ~Touches(out'[1], s, side, p) /\ ~Touches(out'[2], s, side, p)
    BY <1>4, <1>9
  <2>2. golden'.books[s][side][p] = Published(s, side, p)'
    BY <1>3, <1>6, <1>10, <1>9 DEF Published
  <2> QED
    BY <1>2, <2>1, <2>2 DEF Drawn, Untouched
<1> QED
  BY <1>7, <1>8, <1>9

(* A message that changes no level.                                         *)
LEMMA NoLevel ==
  ASSUME DrawInv, out = <<>>, golden' = golden, levels' = levels,
         \A i \in DOMAIN out' : out'[i].type = "T"
  PROVE  DrawInv'
<1> SUFFICES ASSUME NEW s \in Symbol, NEW side \in Side, NEW p \in Price
             PROVE  Drawn(s, side, p)'
  BY DEF DrawInv
<1>1. golden'.books[s][side][p] = Published(s, side, p)'
  BY NothingPending DEF Published
<1>2. side # "T"
  BY DEF Side
<1> QED
  BY <1>1, <1>2 DEF Drawn, Untouched, Touches

(* The maps of the decoder with one order more, changed or gone.            *)
LEMMA RememberType ==
  ASSUME DecoderTypes, NEW id \in OrderId, NEW o \in Order
  PROVE  /\ DOMAIN Remember(id, o) \subseteq OrderId
         /\ \A i \in DOMAIN Remember(id, o) : Remember(id, o)[i] \in Order
BY DEF DecoderTypes, Remember

LEMMA ForgetType ==
  ASSUME DecoderTypes, NEW id
  PROVE  /\ DOMAIN Forget(id) \subseteq OrderId
         /\ \A i \in DOMAIN Forget(id) : Forget(id)[i] \in Order
BY DEF DecoderTypes, Forget, Restrict

(* What a message can carry.                                                *)
LEMMA MessageTypes ==
  ASSUME NEW m \in VenueMessage
  PROVE  /\ m.symbol \in Symbol /\ m.side \in Side /\ m.price \in Price
         /\ m.size \in 1..MaxSize /\ m.size \in Nat
BY HandlerAssumption DEF VenueMessage

LEMMA KnownOrder ==
  ASSUME DecoderTypes, NEW id, Known(id)
  PROVE  /\ id \in OrderId /\ orders[id] \in Order
         /\ orders[id].symbol \in Symbol /\ orders[id].side \in Side
         /\ orders[id].price \in Price /\ orders[id].size \in Nat
BY DEF DecoderTypes, Known, Order

DecodeFacts == DecoderTypes' /\ DrawInv'

LEMMA DecodeAdd ==
  ASSUME DecoderTypes, DrawInv, out = <<>>, golden' = golden,
         NEW m \in VenueMessage, m.id \in OrderId, OrderAdd(m)
  PROVE  DecodeFacts
<1> DEFINE o == [symbol |-> m.symbol, side |-> m.side, price |-> m.price, size |-> m.size]
<1>1. o \in Order /\ o.size \in Int
  BY MessageTypes DEF Order
<1>2. /\ orders' = Remember(m.id, o) /\ levels' = AddLevel(levels, o, o.size)
      /\ out' = <<LevelUpdate(levels, o, o.size)>> /\ unknown_references' = unknown_references
  BY DEF OrderAdd
<1> HIDE DEF o
<1>3. levels \in Levels /\ levels' \in Levels
  BY <1>1, <1>2, AddLevelHere DEF DecoderTypes
<1>4. LevelUpdate(levels, o, o.size) \in Update
  BY <1>1, <1>3, LevelUpdateType
<1>5. out' \in Seq(Update) /\ out' # <<>> /\ out'[1] = LevelUpdate(levels, o, o.size)
      /\ \A i \in DOMAIN out' : i > 1 => out'[i].type = "T"
  BY <1>2, <1>4
<1>6. DrawInv'
  BY <1>1, <1>2, <1>5, OneLevel
<1> QED
  BY <1>1, <1>2, <1>3, <1>5, <1>6, RememberType DEF DecodeFacts, DecoderTypes

LEMMA DecodeDelete ==
  ASSUME DecoderTypes, DrawInv, out = <<>>, golden' = golden,
         NEW m \in VenueMessage, OrderDelete(m)
  PROVE  DecodeFacts
<1> DEFINE o == orders[m.id]
<1>1. o \in Order /\ -o.size \in Int
  BY KnownOrder DEF OrderDelete
<1>2. /\ orders' = Forget(m.id) /\ levels' = AddLevel(levels, o, -o.size)
      /\ out' = <<LevelUpdate(levels, o, -o.size)>> /\ unknown_references' = unknown_references
  BY DEF OrderDelete
<1> HIDE DEF o
<1>3. levels \in Levels /\ levels' \in Levels
  BY <1>1, <1>2, AddLevelHere DEF DecoderTypes
<1>4. LevelUpdate(levels, o, -o.size) \in Update
  BY <1>1, <1>3, LevelUpdateType
<1>5. out' \in Seq(Update) /\ out' # <<>> /\ out'[1] = LevelUpdate(levels, o, -o.size)
      /\ \A i \in DOMAIN out' : i > 1 => out'[i].type = "T"
  BY <1>2, <1>4
<1>6. DrawInv'
  BY <1>1, <1>2, <1>5, OneLevel
<1> QED
  BY <1>1, <1>2, <1>3, <1>5, <1>6, ForgetType DEF DecodeFacts, DecoderTypes

LEMMA DecodeModify ==
  ASSUME DecoderTypes, DrawInv, out = <<>>, golden' = golden,
         NEW m \in VenueMessage, OrderModify(m)
  PROVE  DecodeFacts
<1> DEFINE o == orders[m.id]
           moved == [o EXCEPT !.price = m.price, !.size = m.size]
           left == AddLevel(levels, o, -o.size)
<1>1. m.id \in OrderId /\ o \in Order /\ o.size \in Nat /\ m.size \in Nat
  BY KnownOrder, MessageTypes DEF OrderModify
<1>2. moved \in Order /\ moved.symbol = o.symbol /\ moved.side = o.side /\ moved.price = m.price
  <2>1. m.price \in Price
    BY MessageTypes
  <2>2. moved = [o EXCEPT !.price = m.price, !.size = m.size]
    OBVIOUS
  <2> HIDE DEF o, moved
  <2> QED
    BY <1>1, <2>1, <2>2 DEF Order
<1>3. orders' = Remember(m.id, moved) /\ unknown_references' = unknown_references
  BY DEF OrderModify
<1>4. levels \in Levels
  BY DEF DecoderTypes
<1>5. \/ /\ m.price = o.price
         /\ levels' = AddLevel(levels, o, m.size - o.size)
         /\ out' = <<LevelUpdate(levels, o, m.size - o.size)>>
      \/ /\ m.price # o.price
         /\ levels' = AddLevel(left, moved, m.size)
         /\ out' = <<LevelUpdate(levels, o, -o.size), LevelUpdate(left, moved, m.size)>>
  BY DEF OrderModify
<1> HIDE DEF o, moved
<1>6. CASE /\ levels' = AddLevel(levels, o, m.size - o.size)
           /\ out' = <<LevelUpdate(levels, o, m.size - o.size)>>
  <2> DEFINE d == m.size - o.size
  <2>1. d \in Int
    BY <1>1
  <2>2. levels' = AddLevel(levels, o, d) /\ out' = <<LevelUpdate(levels, o, d)>>
    BY <1>6
  <2> HIDE DEF d
  <2>3. levels' \in Levels
    BY <1>1, <1>4, <2>1, <2>2, AddLevelHere
  <2>4. LevelUpdate(levels, o, d) \in Update
    BY <1>1, <1>4, <2>1, LevelUpdateType
  <2>5. out' \in Seq(Update) /\ out' # <<>> /\ out'[1] = LevelUpdate(levels, o, d)
        /\ \A i \in DOMAIN out' : i > 1 => out'[i].type = "T"
    BY <2>2, <2>4
  <2>6. DrawInv'
    BY <1>1, <2>1, <2>2, <2>5, OneLevel
  <2> QED
    BY <1>1, <1>2, <1>3, <2>3, <2>5, <2>6, RememberType DEF DecodeFacts, DecoderTypes
<1>7. CASE /\ m.price # o.price
           /\ levels' = AddLevel(left, moved, m.size)
           /\ out' = <<LevelUpdate(levels, o, -o.size), LevelUpdate(left, moved, m.size)>>
  <2> DEFINE d == -o.size
  <2>1. d \in Int /\ m.size \in Int
    BY <1>1
  <2>2. left = AddLevel(levels, o, d)
    OBVIOUS
  <2>3. out' = <<LevelUpdate(levels, o, d), LevelUpdate(left, moved, m.size)>>
    BY <1>7
  <2> HIDE DEF d, left
  <2>4. left \in Levels
    BY <1>1, <1>4, <2>1, <2>2, AddLevelHere
  <2>5. levels' \in Levels
    BY <1>2, <1>7, <2>1, <2>4, AddLevelHere
  <2>6. LevelUpdate(levels, o, d) \in Update /\ LevelUpdate(left, moved, m.size) \in Update
    BY <1>1, <1>2, <1>4, <2>1, <2>4, LevelUpdateType
  <2>7. out' \in Seq(Update)
    BY <2>3, <2>6
  <2>8. DrawInv'
    BY <1>1, <1>2, <1>7, <2>1, <2>2, <2>3, TwoLevels
  <2> QED
    BY <1>1, <1>2, <1>3, <2>5, <2>7, <2>8, RememberType DEF DecodeFacts, DecoderTypes
<1> QED
  BY <1>5, <1>6, <1>7

LEMMA DecodeExecuted ==
  ASSUME DecoderTypes, DrawInv, out = <<>>, golden' = golden,
         NEW m \in VenueMessage, OrderExecuted(m)
  PROVE  DecodeFacts
<1> DEFINE o == orders[m.id]
           d == -m.size
           rest == [o EXCEPT !.size = o.size - m.size]
<1>1. m.id \in OrderId /\ o \in Order /\ o.size \in Nat /\ d \in Int
  BY KnownOrder, MessageTypes DEF OrderExecuted
<1>2. /\ levels' = AddLevel(levels, o, d)
      /\ out' = <<LevelUpdate(levels, o, d), Trade(o.symbol, m.price, m.size)>>
      /\ orders' = IF m.size >= o.size THEN Forget(m.id) ELSE Remember(m.id, rest)
      /\ unknown_references' = unknown_references
  BY DEF OrderExecuted
<1>3. m.size >= o.size \/ rest \in Order
  <2>1. m.size \in Nat
    BY MessageTypes
  <2>2. m.size >= o.size \/ o.size - m.size \in Nat
    BY <1>1, <2>1
  <2> HIDE DEF o
  <2> QED
    BY <1>1, <2>2 DEF Order
<1> HIDE DEF o, d, rest
<1>4. levels \in Levels /\ levels' \in Levels
  BY <1>1, <1>2, AddLevelHere DEF DecoderTypes
<1>5. /\ LevelUpdate(levels, o, d) \in Update
      /\ Trade(o.symbol, m.price, m.size) \in Update
      /\ Trade(o.symbol, m.price, m.size).type = "T"
  <2>1. o.symbol \in Symbol /\ m.price \in Price /\ m.size \in 1..MaxSize
    BY <1>1, MessageTypes DEF Order
  <2> QED
    BY <1>1, <1>4, <2>1, LevelUpdateType, TradeType
<1>6. out' \in Seq(Update) /\ out' # <<>> /\ out'[1] = LevelUpdate(levels, o, d)
      /\ \A i \in DOMAIN out' : i > 1 => out'[i].type = "T"
  <2>1. DOMAIN out' = 1..2 /\ out'[2] = Trade(o.symbol, m.price, m.size)
    BY <1>2
  <2>2. out' \in Seq(Update) /\ out' # <<>> /\ out'[1] = LevelUpdate(levels, o, d)
    BY <1>2, <1>5
  <2>3. \A i \in DOMAIN out' : i > 1 => i = 2
    BY <2>1
  <2> QED
    BY <1>5, <2>1, <2>2, <2>3
<1>7. DrawInv'
  BY <1>1, <1>2, <1>6, OneLevel
<1>8. DOMAIN orders' \subseteq OrderId /\ \A id \in DOMAIN orders' : orders'[id] \in Order
  <2>1. CASE m.size >= o.size
    BY <1>2, <2>1, ForgetType
  <2>2. CASE ~(m.size >= o.size)
    BY <1>1, <1>2, <1>3, <2>2, RememberType
  <2> QED
    BY <2>1, <2>2
<1> QED
  BY <1>2, <1>4, <1>6, <1>7, <1>8 DEF DecodeFacts, DecoderTypes

(* A reference that is not known, a report of a trade, any other message.   *)
LEMMA DecodeNoLevel ==
  ASSUME DecoderTypes, DrawInv, out = <<>>, golden' = golden, NEW m \in VenueMessage,
         UnknownReference(m) \/ TradeReport(m) \/ Ignored(m)
  PROVE  DecodeFacts
<1>1. /\ orders' = orders /\ levels' = levels
      /\ unknown_references' \in Nat
      /\ out' = <<>> \/ out' = <<Trade(m.symbol, m.price, m.size)>>
  <2>1. unknown_references \in Nat
    BY DEF DecoderTypes
  <2> QED
    BY <2>1 DEF UnknownReference, TradeReport, Ignored, decoderVars
<1>2. Trade(m.symbol, m.price, m.size) \in Update /\ Trade(m.symbol, m.price, m.size).type = "T"
  BY MessageTypes, TradeType
<1>3. out' \in Seq(Update) /\ \A i \in DOMAIN out' : out'[i].type = "T"
  <2>1. CASE out' = <<>>
    <3>1. DOMAIN out' = {}
      BY <2>1
    <3> QED
      BY <2>1, <3>1
  <2>2. CASE out' = <<Trade(m.symbol, m.price, m.size)>>
    <3>1. DOMAIN out' = {1} /\ out'[1] = Trade(m.symbol, m.price, m.size)
      BY <2>2
    <3> QED
      BY <1>2, <2>2, <3>1
  <2> QED
    BY <1>1, <2>1, <2>2
<1>4. DrawInv'
  BY <1>1, <1>3, NoLevel
<1> QED
  BY <1>1, <1>3, <1>4 DEF DecodeFacts, DecoderTypes

-----------------------------------------------------------------------------
(* The steps of the handler and of the venue.                               *)

LEMMA MarketInit == Init => MarketInv
<1> SUFFICES ASSUME Init PROVE MarketInv
  OBVIOUS
<1>1. /\ tape = <<>> /\ resting = [id \in {} |-> 0] /\ packet = NoPacket
      /\ golden = Golden!NoBooks /\ orders = [id \in {} |-> 0] /\ out = <<>>
      /\ levels = [s \in Symbol |-> [side \in Side |-> [p \in Price |-> 0]]]
      /\ unknown_references = 0
  BY DEF Init, DecoderInit
<1>2. golden.books = [s \in Symbol |-> [side \in Side |-> [p \in Price |-> 0]]]
  BY <1>1 DEF Golden!NoBooks, Golden!EmptyBook, Side
<1>3. levels \in Levels /\ golden.books \in Levels
  BY <1>1, <1>2 DEF Levels
<1>4. DOMAIN out = {} /\ DOMAIN orders = {} /\ DOMAIN resting = {} /\ DOMAIN tape = {}
      /\ out \in Seq(Update) /\ tape \in Seq(VenueMessage)
  BY <1>1
<1>5. VenueTypes
  BY <1>4 DEF VenueTypes
<1>6. DecoderTypes
  BY <1>1, <1>3, <1>4 DEF DecoderTypes
<1>7. DrawInv
  <2> SUFFICES ASSUME NEW s \in Symbol, NEW side \in Side, NEW p \in Price
               PROVE  Drawn(s, side, p)
    BY DEF DrawInv
  <2>1. levels[s][side][p] = 0 /\ golden.books[s][side][p] = 0
    BY <1>1, <1>2
  <2> QED
    BY <1>4, <2>1, ModZero DEF Drawn, Untouched, Published
<1> QED
  BY <1>1, <1>5, <1>6, <1>7 DEF MarketInv, OnTape

(* Steps that leave the decoder and the published book alone.               *)
LEMMA DecoderStutter ==
  ASSUME DecoderTypes, DrawInv, UNCHANGED <<decoderVars, golden>>
  PROVE  DecoderTypes' /\ DrawInv'
BY DEF DecoderTypes, DrawInv, Drawn, Untouched, Published, Touches, decoderVars


(* A message the venue sends is one of an order that rests, or of none.     *)
LEMMA VenueSends ==
  ASSUME VenueTypes, NEW m \in VenueMessage, m.kind = "add" => m.id \in OrderId,
         NEW book, Sends(m, book), DOMAIN book \subseteq OrderId,
         \A id \in DOMAIN book : book[id] \in VenueOrder
  PROVE  VenueTypes' /\ Len(tape') = Len(tape) + 1
<1>1. tape \in Seq(VenueMessage) /\ tape' = Append(tape, m) /\ resting' = book
  BY DEF VenueTypes, Sends
<1>2. /\ tape' \in Seq(VenueMessage) /\ Len(tape') = Len(tape) + 1
      /\ \A i \in DOMAIN tape' : IF i = Len(tape) + 1 THEN tape'[i] = m
                                 ELSE i \in DOMAIN tape /\ tape'[i] = tape[i]
  BY <1>1
<1>3. \A i \in DOMAIN tape' : tape'[i].kind = "add" => tape'[i].id \in OrderId
  BY <1>2 DEF VenueTypes
<1> QED
  BY <1>1, <1>2, <1>3 DEF VenueTypes

LEMMA MessageOfOrder ==
  ASSUME NEW kind \in Kind, NEW id \in OrderId \cup {0}, NEW o \in VenueOrder
  PROVE  /\ Message(kind, id, o) \in VenueMessage
         /\ Message(kind, id, o).kind = kind /\ Message(kind, id, o).id = id
BY DEF Message, VenueMessage, VenueOrder

LEMMA RestsType ==
  ASSUME VenueTypes, NEW id \in OrderId, NEW o \in VenueOrder
  PROVE  /\ DOMAIN Rests(id, o) \subseteq OrderId
         /\ \A i \in DOMAIN Rests(id, o) : Rests(id, o)[i] \in VenueOrder
BY DEF VenueTypes, Rests

LEMMA LeavesType ==
  ASSUME VenueTypes, NEW id
  PROVE  /\ DOMAIN Leaves(id) \subseteq OrderId
         /\ \A i \in DOMAIN Leaves(id) : Leaves(id)[i] \in VenueOrder
BY DEF VenueTypes, Leaves, Restrict

LEMMA MarketVenue ==
  ASSUME VenueTypes, VenueStep
  PROVE  VenueTypes'
<1>1. CASE VenueAdds
  <2>1. PICK id \in OrderId, o \in [symbol : Symbol, side : Side, price : Price, size : Size] :
          Sends(Message("add", id, o), Rests(id, o))
    BY <1>1 DEF VenueAdds
  <2>2. o \in VenueOrder
    BY DEF VenueOrder, Size
  <2>3. Message("add", id, o) \in VenueMessage /\ Message("add", id, o).id = id
    BY <2>2, MessageOfOrder DEF Kind
  <2>4. /\ DOMAIN Rests(id, o) \subseteq OrderId
        /\ \A i \in DOMAIN Rests(id, o) : Rests(id, o)[i] \in VenueOrder
    BY <2>2, RestsType
  <2> QED
    BY <2>1, <2>2, <2>3, <2>4, VenueSends
<1>2. CASE VenueDeletes
  <2>1. PICK id \in DOMAIN resting : Sends(Message("delete", id, resting[id]), Leaves(id))
    BY <1>2 DEF VenueDeletes
  <2>2. id \in OrderId /\ resting[id] \in VenueOrder
    BY DEF VenueTypes
  <2>3. /\ Message("delete", id, resting[id]) \in VenueMessage
        /\ Message("delete", id, resting[id]).kind # "add"
    BY <2>2, MessageOfOrder DEF Kind
  <2>4. /\ DOMAIN Leaves(id) \subseteq OrderId
        /\ \A i \in DOMAIN Leaves(id) : Leaves(id)[i] \in VenueOrder
    BY LeavesType
  <2> QED
    BY <2>1, <2>3, <2>4, VenueSends
<1>3. CASE VenueModifies
  <2>1. PICK id \in DOMAIN resting, p \in Price, n \in Size :
          LET o == [resting[id] EXCEPT !.price = p, !.size = n]
          IN  o # resting[id] /\ Sends(Message("modify", id, o), Rests(id, o))
    BY <1>3, Zenon DEF VenueModifies
  <2> DEFINE was == resting[id]
             o == [was EXCEPT !.price = p, !.size = n]
  <2>2. id \in OrderId /\ was \in VenueOrder
    BY DEF VenueTypes
  <2>3. Sends(Message("modify", id, o), Rests(id, o))
    BY <2>1
  <2>4. o \in VenueOrder
    <3> HIDE DEF was
    <3> QED
      BY <2>2 DEF VenueOrder, Size
  <2> HIDE DEF o
  <2>5. Message("modify", id, o) \in VenueMessage /\ Message("modify", id, o).kind # "add"
    BY <2>2, <2>4, MessageOfOrder DEF Kind
  <2>6. /\ DOMAIN Rests(id, o) \subseteq OrderId
        /\ \A i \in DOMAIN Rests(id, o) : Rests(id, o)[i] \in VenueOrder
    BY <2>2, <2>4, RestsType
  <2> QED
    BY <2>3, <2>5, <2>6, VenueSends
<1>4. CASE VenueExecutes
  <2>1. PICK id \in DOMAIN resting : \E n \in 1..resting[id].size :
          LET o == resting[id]
          IN  Sends(Message("executed", id, [o EXCEPT !.size = n]),
                    IF n = o.size THEN Leaves(id) ELSE Rests(id, [o EXCEPT !.size = o.size - n]))
    BY <1>4, Zenon DEF VenueExecutes
  <2> DEFINE o == resting[id]
  <2>2. PICK n \in 1..o.size :
          Sends(Message("executed", id, [o EXCEPT !.size = n]),
                IF n = o.size THEN Leaves(id) ELSE Rests(id, [o EXCEPT !.size = o.size - n]))
    BY <2>1
  <2>3. id \in OrderId /\ o \in VenueOrder
    BY DEF VenueTypes
  <2> DEFINE part == [o EXCEPT !.size = n]
             left == [o EXCEPT !.size = o.size - n]
             book == IF n = o.size THEN Leaves(id) ELSE Rests(id, left)
  <2> HIDE DEF o
  <2>4. part \in VenueOrder /\ (n # o.size => left \in VenueOrder)
    BY <2>3, HandlerAssumption DEF VenueOrder
  <2>5. Sends(Message("executed", id, part), book)
    BY <2>2
  <2> HIDE DEF part, left
  <2>6. DOMAIN book \subseteq OrderId /\ \A i \in DOMAIN book : book[i] \in VenueOrder
    BY <2>3, <2>4, LeavesType, RestsType
  <2> HIDE DEF book
  <2>7. /\ Message("executed", id, part) \in VenueMessage
        /\ Message("executed", id, part).kind # "add"
    BY <2>3, <2>4, MessageOfOrder DEF Kind
  <2> QED
    BY <2>5, <2>6, <2>7, VenueSends
<1>5. CASE VenueOther
  <2> DEFINE somewhere == CHOOSE p \in Price : TRUE
  <2>1. PICK kind \in {"trade", "other"}, s \in Symbol :
          Sends(Message(kind, 0, [symbol |-> s, side |-> "B", price |-> somewhere, size |-> 1]),
                resting)
    BY <1>5 DEF VenueOther
  <2>2. somewhere \in Price
    BY HandlerAssumption
  <2> HIDE DEF somewhere
  <2> DEFINE o == [symbol |-> s, side |-> "B", price |-> somewhere, size |-> 1]
  <2>3. o \in VenueOrder
    BY <2>2, HandlerAssumption DEF VenueOrder, Side
  <2>4. Sends(Message(kind, 0, o), resting)
    BY <2>1
  <2> HIDE DEF o
  <2>5. DOMAIN resting \subseteq OrderId /\ \A i \in DOMAIN resting : resting[i] \in VenueOrder
    BY DEF VenueTypes
  <2>6. kind # "add" /\ kind \in Kind
    BY DEF Kind
  <2>7. Message(kind, 0, o) \in VenueMessage /\ Message(kind, 0, o).kind # "add"
    BY <2>3, <2>6, MessageOfOrder
  <2> QED
    BY <2>4, <2>5, <2>7, VenueSends
<1> QED
  BY <1>1, <1>2, <1>3, <1>4, <1>5 DEF VenueStep

(* What is handed to the decoder is on the tape.                            *)
LEMMA MarketDecode ==
  ASSUME SequenceInv, MarketInv, DecodeMessage
  PROVE  MarketInv'
<1> DEFINE m == tape[packet.first + position]
<1>1. /\ packet # NoPacket /\ out = <<>> /\ position < packet.carried
      /\ Decode(m) /\ golden' = golden /\ UNCHANGED <<venueVars, packet>>
  BY DEF DecodeMessage, AtMessage
<1>2. tape \in Seq(VenueMessage) /\ packet.first + position \in DOMAIN tape
  <2>1. packet.first + packet.count - 1 <= Len(tape)
    BY <1>1 DEF MarketInv, OnTape
  <2>2. tape \in Seq(VenueMessage)
    BY DEF MarketInv, VenueTypes
  <2> QED
    BY <1>1, <2>1, <2>2, InsideDatagram
<1>3. m \in VenueMessage /\ (m.kind = "add" => m.id \in OrderId)
  BY <1>2 DEF MarketInv, VenueTypes
<1> HIDE DEF m
<1>4. DecoderTypes /\ DrawInv
  BY DEF MarketInv
<1>5. DecodeFacts
  <2>1. CASE OrderAdd(m)
    <3>1. m.kind = "add"
      BY <2>1 DEF OrderAdd
    <3> QED
      BY <1>1, <1>3, <1>4, <2>1, <3>1, DecodeAdd
  <2>2. CASE OrderDelete(m)
    BY <1>1, <1>3, <1>4, <2>2, DecodeDelete
  <2>3. CASE OrderModify(m)
    BY <1>1, <1>3, <1>4, <2>3, DecodeModify
  <2>4. CASE OrderExecuted(m)
    BY <1>1, <1>3, <1>4, <2>4, DecodeExecuted
  <2>5. CASE UnknownReference(m) \/ TradeReport(m) \/ Ignored(m)
    BY <1>1, <1>3, <1>4, <2>5, DecodeNoLevel
  <2> QED
    BY <1>1, <2>1, <2>2, <2>3, <2>4, <2>5 DEF Decode
<1>6. VenueTypes' /\ OnTape'
  BY <1>1 DEF MarketInv, VenueTypes, OnTape, venueVars
<1> QED
  BY <1>5, <1>6 DEF DecodeFacts, MarketInv


(* An update that is published sets its level, and no other.                *)
LEMMA PublishedBook ==
  ASSUME NEW set, set.books \in Levels, NEW u \in Update,
         NEW new, new = Golden!AppliedToSet(set, u)
  PROVE  /\ new.books \in Levels
         /\ \A s \in Symbol, side \in Side, p \in Price :
              new.books[s][side][p] =
                IF Touches(u, s, side, p) THEN u.size ELSE set.books[s][side][p]
<1> DEFINE book == set.books[u.symbol]
           applied == Golden!Applied(book, u)
<1>1. /\ u.symbol \in Symbol /\ u.price \in Price /\ u.size \in Nat
      /\ u.type \in Side \/ u.type = "T"
  BY DecoderAssumption DEF Update, Side
<1>2. book \in [Side -> [Price -> Nat]]
  BY <1>1 DEF Levels
<1>3. new.books = [set.books EXCEPT ![u.symbol] = applied]
  BY DEF Golden!AppliedToSet
<1> HIDE DEF book
<1>4. applied = IF u.type \in Side THEN [book EXCEPT ![u.type][u.price] = u.size] ELSE book
  BY DEF Golden!Applied, Side
<1>5. /\ applied \in [Side -> [Price -> Nat]]
      /\ \A side \in Side, p \in Price :
           applied[side][p] = IF u.type = side /\ u.price = p THEN u.size ELSE book[side][p]
  <2>1. CASE u.type \in Side
    BY <1>1, <1>2, <1>4, <2>1
  <2>2. CASE u.type \notin Side
    BY <1>2, <1>4, <2>2
  <2> QED
    BY <2>1, <2>2
<1> HIDE DEF applied
<1>6. new.books \in Levels
  BY <1>1, <1>3, <1>5 DEF Levels
<1>7. \A s \in Symbol : new.books[s] = IF s = u.symbol THEN applied ELSE set.books[s]
  BY <1>1, <1>3, <1>5 DEF Levels
<1> QED
  BY <1>5, <1>6, <1>7 DEF Touches, book

LEMMA MarketPublish ==
  ASSUME MarketInv, PublishUpdate
  PROVE  MarketInv'
<1> DEFINE u == Head(out)
<1>1. /\ out # <<>> /\ out' = Tail(out) /\ golden' = Golden!AppliedToSet(golden, u)
      /\ UNCHANGED <<venueVars, orders, levels, unknown_references, packet>>
  BY DEF PublishUpdate
<1>2. out \in Seq(Update) /\ golden.books \in Levels
  BY DEF MarketInv, DecoderTypes
<1>3. /\ u \in Update /\ u = out[1] /\ out' \in Seq(Update) /\ Len(out) \in Nat \ {0}
      /\ DOMAIN out = 1..Len(out) /\ DOMAIN out' = 1..(Len(out) - 1)
      /\ \A i \in DOMAIN out' : out'[i] = out[i + 1]
  BY <1>1, <1>2
<1> HIDE DEF u
<1>4. /\ golden'.books \in Levels
      /\ \A s \in Symbol, side \in Side, p \in Price :
           golden'.books[s][side][p] =
             IF Touches(u, s, side, p) THEN u.size ELSE golden.books[s][side][p]
  BY <1>1, <1>2, <1>3, PublishedBook
<1>5. DecoderTypes'
  BY <1>1, <1>3, <1>4 DEF MarketInv, DecoderTypes
<1>6. DrawInv'
  <2> SUFFICES ASSUME NEW s \in Symbol, NEW side \in Side, NEW p \in Price
               PROVE  Drawn(s, side, p)'
    BY DEF DrawInv
  <2>1. Published(s, side, p)' = Published(s, side, p)
    BY <1>1 DEF Published
  <2>2. CASE Untouched(s, side, p) /\ golden.books[s][side][p] = Published(s, side, p)
    <3>1. ~Touches(u, s, side, p) /\ \A i \in DOMAIN out' : ~Touches(out'[i], s, side, p)
      BY <1>3, <2>2 DEF Untouched
    <3> QED
      BY <1>4, <2>1, <2>2, <3>1 DEF Drawn, Untouched
  <2>3. CASE \E i \in DOMAIN out :
               /\ Touches(out[i], s, side, p) /\ out[i].size = Published(s, side, p)
               /\ \A j \in DOMAIN out : j > i => ~Touches(out[j], s, side, p)
    <3>1. PICK i \in DOMAIN out :
            /\ Touches(out[i], s, side, p) /\ out[i].size = Published(s, side, p)
            /\ \A j \in DOMAIN out : j > i => ~Touches(out[j], s, side, p)
      BY <2>3
    <3>2. CASE i = 1
      <4>1. \A j \in DOMAIN out' : ~Touches(out'[j], s, side, p)
        BY <1>3, <3>1, <3>2
      <4>2. golden'.books[s][side][p] = Published(s, side, p)
        BY <1>3, <1>4, <3>1, <3>2
      <4> QED
        BY <2>1, <4>1, <4>2 DEF Drawn, Untouched
    <3>3. CASE i # 1
      <4> DEFINE k == i - 1
      <4>1. k \in DOMAIN out' /\ out'[k] = out[i]
        BY <1>3, <3>1, <3>3
      <4>2. \A j \in DOMAIN out' : j > k => ~Touches(out'[j], s, side, p)
        BY <1>3, <3>1, <3>3
      <4> HIDE DEF k
      <4> QED
        BY <2>1, <3>1, <4>1, <4>2 DEF Drawn
    <3> QED
      BY <3>2, <3>3
  <2> QED
    BY <2>2, <2>3 DEF MarketInv, DrawInv, Drawn
<1>7. VenueTypes' /\ OnTape'
  BY <1>1 DEF MarketInv, VenueTypes, OnTape, venueVars
<1> QED
  BY <1>5, <1>6, <1>7 DEF MarketInv

LEMMA MarketStep ==
  ASSUME SequenceInv, MarketInv, [Next]_handlerVars
  PROVE  MarketInv'
<1> USE DEF MarketInv
<1>1. CASE VenueStep
  <2>1. packet = NoPacket /\ packet' = packet /\ UNCHANGED <<decoderVars, golden>>
    BY <1>1 DEF VenueStep
  <2> QED
    BY <1>1, <2>1, MarketVenue, DecoderStutter DEF OnTape
<1>2. CASE \E first \in 1..MaxTape, count \in 1..MaxBatch : \E carried \in 0..count :
             count - carried <= MaxCut /\ OnPayload(first, count, carried)
  <2>1. /\ UNCHANGED <<venueVars, decoderVars, golden>>
        /\ packet'.first + packet'.count - 1 <= Len(tape)
    BY <1>2 DEF OnPayload
  <2> QED
    BY <2>1, DecoderStutter DEF OnTape, VenueTypes, venueVars
<1>3. CASE SkipMessage \/ PayloadDone \/ UNCHANGED handlerVars
  <2>1. /\ UNCHANGED <<venueVars, decoderVars, golden>>
        /\ packet' = packet \/ packet' = NoPacket
    BY <1>3 DEF SkipMessage, PayloadDone, handlerVars, venueVars, decoderVars
  <2> QED
    BY <2>1, DecoderStutter DEF OnTape, VenueTypes, venueVars
<1>4. CASE DecodeMessage
  BY <1>4, MarketDecode
<1>5. CASE PublishUpdate
  BY <1>5, MarketPublish
<1> QED
  BY <1>1, <1>2, <1>3, <1>4, <1>5 DEF Next

LEMMA MarketAlways == Spec => []MarketInv
BY MarketInit, MarketStep, SequenceAlways, PTL DEF Spec

(* The counters, the decoder's maps and the updates have their types; no    *)
(* level is ever negative, whatever was lost.                               *)
THEOREM HandlerTypeCorrect == Spec => []TypeOK
<1>1. SequenceInv /\ MarketInv => TypeOK
  <2> SUFFICES ASSUME SequenceInv, MarketInv PROVE TypeOK
    OBVIOUS
  <2>1. packet \in [first : Nat, count : Nat, carried : Nat] /\ position \in 0..packet.carried
    BY DEF SequenceInv, SequenceTypes, Datagram, NoPacket
  <2> QED
    BY <2>1 DEF TypeOK, SequenceInv, SequenceTypes, MarketInv, DecoderTypes, Levels
<1> QED
  BY <1>1, SequenceAlways, MarketAlways, PTL

(* Whatever was lost, once the updates of a message are out the published   *)
(* book shows the decoder's levels.                                         *)
THEOREM UpdatesDrawAlways == Spec => []UpdatesDrawTheLevels
<1>1. MarketInv => UpdatesDrawTheLevels
  BY NothingPending DEF MarketInv, UpdatesDrawTheLevels, Published
<1> QED
  BY <1>1, MarketAlways, PTL

-----------------------------------------------------------------------------
(* What the size of a level is a sum of: shares.  A sum over a set of       *)
(* orders is the number of their shares, so that what is known of finite    *)
(* sets serves where the definition of the sum is recursive.                *)

(* The shares of the orders S of a book b, one by one.                      *)
Shares(b, S) == {q \in S \X Nat : 1 <= q[2] /\ q[2] <= b[q[1]].size}
Total(b, S) == Cardinality(Shares(b, S))
Sized(b, S) == IsFiniteSet(S) /\ \A x \in S : b[x].size \in 0..MaxSize

LEMMA SharesSplit ==
  ASSUME NEW b, NEW S, Sized(b, S), NEW x \in S
  PROVE  /\ IsFiniteSet(Shares(b, S)) /\ Total(b, S) \in Nat
         /\ Total(b, S \ {x}) \in Nat
         /\ Total(b, S) = b[x].size + Total(b, S \ {x})
<1> DEFINE mine == {x} \X (1..b[x].size)
           others == Shares(b, S \ {x})
<1>1. b[x].size \in 0..MaxSize /\ MaxSize \in Nat
  BY HandlerAssumption DEF Sized
<1>2. b[x].size \in Nat
  BY <1>1
<1>3. IsFiniteSet({x}) /\ Cardinality({x}) = 1
  BY FS_Singleton
<1>4. IsFiniteSet(1..b[x].size) /\ Cardinality(1..b[x].size) = b[x].size
  <2>1. 1 \in Int /\ b[x].size \in Int
    BY <1>2
  <2>2. /\ IsFiniteSet(1..b[x].size)
        /\ Cardinality(1..b[x].size) = IF 1 > b[x].size THEN 0 ELSE b[x].size - 1 + 1
    BY <2>1, FS_Interval
  <2> QED
    BY <1>2, <2>2
<1>5. IsFiniteSet(mine) /\ Cardinality(mine) = b[x].size
  <2>1. IsFiniteSet(mine) /\ Cardinality(mine) = Cardinality({x}) * Cardinality(1..b[x].size)
    BY <1>3, <1>4, FS_Product
  <2> QED
    BY <1>2, <1>3, <1>4, <2>1
<1>6. IsFiniteSet(S \X (1..MaxSize))
  <2>1. IsFiniteSet(1..MaxSize)
    BY <1>1, FS_Interval
  <2> QED
    BY <2>1, FS_Product DEF Sized
<1>7. Shares(b, S) \subseteq S \X (1..MaxSize)
  <2> SUFFICES ASSUME NEW q \in S \X Nat, 1 <= q[2], q[2] <= b[q[1]].size
               PROVE  q \in S \X (1..MaxSize)
    BY DEF Shares
  <2>1. q[1] \in S /\ q[2] \in Nat /\ q = <<q[1], q[2]>>
    OBVIOUS
  <2>2. b[q[1]].size \in 0..MaxSize
    BY <2>1 DEF Sized
  <2>3. q[2] \in 1..MaxSize
    BY <1>1, <2>1, <2>2
  <2> QED
    BY <2>1, <2>3
<1>8. IsFiniteSet(Shares(b, S))
  BY <1>6, <1>7, FS_Subset
<1>9. others \subseteq Shares(b, S)
  BY DEF Shares
<1>10. IsFiniteSet(others)
  BY <1>8, <1>9, FS_Subset
<1>11. mine \cap others = {}
  BY DEF Shares
<1>12. Shares(b, S) = mine \cup others
  <2>1. ASSUME NEW q \in Shares(b, S) PROVE q \in mine \cup others
    <3>1. q \in S \X Nat /\ 1 <= q[2] /\ q[2] <= b[q[1]].size
      BY <2>1 DEF Shares
    <3>2. CASE q[1] = x
      <4>1. q = <<x, q[2]>> /\ q[2] \in Nat
        BY <3>1, <3>2
      <4>2. q[2] \in 1..b[x].size
        BY <1>2, <3>1, <3>2, <4>1
      <4> QED
        BY <4>1, <4>2
    <3>3. CASE q[1] # x
      BY <3>1, <3>3 DEF Shares
    <3> QED
      BY <3>2, <3>3
  <2>2. mine \subseteq Shares(b, S)
    <3> SUFFICES ASSUME NEW n \in 1..b[x].size PROVE <<x, n>> \in Shares(b, S)
      OBVIOUS
    <3>1. n \in Nat /\ 1 <= n /\ n <= b[x].size
      BY <1>2
    <3> QED
      BY <3>1 DEF Shares
  <2> QED
    BY <1>9, <2>1, <2>2
<1> HIDE DEF mine, others
<1>13. Cardinality(Shares(b, S)) = Cardinality(mine) + Cardinality(others)
  <2>1. Cardinality(mine \cup others)
          = Cardinality(mine) + Cardinality(others) - Cardinality(mine \cap others)
    BY <1>5, <1>10, FS_Union
  <2>2. Cardinality(mine \cap others) = 0
    BY <1>11, FS_EmptySet
  <2>3. Cardinality(mine) \in Nat /\ Cardinality(others) \in Nat
    BY <1>5, <1>10, FS_CardinalityType
  <2> QED
    BY <1>12, <2>1, <2>2, <2>3
<1> QED
  BY <1>5, <1>8, <1>10, <1>13, FS_CardinalityType DEF Total, others

LEMMA NoShares == ASSUME NEW b PROVE Total(b, {}) = 0
<1>1. Shares(b, {}) = {}
  BY DEF Shares
<1> QED
  BY <1>1, FS_EmptySet DEF Total

(* The sum over a set of orders is the number of their shares.              *)
LEMMA SumIsTotal ==
  ASSUME NEW b, NEW S, Sized(b, S)
  PROVE  MapThenSumSet(LAMBDA id : b[id].size, S) = Total(b, S)
<1> DEFINE Steps(g) == [s \in SUBSET S |->
                 IF s = {} THEN 0
                 ELSE b[CHOOSE x \in s : TRUE].size + g[s \ {CHOOSE x \in s : TRUE}]]
           sum == CHOOSE g : g = Steps(g)
           total == [s \in SUBSET S |-> Total(b, s)]
<1>1. MapThenSumSet(LAMBDA id : b[id].size, S) = sum[S]
  BY DEF MapThenSumSet, MapThenFoldSet
<1>2. \A s \in SUBSET S : Sized(b, s)
  BY FS_Subset DEF Sized
<1>3. total = Steps(total)
  <2> SUFFICES ASSUME NEW s \in SUBSET S PROVE total[s] = Steps(total)[s]
    OBVIOUS
  <2>1. CASE s = {}
    BY <2>1, NoShares
  <2>2. CASE s # {}
    <3> DEFINE x == CHOOSE y \in s : TRUE
    <3>1. x \in s
      BY <2>2
    <3> HIDE DEF x
    <3>2. Total(b, s) = b[x].size + Total(b, s \ {x})
      BY <1>2, <3>1, SharesSplit
    <3>3. s \ {x} \in SUBSET S
      OBVIOUS
    <3> QED
      BY <2>2, <3>2, <3>3 DEF x
  <2> QED
    BY <2>1, <2>2
<1>4. sum = Steps(sum)
  <2> HIDE DEF Steps, total
  <2> QED
    BY <1>3
<1> HIDE DEF sum
<1>5. sum[S] = Total(b, S)
  <2> DEFINE Wrong == {s \in SUBSET S : sum[s] # Total(b, s)}
             Sizes == {k \in Nat : \E s \in Wrong : Cardinality(s) = k}
  <2> SUFFICES ASSUME Wrong # {} PROVE FALSE
    OBVIOUS
  <2>1. \A s \in SUBSET S : IsFiniteSet(s) /\ Cardinality(s) \in Nat
    BY FS_Subset, FS_CardinalityType DEF Sized
  <2>2. Sizes # {} /\ Sizes \in SUBSET Nat
    BY <2>1
  <2>3. PICK k \in Sizes : \A j \in Sizes : k <= j
    <3> HIDE DEF Sizes
    <3> QED
      BY <2>2, LeastNatural
  <2>4. PICK s \in Wrong : Cardinality(s) = k
    OBVIOUS
  <2>5. s # {}
    <3> SUFFICES ASSUME s = {} PROVE FALSE
      OBVIOUS
    <3>1. sum[{}] = 0
      BY <1>4
    <3> QED
      BY <3>1, NoShares
  <2> DEFINE x == CHOOSE y \in s : TRUE
  <2>6. x \in s
    BY <2>5
  <2>7. sum[s] = b[x].size + sum[s \ {x}]
    BY <1>4, <2>5
  <2> HIDE DEF x
  <2>8. Total(b, s) = b[x].size + Total(b, s \ {x})
    BY <1>2, <2>6, SharesSplit
  <2>9. s \ {x} \in Wrong
    BY <2>7, <2>8
  <2>10. Cardinality(s \ {x}) = Cardinality(s) - 1
    BY <2>1, <2>6, FS_RemoveElement
  <2>11. k - 1 \in Sizes
    <3>1. Cardinality(s \ {x}) \in Nat
      BY <2>1
    <3> QED
      BY <2>4, <2>9, <2>10, <3>1
  <2>12. k \in Nat /\ k <= k - 1
    <3> HIDE DEF Wrong
    <3> QED BY <2>3, <2>11
  <2> QED
    BY <2>12
<1> QED
  BY <1>1, <1>5

-----------------------------------------------------------------------------
(* Books of resting orders and their levels.                                *)

(* A book of the venue, and what one more, one other or one less order      *)
(* makes of it.                                                             *)
IsBook(b) ==
  /\ IsFiniteSet(DOMAIN b) /\ DOMAIN b \subseteq OrderId
  /\ \A id \in DOMAIN b : b[id] \in VenueOrder
Put(b, id, o) == [i \in DOMAIN b \cup {id} |-> IF i = id THEN o ELSE b[i]]
Drop(b, id) == Restrict(b, DOMAIN b \ {id})

LiesAt(o, s, side, p) == o.symbol = s /\ o.side = side /\ o.price = p
AtLevel(b, s, side, p) == {id \in DOMAIN b : LiesAt(b[id], s, side, p)}
LevelOf(b, s, side, p) == Total(b, AtLevel(b, s, side, p))

(* What is there without the order id, and what id adds to it.              *)
Rest(b, id, s, side, p) == Total(b, AtLevel(b, s, side, p) \ {id})
Own(b, id, s, side, p) ==
  IF id \in DOMAIN b /\ LiesAt(b[id], s, side, p) THEN b[id].size ELSE 0

LEMMA BookSized ==
  ASSUME NEW b, IsBook(b), NEW S \in SUBSET DOMAIN b
  PROVE  Sized(b, S)
<1>1. IsFiniteSet(S)
  BY FS_Subset DEF IsBook
<1>2. \A x \in S : b[x].size \in 0..MaxSize
  BY DEF IsBook, VenueOrder
<1> QED
  BY <1>1, <1>2 DEF Sized

LEMMA SizedTotal ==
  ASSUME NEW b, NEW S, Sized(b, S)
  PROVE  Total(b, S) \in Nat
<1>1. CASE S = {}
  BY <1>1, NoShares
<1>2. CASE S # {}
  BY <1>2, SharesSplit
<1> QED
  BY <1>1, <1>2

LEMMA LevelSplit ==
  ASSUME NEW b, IsBook(b), NEW id, NEW s, NEW side, NEW p
  PROVE  /\ LevelOf(b, s, side, p) = Rest(b, id, s, side, p) + Own(b, id, s, side, p)
         /\ LevelOf(b, s, side, p) \in Nat /\ Rest(b, id, s, side, p) \in Nat
         /\ Own(b, id, s, side, p) \in Nat
<1> DEFINE S == AtLevel(b, s, side, p)
<1>1. Sized(b, S) /\ Sized(b, S \ {id})
  <2>1. S \in SUBSET DOMAIN b /\ S \ {id} \in SUBSET DOMAIN b
    BY DEF AtLevel
  <2> HIDE DEF S
  <2> QED
    BY <2>1, BookSized
<1>2. id \in S <=> id \in DOMAIN b /\ LiesAt(b[id], s, side, p)
  BY DEF AtLevel
<1>3. id \notin S => S \ {id} = S
  OBVIOUS
<1>4. id \in S => b[id].size \in Nat
  BY <1>2, HandlerAssumption DEF IsBook, VenueOrder
<1> HIDE DEF S
<1>5. Total(b, S) \in Nat /\ Total(b, S \ {id}) \in Nat
  BY <1>1, SizedTotal
<1>6. id \in S => Total(b, S) = b[id].size + Total(b, S \ {id})
  BY <1>1, SharesSplit
<1>7. Own(b, id, s, side, p) = IF id \in S THEN b[id].size ELSE 0
  BY <1>2 DEF Own
<1>8. Total(b, S) = Total(b, S \ {id}) + Own(b, id, s, side, p)
  <2>1. CASE id \in S
    BY <1>4, <1>5, <1>6, <1>7, <2>1
  <2>2. CASE id \notin S
    BY <1>3, <1>5, <1>7, <2>2
  <2> QED BY <2>1, <2>2
<1> QED
  BY <1>4, <1>5, <1>7, <1>8 DEF LevelOf, Rest, S

(* Totals tell only the orders they are about.                              *)
LEMMA SameTotal ==
  ASSUME NEW b, NEW c, NEW S, \A x \in S : b[x] = c[x]
  PROVE  Total(b, S) = Total(c, S)
<1>1. Shares(b, S) = Shares(c, S)
  <2>1. \A q \in S \X Nat : b[q[1]].size = c[q[1]].size
    OBVIOUS
  <2> QED BY <2>1 DEF Shares
<1> QED
  BY <1>1 DEF Total

LEMMA PutBook ==
  ASSUME NEW b, IsBook(b), NEW id \in OrderId, NEW o \in VenueOrder
  PROVE  /\ IsBook(Put(b, id, o))
         /\ \A s, side, p :
              LevelOf(Put(b, id, o), s, side, p)
                = Rest(b, id, s, side, p) + (IF LiesAt(o, s, side, p) THEN o.size ELSE 0)
<1> DEFINE c == Put(b, id, o)
<1>1. /\ DOMAIN c = DOMAIN b \cup {id} /\ c[id] = o
      /\ \A i \in DOMAIN b : i # id => c[i] = b[i]
  BY DEF Put
<1> HIDE DEF c
<1>2. IsBook(c)
  <2>1. IsFiniteSet(DOMAIN c)
    BY <1>1, FS_AddElement DEF IsBook
  <2> QED BY <1>1, <2>1 DEF IsBook
<1>3. ASSUME NEW s, NEW side, NEW p
      PROVE  LevelOf(c, s, side, p)
               = Rest(b, id, s, side, p) + (IF LiesAt(o, s, side, p) THEN o.size ELSE 0)
  <2>1. AtLevel(c, s, side, p) \ {id} = AtLevel(b, s, side, p) \ {id}
    BY <1>1 DEF AtLevel
  <2>2. \A x \in AtLevel(b, s, side, p) \ {id} : c[x] = b[x]
    BY <1>1 DEF AtLevel
  <2>3. Rest(c, id, s, side, p) = Rest(b, id, s, side, p)
    BY <2>1, <2>2, SameTotal DEF Rest
  <2>4. Own(c, id, s, side, p) = IF LiesAt(o, s, side, p) THEN o.size ELSE 0
    BY <1>1 DEF Own
  <2> QED
    BY <1>2, <2>3, <2>4, LevelSplit
<1> QED
  BY <1>2, <1>3 DEF c

LEMMA DropBook ==
  ASSUME NEW b, IsBook(b), NEW id
  PROVE  /\ IsBook(Drop(b, id))
         /\ \A s, side, p : LevelOf(Drop(b, id), s, side, p) = Rest(b, id, s, side, p)
<1> DEFINE c == Drop(b, id)
<1>1. /\ DOMAIN c = DOMAIN b \ {id}
      /\ \A i \in DOMAIN b : i # id => c[i] = b[i]
  BY DEF Drop, Restrict
<1> HIDE DEF c
<1>2. IsBook(c)
  <2>1. IsFiniteSet(DOMAIN c)
    BY <1>1, FS_RemoveElement DEF IsBook
  <2> QED BY <1>1, <2>1 DEF IsBook
<1>3. ASSUME NEW s, NEW side, NEW p
      PROVE  LevelOf(c, s, side, p) = Rest(b, id, s, side, p)
  <2>1. AtLevel(c, s, side, p) = AtLevel(b, s, side, p) \ {id}
    BY <1>1 DEF AtLevel
  <2>2. \A x \in AtLevel(b, s, side, p) \ {id} : c[x] = b[x]
    BY <1>1 DEF AtLevel
  <2> QED
    BY <2>1, <2>2, SameTotal DEF Rest, LevelOf
<1> QED
  BY <1>2, <1>3 DEF c

(* Shares at a level are shares of an order.                                *)
LEMMA LevelHasOrder ==
  ASSUME NEW b, NEW s, NEW side, NEW p, LevelOf(b, s, side, p) # 0
  PROVE  \E id \in DOMAIN b : LiesAt(b[id], s, side, p)
<1>1. AtLevel(b, s, side, p) # {}
  BY NoShares DEF LevelOf
<1> QED
  BY <1>1 DEF AtLevel

LEMMA EmptyBookLevels ==
  ASSUME NEW b, DOMAIN b = {}
  PROVE  IsBook(b) /\ \A s, side, p : LevelOf(b, s, side, p) = 0
<1>1. \A s, side, p : AtLevel(b, s, side, p) = {}
  BY DEF AtLevel
<1> QED
  BY <1>1, NoShares, FS_EmptySet DEF IsBook, LevelOf

-----------------------------------------------------------------------------
(* A decoder that holds the book of the venue and takes its next message    *)
(* holds its next book.                                                     *)

(* The levels lv are those of the book b.                                   *)
Draws(lv, b) ==
  \A s \in Symbol, side \in Side, p \in Price : lv[s][side][p] = LevelOf(b, s, side, p)

LEMMA AddLevelDraws ==
  ASSUME NEW lv \in Levels, NEW o \in Order, NEW d \in Int, NEW b, NEW c, IsBook(c),
         Draws(lv, b),
         \A s \in Symbol, side \in Side, p \in Price :
           LevelOf(c, s, side, p)
             = LevelOf(b, s, side, p) + (IF LiesAt(o, s, side, p) THEN d ELSE 0),
         NEW new, new = AddLevel(lv, o, d)
  PROVE  new \in Levels /\ Draws(new, c)
<1>1. new \in Levels
  BY AddLevelAt
<1>2. ASSUME NEW s \in Symbol, NEW side \in Side, NEW p \in Price
      PROVE  new[s][side][p] = LevelOf(c, s, side, p)
  <2>1. LevelOf(c, s, side, p) \in Nat
    BY LevelSplit
  <2>2. lv[s][side][p] = LevelOf(b, s, side, p) /\ lv[s][side][p] \in Nat
    BY DEF Draws, Levels
  <2>3. CASE LiesAt(o, s, side, p)
    <3>1. s = o.symbol /\ side = o.side /\ p = o.price
      BY <2>3 DEF LiesAt
    <3>2. new[s][side][p] = NewTotal(lv, o, d)
      BY <3>1, AddLevelHere
    <3>3. LevelOf(c, s, side, p) = lv[s][side][p] + d
      BY <2>2, <2>3
    <3> QED
      BY <2>1, <3>1, <3>2, <3>3 DEF NewTotal
  <2>4. CASE ~LiesAt(o, s, side, p)
    <3>1. ~(s = o.symbol /\ side = o.side /\ p = o.price)
      BY <2>4 DEF LiesAt
    <3>2. new[s][side][p] = lv[s][side][p]
      BY <3>1, AddLevelElsewhere
    <3>3. LevelOf(c, s, side, p) = LevelOf(b, s, side, p) + 0
      BY <2>4
    <3> QED
      BY <2>2, <3>2, <3>3
  <2> QED BY <2>3, <2>4
<1> QED
  BY <1>1, <1>2 DEF Draws

OrderOf(m) == [symbol |-> m.symbol, side |-> m.side, price |-> m.price, size |-> m.size]
Moved(o, m) == [o EXCEPT !.price = m.price, !.size = m.size]
Filled(o, m) == [o EXCEPT !.size = o.size - m.size]

(* The venue's message m takes its book from b to c.                        *)
Moves(b, m, c) ==
  \/ m.kind = "add" /\ m.id \in OrderId \ DOMAIN b /\ c = Put(b, m.id, OrderOf(m))
  \/ m.kind = "delete" /\ m.id \in DOMAIN b /\ c = Drop(b, m.id)
  \/ m.kind = "modify" /\ m.id \in DOMAIN b /\ c = Put(b, m.id, Moved(b[m.id], m))
  \/ /\ m.kind = "executed" /\ m.id \in DOMAIN b /\ m.size \in 1..b[m.id].size
     /\ c = IF m.size = b[m.id].size THEN Drop(b, m.id) ELSE Put(b, m.id, Filled(b[m.id], m))
  \/ m.kind \in {"trade", "other"} /\ c = b

(* The decoder holds exactly the book b.                                    *)
Mirrors(b) == orders = b /\ Draws(levels, b) /\ unknown_references = 0

LEMMA OrderFields ==
  ASSUME NEW o \in VenueOrder
  PROVE  o \in Order /\ o.size \in 1..MaxSize /\ o.size \in Nat /\ o.price \in Price
         /\ o.size \in Int /\ -o.size \in Int
BY HandlerAssumption DEF VenueOrder, Order

LEMMA MirrorAdd ==
  ASSUME NEW b, NEW c, NEW m \in VenueMessage, IsBook(b), Mirrors(b), levels \in Levels,
         m.kind = "add", m.id \in OrderId \ DOMAIN b, c = Put(b, m.id, OrderOf(m)), OrderAdd(m)
  PROVE  Mirrors(c)'
<1> DEFINE o == OrderOf(m)
<1>1. o \in VenueOrder
  BY DEF VenueMessage, VenueOrder, OrderOf
<1>2. /\ orders' = Put(orders, m.id, o) /\ levels' = AddLevel(levels, o, o.size)
      /\ unknown_references' = unknown_references
  BY DEF OrderAdd, Remember, Put, OrderOf
<1> HIDE DEF o
<1>3. o \in Order /\ o.size \in Int
  BY <1>1, OrderFields
<1>4. \A s \in Symbol, side \in Side, p \in Price :
        LevelOf(c, s, side, p)
          = LevelOf(b, s, side, p) + (IF LiesAt(o, s, side, p) THEN o.size ELSE 0)
  <2> SUFFICES ASSUME NEW s \in Symbol, NEW side \in Side, NEW p \in Price
               PROVE LevelOf(c, s, side, p)
          = LevelOf(b, s, side, p) + (IF LiesAt(o, s, side, p) THEN o.size ELSE 0)
    OBVIOUS
  <2>1. Own(b, m.id, s, side, p) = 0
    BY DEF Own
  <2>2. LevelOf(b, s, side, p) = Rest(b, m.id, s, side, p) /\ Rest(b, m.id, s, side, p) \in Nat
    BY <2>1, LevelSplit
  <2> QED
    BY <1>1, <2>2, PutBook DEF o
<1>5. IsBook(c)
  BY <1>1, PutBook DEF o
<1>6. Draws(levels', c)
  BY <1>2, <1>3, <1>4, <1>5, AddLevelDraws DEF Mirrors
<1> QED
  BY <1>2, <1>6 DEF Mirrors, o, Draws

LEMMA MirrorDelete ==
  ASSUME NEW b, NEW c, NEW m \in VenueMessage, IsBook(b), Mirrors(b), levels \in Levels,
         m.id \in DOMAIN b, c = Drop(b, m.id), OrderDelete(m)
  PROVE  Mirrors(c)'
<1> DEFINE o == b[m.id]
<1>1. o \in VenueOrder
  BY DEF IsBook
<1>2. /\ orders' = Drop(orders, m.id) /\ levels' = AddLevel(levels, o, -o.size)
      /\ unknown_references' = unknown_references
  BY DEF OrderDelete, Forget, Drop, Mirrors
<1> DEFINE d == -o.size
<1>3. o \in Order /\ o.size \in Nat /\ d \in Int
  BY <1>1, OrderFields
<1>4. \A s \in Symbol, side \in Side, p \in Price :
        LevelOf(c, s, side, p)
          = LevelOf(b, s, side, p) + (IF LiesAt(o, s, side, p) THEN d ELSE 0)
  <2> SUFFICES ASSUME NEW s \in Symbol, NEW side \in Side, NEW p \in Price
               PROVE LevelOf(c, s, side, p)
          = LevelOf(b, s, side, p) + (IF LiesAt(o, s, side, p) THEN d ELSE 0)
    OBVIOUS
  <2>1. Own(b, m.id, s, side, p) = IF LiesAt(o, s, side, p) THEN o.size ELSE 0
    BY DEF Own
  <2>2. LevelOf(b, s, side, p) = Rest(b, m.id, s, side, p) + Own(b, m.id, s, side, p)
        /\ Rest(b, m.id, s, side, p) \in Nat
    BY LevelSplit
  <2>3. LevelOf(c, s, side, p) = Rest(b, m.id, s, side, p)
    BY DropBook
  <2> HIDE DEF o
  <2> QED
    BY <1>3, <2>1, <2>2, <2>3
<1>5. IsBook(c)
  BY DropBook
<1> HIDE DEF o
<1>6. levels' = AddLevel(levels, o, d)
  BY <1>2
<1> HIDE DEF d
<1>7. Draws(levels', c)
  BY <1>3, <1>4, <1>5, <1>6, AddLevelDraws DEF Mirrors
<1> QED
  BY <1>2, <1>7 DEF Mirrors, Draws

LEMMA MirrorModify ==
  ASSUME NEW b, NEW c, NEW m \in VenueMessage, IsBook(b), Mirrors(b), levels \in Levels,
         m.id \in DOMAIN b, c = Put(b, m.id, Moved(b[m.id], m)), OrderModify(m)
  PROVE  Mirrors(c)'
<1> DEFINE o == b[m.id]
           moved == Moved(o, m)
           left == AddLevel(levels, o, -o.size)
<1>1. o \in VenueOrder /\ m.id \in OrderId
  BY DEF IsBook
<1>2. /\ orders' = Put(orders, m.id, moved) /\ unknown_references' = unknown_references
      /\ \/ m.price = o.price /\ levels' = AddLevel(levels, o, m.size - o.size)
         \/ m.price # o.price /\ levels' = AddLevel(left, moved, m.size)
  BY DEF OrderModify, Remember, Put, Mirrors, Moved
<1>3. m.size \in 1..MaxSize /\ m.size \in Nat /\ m.price \in Price
  BY MessageTypes
<1>4. /\ moved \in VenueOrder /\ moved.symbol = o.symbol /\ moved.side = o.side
      /\ moved.price = m.price /\ moved.size = m.size
  <2> HIDE DEF o
  <2> QED BY <1>1, <1>3 DEF Moved, VenueOrder
<1>5. /\ o \in Order /\ o.size \in Nat /\ -o.size \in Int /\ moved \in Order
      /\ m.size - o.size \in Int /\ m.size \in Int
  BY <1>1, <1>3, <1>4, OrderFields
<1>6. IsBook(c) /\ IsBook(Drop(b, m.id))
  BY <1>1, <1>4, PutBook, DropBook
<1>7. ASSUME NEW s \in Symbol, NEW side \in Side, NEW p \in Price
      PROVE  /\ LevelOf(b, s, side, p)
                  = Rest(b, m.id, s, side, p) + (IF LiesAt(o, s, side, p) THEN o.size ELSE 0)
             /\ LevelOf(c, s, side, p)
                  = Rest(b, m.id, s, side, p) + (IF LiesAt(moved, s, side, p) THEN m.size ELSE 0)
             /\ LevelOf(Drop(b, m.id), s, side, p) = Rest(b, m.id, s, side, p)
             /\ Rest(b, m.id, s, side, p) \in Nat
  <2>1. Own(b, m.id, s, side, p) = IF LiesAt(o, s, side, p) THEN o.size ELSE 0
    BY DEF Own
  <2>2. LevelOf(c, s, side, p)
          = Rest(b, m.id, s, side, p) + (IF LiesAt(moved, s, side, p) THEN moved.size ELSE 0)
    BY <1>1, <1>4, PutBook
  <2> HIDE DEF o, moved
  <2> QED
    BY <1>4, <2>1, <2>2, LevelSplit, DropBook
<1> HIDE DEF o, moved
<1>8. Draws(levels', c)
  <2>1. CASE m.price = o.price /\ levels' = AddLevel(levels, o, m.size - o.size)
    <3> DEFINE d == m.size - o.size
    <3>1. \A s \in Symbol, side \in Side, p \in Price :
            LevelOf(c, s, side, p)
              = LevelOf(b, s, side, p) + (IF LiesAt(o, s, side, p) THEN d ELSE 0)
      <4> SUFFICES ASSUME NEW s \in Symbol, NEW side \in Side, NEW p \in Price
               PROVE LevelOf(c, s, side, p)
              = LevelOf(b, s, side, p) + (IF LiesAt(o, s, side, p) THEN d ELSE 0)
        OBVIOUS
      <4>1. LiesAt(moved, s, side, p) <=> LiesAt(o, s, side, p)
        BY <1>4, <2>1 DEF LiesAt
      <4> QED
        BY <1>3, <1>5, <1>7, <4>1
    <3>2. d \in Int /\ levels' = AddLevel(levels, o, d)
      BY <1>5, <2>1
    <3> HIDE DEF d
    <3> QED
      BY <1>5, <1>6, <3>1, <3>2, AddLevelDraws DEF Mirrors
  <2>2. CASE levels' = AddLevel(left, moved, m.size)
    <3> DEFINE d == -o.size
    <3>1. \A s \in Symbol, side \in Side, p \in Price :
            LevelOf(Drop(b, m.id), s, side, p)
              = LevelOf(b, s, side, p) + (IF LiesAt(o, s, side, p) THEN d ELSE 0)
      BY <1>5, <1>7
    <3>2. \A s \in Symbol, side \in Side, p \in Price :
            LevelOf(c, s, side, p)
              = LevelOf(Drop(b, m.id), s, side, p)
                + (IF LiesAt(moved, s, side, p) THEN m.size ELSE 0)
      BY <1>7
    <3>3. d \in Int /\ left = AddLevel(levels, o, d)
      BY <1>5
    <3> HIDE DEF d, left
    <3>4. left \in Levels /\ Draws(left, Drop(b, m.id))
      BY <1>5, <1>6, <3>1, <3>3, AddLevelDraws DEF Mirrors
    <3> QED
      BY <1>5, <1>6, <2>2, <3>2, <3>4, AddLevelDraws
  <2> QED
    BY <1>2, <2>1, <2>2
<1> QED
  BY <1>2, <1>8 DEF Mirrors, Draws, moved, o

LEMMA MirrorExecuted ==
  ASSUME NEW b, NEW c, NEW m \in VenueMessage, IsBook(b), Mirrors(b), levels \in Levels,
         m.id \in DOMAIN b, m.size \in 1..b[m.id].size,
         c = IF m.size = b[m.id].size THEN Drop(b, m.id)
             ELSE Put(b, m.id, Filled(b[m.id], m)),
         OrderExecuted(m)
  PROVE  Mirrors(c)'
<1> DEFINE o == b[m.id]
           rest == Filled(o, m)
           d == -m.size
<1>1. o \in VenueOrder /\ m.id \in OrderId
  BY DEF IsBook
<1>2. /\ orders' = IF m.size >= o.size THEN Drop(orders, m.id) ELSE Put(orders, m.id, rest)
      /\ levels' = AddLevel(levels, o, d) /\ unknown_references' = unknown_references
  BY DEF OrderExecuted, Remember, Forget, Put, Drop, Mirrors, Filled
<1>3. m.size \in 1..MaxSize /\ m.size \in Nat /\ d \in Int
  BY MessageTypes
<1>4. o \in Order /\ o.size \in Nat /\ o.size \in 1..MaxSize
  BY <1>1, OrderFields
<1>5. m.size >= o.size <=> m.size = o.size
  <2>1. m.size <= o.size
    BY <1>4
  <2> HIDE DEF o
  <2> QED BY <1>3, <1>4, <2>1
<1>6. c = IF m.size = o.size THEN Drop(b, m.id) ELSE Put(b, m.id, rest)
  OBVIOUS
<1>7. m.size # o.size =>
        /\ rest \in VenueOrder /\ rest.symbol = o.symbol /\ rest.side = o.side
        /\ rest.price = o.price /\ rest.size = o.size - m.size
  <2>1. m.size \in 1..o.size
    OBVIOUS
  <2> HIDE DEF o, d
  <2>2. m.size # o.size => o.size - m.size \in 1..MaxSize
    BY <1>3, <1>4, <2>1, HandlerAssumption
  <2> QED BY <1>1, <2>2 DEF Filled, VenueOrder
<1>8. IsBook(c)
  BY <1>1, <1>6, <1>7, PutBook, DropBook
<1>9. ASSUME NEW s \in Symbol, NEW side \in Side, NEW p \in Price
      PROVE  LevelOf(c, s, side, p)
               = LevelOf(b, s, side, p) + (IF LiesAt(o, s, side, p) THEN d ELSE 0)
  <2>1. Own(b, m.id, s, side, p) = IF LiesAt(o, s, side, p) THEN o.size ELSE 0
    BY DEF Own
  <2>2. LevelOf(b, s, side, p) = Rest(b, m.id, s, side, p) + Own(b, m.id, s, side, p)
        /\ Rest(b, m.id, s, side, p) \in Nat
    BY LevelSplit
  <2>3. CASE m.size = o.size
    <3>1. LevelOf(c, s, side, p) = Rest(b, m.id, s, side, p)
      BY <1>6, <2>3, DropBook
    <3> HIDE DEF o
    <3> QED
      BY <1>4, <2>1, <2>2, <2>3, <3>1
  <2>4. CASE m.size # o.size
    <3>1. LevelOf(c, s, side, p)
            = Rest(b, m.id, s, side, p) + (IF LiesAt(rest, s, side, p) THEN rest.size ELSE 0)
      BY <1>1, <1>6, <1>7, <2>4, PutBook
    <3>2. LiesAt(rest, s, side, p) <=> LiesAt(o, s, side, p)
      BY <1>7, <2>4 DEF LiesAt
    <3>3. rest.size = o.size - m.size
      BY <1>7, <2>4
    <3> HIDE DEF o, rest
    <3> QED
      BY <1>3, <1>4, <2>1, <2>2, <3>1, <3>2, <3>3
  <2> QED
    BY <2>3, <2>4
<1>10. Draws(levels', c)
  <2>1. o \in Order /\ d \in Int /\ levels' = AddLevel(levels, o, d)
    BY <1>2, <1>3, <1>4
  <2>2. Draws(levels, b)
    BY DEF Mirrors
  <2> HIDE DEF o, d
  <2> QED
    BY <1>8, <1>9, <2>1, <2>2, AddLevelDraws
<1> HIDE DEF o, rest, d
<1>11. orders' = c
  BY <1>2, <1>5, <1>6 DEF Mirrors
<1> QED
  BY <1>2, <1>10, <1>11 DEF Mirrors, Draws

(* A decoder that knows the book follows every message of the venue.        *)
LEMMA MirrorDecode ==
  ASSUME NEW b, NEW c, NEW m \in VenueMessage, IsBook(b), Mirrors(b), levels \in Levels,
         Moves(b, m, c), Decode(m)
  PROVE  Mirrors(c)'
<1>1. Known(m.id) <=> m.id \in DOMAIN b
  BY DEF Known, Mirrors
<1>2. CASE m.kind = "add"
  <2>1. OrderAdd(m)
    BY <1>2 DEF Decode, OrderAdd, OrderDelete, OrderModify,
         OrderExecuted, UnknownReference, TradeReport, Ignored
  <2> QED BY <1>2, <2>1, MirrorAdd DEF Moves
<1>3. CASE m.kind = "delete"
  <2>1. OrderDelete(m)
    BY <1>1, <1>3 DEF Moves, Decode, OrderAdd, OrderDelete, OrderModify, OrderExecuted,
         UnknownReference, TradeReport, Ignored
  <2> QED BY <1>3, <2>1, MirrorDelete DEF Moves
<1>4. CASE m.kind = "modify"
  <2>1. OrderModify(m)
    BY <1>1, <1>4 DEF Moves, Decode, OrderAdd, OrderDelete, OrderExecuted,
         UnknownReference, TradeReport, Ignored
  <2> QED BY <1>4, <2>1, MirrorModify DEF Moves
<1>5. CASE m.kind = "executed"
  <2>1. OrderExecuted(m)
    BY <1>1, <1>5 DEF Moves, Decode, OrderAdd, OrderDelete, OrderModify,
         UnknownReference, TradeReport, Ignored
  <2> QED BY <1>5, <2>1, MirrorExecuted DEF Moves
<1>6. CASE m.kind \in {"trade", "other"}
  <2>1. TradeReport(m) \/ Ignored(m)
    BY <1>6 DEF Decode, OrderAdd, OrderDelete, OrderModify, OrderExecuted, UnknownReference
  <2>2. UNCHANGED <<orders, levels, unknown_references>> /\ c = b
    BY <1>6, <2>1 DEF Moves, TradeReport, Ignored, decoderVars
  <2> QED BY <2>2 DEF Mirrors, Draws
<1> QED
  BY <1>2, <1>3, <1>4, <1>5, <1>6 DEF Moves

-----------------------------------------------------------------------------
(* The venue's books one after the other, and the decoder among them.       *)

(* The books h that the venue's messages led through.                       *)
History(h) ==
  /\ DOMAIN h = 0..Len(tape) /\ DOMAIN h[0] = {} /\ h[Len(tape)] = resting
  /\ \A k \in 0..Len(tape) : IsBook(h[k]) /\ Uncrossed(h[k])
  /\ \A k \in 1..Len(tape) : Moves(h[k - 1], tape[k], h[k])

Follows(h) == Unbroken => Len(decoded) <= Len(tape) /\ Mirrors(h[Len(decoded)])

(* Each resting order was added, so that a new number is one of no order.   *)
RestingWereAdded ==
  \A id \in DOMAIN resting : \E i \in DOMAIN tape : tape[i].kind = "add" /\ tape[i].id = id

DecodedWasSent == \A i \in DOMAIN decoded : decoded[i] \in 1..Len(tape)

MirrorInv == RestingWereAdded /\ DecodedWasSent /\ \E h : History(h) /\ Follows(h)

LEMMA MovesBook ==
  ASSUME NEW b, NEW m \in VenueMessage, NEW c, IsBook(b), Moves(b, m, c)
  PROVE  IsBook(c) /\ DOMAIN c \subseteq DOMAIN b \cup (IF m.kind = "add" THEN {m.id} ELSE {})
<1>1. CASE m.kind = "add"
  <2>1. OrderOf(m) \in VenueOrder /\ m.id \in OrderId /\ c = Put(b, m.id, OrderOf(m))
    BY <1>1 DEF VenueMessage, VenueOrder, OrderOf, Moves
  <2> QED BY <1>1, <2>1, PutBook DEF Put
<1>2. CASE m.kind = "delete"
  <2>1. c = Drop(b, m.id)
    BY <1>2 DEF Moves
  <2> QED BY <2>1, DropBook DEF Drop, Restrict
<1>3. CASE m.kind = "modify"
  <2> DEFINE o == b[m.id]
  <2>1. m.id \in DOMAIN b /\ c = Put(b, m.id, Moved(o, m)) /\ o \in VenueOrder /\ m.id \in OrderId
    BY <1>3 DEF Moves, IsBook
  <2> HIDE DEF o
  <2>2. Moved(o, m) \in VenueOrder
    BY <2>1, MessageTypes DEF Moved, VenueOrder
  <2> QED BY <2>1, <2>2, PutBook DEF Put
<1>4. CASE m.kind = "executed"
  <2> DEFINE o == b[m.id]
  <2>1. /\ m.id \in DOMAIN b /\ m.size \in 1..o.size /\ o \in VenueOrder /\ m.id \in OrderId
        /\ c = IF m.size = o.size THEN Drop(b, m.id) ELSE Put(b, m.id, Filled(o, m))
    BY <1>4 DEF Moves, IsBook
  <2> HIDE DEF o
  <2>2. m.size # o.size => Filled(o, m) \in VenueOrder
    <3>1. o.size \in 1..MaxSize /\ MaxSize \in Nat
      BY <2>1, HandlerAssumption DEF VenueOrder
    <3>2. m.size # o.size => o.size - m.size \in 1..MaxSize
      BY <2>1, <3>1
    <3> QED BY <2>1, <3>2 DEF Filled, VenueOrder
  <2>3. CASE m.size = o.size
    BY <2>1, <2>3, DropBook DEF Drop, Restrict
  <2>4. CASE m.size # o.size
    BY <2>1, <2>2, <2>4, PutBook DEF Put
  <2> QED BY <2>3, <2>4
<1>5. CASE m.kind \in {"trade", "other"}
  BY <1>5 DEF Moves
<1> QED
  BY <1>1, <1>2, <1>3, <1>4, <1>5 DEF Moves

LEMMA MessageFields ==
  ASSUME NEW kind, NEW id, NEW o
  PROVE  LET m == Message(kind, id, o) IN
         /\ m.kind = kind /\ m.id = id /\ m.symbol = o.symbol /\ m.side = o.side
         /\ m.price = o.price /\ m.size = o.size
BY DEF Message

LEMMA VenueMoves ==
  ASSUME VenueTypes, RestingWereAdded, IsBook(resting), VenueStep
  PROVE  \E m \in VenueMessage : \E c : Sends(m, c) /\ Moves(resting, m, c)
<1>1. CASE VenueAdds
  <2>1. PICK id \in OrderId, o \in [symbol : Symbol, side : Side, price : Price, size : Size] :
          /\ \A i \in DOMAIN tape : tape[i].kind = "add" => tape[i].id < id
          /\ Sends(Message("add", id, o), Rests(id, o))
    BY <1>1 DEF VenueAdds
  <2> DEFINE m == Message("add", id, o)
  <2>2. o \in VenueOrder
    BY DEF VenueOrder, Size
  <2>3. m \in VenueMessage
    BY <2>2, MessageOfOrder DEF Kind
  <2>4. id \notin DOMAIN resting
    <3> SUFFICES ASSUME id \in DOMAIN resting PROVE FALSE
      OBVIOUS
    <3>1. PICK i \in DOMAIN tape : tape[i].kind = "add" /\ tape[i].id = id
      BY DEF RestingWereAdded
    <3>2. id < id /\ id \in Nat
      BY <2>1, <3>1, HandlerAssumption
    <3> QED BY <3>2
  <2>5. OrderOf(m) = o /\ m.kind = "add" /\ m.id = id
    <3>1. OrderOf(m) = [symbol |-> o.symbol, side |-> o.side, price |-> o.price, size |-> o.size]
      BY MessageFields DEF OrderOf
    <3>2. o = [symbol |-> o.symbol, side |-> o.side, price |-> o.price, size |-> o.size]
      BY <2>2 DEF VenueOrder
    <3> QED BY <3>1, <3>2, MessageFields
  <2>6. Rests(id, o) = Put(resting, m.id, OrderOf(m))
    BY <2>5 DEF Rests, Put
  <2> HIDE DEF m
  <2>7. Moves(resting, m, Rests(id, o))
    BY <2>4, <2>5, <2>6 DEF Moves
  <2> QED
    BY <2>1, <2>3, <2>7 DEF m
<1>2. CASE VenueDeletes
  <2>1. PICK id \in DOMAIN resting : Sends(Message("delete", id, resting[id]), Leaves(id))
    BY <1>2 DEF VenueDeletes
  <2> DEFINE m == Message("delete", id, resting[id])
  <2>2. id \in OrderId /\ resting[id] \in VenueOrder
    BY DEF VenueTypes
  <2>3. m \in VenueMessage /\ m.kind = "delete" /\ m.id = id
    BY <2>2, MessageOfOrder DEF Kind
  <2>4. Leaves(id) = Drop(resting, id)
    BY DEF Leaves, Drop
  <2> HIDE DEF m
  <2>5. Moves(resting, m, Leaves(id))
    BY <2>3, <2>4 DEF Moves
  <2> QED
    BY <2>1, <2>3, <2>5 DEF m
<1>3. CASE VenueModifies
  <2>1. PICK id \in DOMAIN resting, p \in Price, n \in Size :
          LET o == [resting[id] EXCEPT !.price = p, !.size = n]
          IN  o # resting[id] /\ Sends(Message("modify", id, o), Rests(id, o))
    BY <1>3, Zenon DEF VenueModifies
  <2> DEFINE was == resting[id]
             o == [was EXCEPT !.price = p, !.size = n]
             m == Message("modify", id, o)
  <2>2. id \in OrderId /\ was \in VenueOrder
    BY DEF VenueTypes
  <2>3. Sends(m, Rests(id, o))
    BY <2>1
  <2>4. o \in VenueOrder /\ o.price = p /\ o.size = n
    <3> HIDE DEF was
    <3> QED
      BY <2>2 DEF VenueOrder, Size
  <2>5. m \in VenueMessage
    <3> HIDE DEF o
    <3> QED BY <2>2, <2>4, MessageOfOrder DEF Kind
  <2>6. m.kind = "modify" /\ m.id = id /\ m.price = p /\ m.size = n
    <3> HIDE DEF o
    <3> QED BY <2>4, MessageFields
  <2>7. Moved(was, m) = o
    <3> HIDE DEF m, was
    <3> QED BY <2>6 DEF Moved
  <2>8. Rests(id, o) = Put(resting, m.id, Moved(was, m))
    <3> HIDE DEF m, o
    <3> QED BY <2>6, <2>7 DEF Rests, Put
  <2>9. Moves(resting, m, Rests(id, o))
    <3> HIDE DEF m, o
    <3> QED BY <2>6, <2>8 DEF Moves
  <2> HIDE DEF m
  <2> QED
    BY <2>3, <2>5, <2>9
<1>4. CASE VenueExecutes
  <2>1. PICK id \in DOMAIN resting : \E n \in 1..resting[id].size :
          LET o == resting[id]
          IN  Sends(Message("executed", id, [o EXCEPT !.size = n]),
                    IF n = o.size THEN Leaves(id) ELSE Rests(id, [o EXCEPT !.size = o.size - n]))
    BY <1>4, Zenon DEF VenueExecutes
  <2> DEFINE o == resting[id]
  <2>2. PICK n \in 1..o.size :
          Sends(Message("executed", id, [o EXCEPT !.size = n]),
                IF n = o.size THEN Leaves(id) ELSE Rests(id, [o EXCEPT !.size = o.size - n]))
    BY <2>1
  <2>3. id \in OrderId /\ o \in VenueOrder
    BY DEF VenueTypes
  <2> DEFINE part == [o EXCEPT !.size = n]
             left == [o EXCEPT !.size = o.size - n]
             book == IF n = o.size THEN Leaves(id) ELSE Rests(id, left)
             m == Message("executed", id, part)
  <2>4. part \in VenueOrder /\ part.size = n
    <3> HIDE DEF o
    <3> QED BY <2>3, HandlerAssumption DEF VenueOrder
  <2>5. Sends(m, book)
    BY <2>2
  <2>6. m \in VenueMessage
    <3> HIDE DEF part, o
    <3> QED BY <2>3, <2>4, MessageOfOrder DEF Kind
  <2>7. m.kind = "executed" /\ m.id = id /\ m.size = n
    <3> HIDE DEF part, o
    <3> QED BY <2>4, MessageFields
  <2>8. Filled(o, m) = left
    <3> HIDE DEF m, o
    <3> QED BY <2>7 DEF Filled
  <2>9. book = IF m.size = o.size THEN Drop(resting, m.id) ELSE Put(resting, m.id, Filled(o, m))
    <3> HIDE DEF m, left
    <3> QED BY <2>7, <2>8 DEF Leaves, Rests, Put, Drop
  <2>10. Moves(resting, m, book)
    <3> HIDE DEF m, book
    <3> QED BY <2>7, <2>9 DEF Moves
  <2> HIDE DEF m, book
  <2> QED
    BY <2>5, <2>6, <2>10
<1>5. CASE VenueOther
  <2> DEFINE somewhere == CHOOSE p \in Price : TRUE
  <2>1. PICK kind \in {"trade", "other"}, s \in Symbol :
          Sends(Message(kind, 0, [symbol |-> s, side |-> "B", price |-> somewhere, size |-> 1]),
                resting)
    BY <1>5 DEF VenueOther
  <2>2. somewhere \in Price
    BY HandlerAssumption
  <2> HIDE DEF somewhere
  <2> DEFINE o == [symbol |-> s, side |-> "B", price |-> somewhere, size |-> 1]
             m == Message(kind, 0, o)
  <2>3. o \in VenueOrder
    BY <2>2, HandlerAssumption DEF VenueOrder, Side
  <2>4. Sends(m, resting)
    BY <2>1
  <2> HIDE DEF o
  <2>5. kind \in Kind
    BY DEF Kind
  <2>6. m \in VenueMessage /\ m.kind = kind
    BY <2>3, <2>5, MessageOfOrder
  <2> HIDE DEF m
  <2>7. Moves(resting, m, resting)
    BY <2>6 DEF Moves
  <2> QED
    BY <2>4, <2>6, <2>7
<1> QED
  BY <1>1, <1>2, <1>3, <1>4, <1>5 DEF VenueStep

LEMMA MirrorInit == Init => MirrorInv
<1> SUFFICES ASSUME Init PROVE MirrorInv
  OBVIOUS
<1> DEFINE h == [k \in 0..0 |-> resting]
<1>1. /\ tape = <<>> /\ resting = [id \in {} |-> 0] /\ decoded = <<>>
      /\ orders = [id \in {} |-> 0] /\ unknown_references = 0
      /\ levels = [s \in Symbol |-> [side \in Side |-> [p \in Price |-> 0]]]
  BY DEF Init, DecoderInit
<1>2. Len(tape) = 0 /\ Len(decoded) = 0 /\ DOMAIN decoded = {} /\ DOMAIN resting = {}
  BY <1>1
<1>3. IsBook(resting) /\ \A s, side, p : LevelOf(resting, s, side, p) = 0
  BY <1>2, EmptyBookLevels
<1>4. Uncrossed(resting)
  BY <1>2 DEF Uncrossed
<1>5. DOMAIN h = 0..0 /\ \A k \in 0..0 : k = 0 /\ h[k] = resting
  OBVIOUS
<1> HIDE DEF h
<1>6. 0 \in 0..0 /\ 1..0 = {}
  OBVIOUS
<1>7. History(h)
  BY <1>2, <1>3, <1>4, <1>5, <1>6 DEF History
<1>8. Mirrors(h[0])
  BY <1>1, <1>3, <1>5, <1>6 DEF Mirrors, Draws
<1>9. Follows(h)
  BY <1>2, <1>8 DEF Follows
<1>10. RestingWereAdded /\ DecodedWasSent
  BY <1>2 DEF RestingWereAdded, DecodedWasSent
<1> QED
  BY <1>7, <1>9, <1>10 DEF MirrorInv

LEMMA MirrorStutter ==
  ASSUME MirrorInv, UNCHANGED <<tape, resting, decoded, orders, levels, unknown_references>>
  PROVE  MirrorInv'
<1>1. PICK h : History(h) /\ Follows(h)
  BY DEF MirrorInv
<1>2. History(h)' /\ Follows(h)'
  BY <1>1 DEF History, Follows, Unbroken, Mirrors, Draws
<1>3. RestingWereAdded' /\ DecodedWasSent'
  BY DEF MirrorInv, RestingWereAdded, DecodedWasSent
<1> QED
  BY <1>2, <1>3 DEF MirrorInv

LEMMA MirrorVenue ==
  ASSUME VenueTypes, MirrorInv, decoded \in Seq(Nat), VenueStep
  PROVE  MirrorInv'
<1>1. PICK h : History(h) /\ Follows(h)
  BY DEF MirrorInv
<1>2. tape \in Seq(VenueMessage) /\ Len(tape) \in Nat /\ Len(tape) \in 0..Len(tape)
  BY DEF VenueTypes
<1>3. IsBook(resting)
  BY <1>1, <1>2 DEF History
<1>m. PICK m \in VenueMessage : \E c : Sends(m, c) /\ Moves(resting, m, c)
  BY <1>3, VenueMoves DEF MirrorInv
<1>4. PICK c : Sends(m, c) /\ Moves(resting, m, c)
  BY <1>m
<1>5. tape' = Append(tape, m) /\ resting' = c /\ Uncrossed(c)
  BY <1>4 DEF Sends
<1>6. IsBook(c) /\ DOMAIN c \subseteq DOMAIN resting \cup (IF m.kind = "add" THEN {m.id} ELSE {})
  BY <1>3, <1>4, MovesBook
<1>7. UNCHANGED <<decoded, orders, levels, unknown_references>>
  BY DEF VenueStep, decoderVars
<1>8. PICK n \in Nat : n = Len(tape)
  BY <1>2
<1>9. /\ Len(tape') = n + 1 /\ tape'[n + 1] = m
      /\ \A i \in 1..n : tape'[i] = tape[i]
      /\ DOMAIN tape' = 1..(n + 1) /\ DOMAIN tape = 1..n
  BY <1>2, <1>5, <1>8
<1> DEFINE g == [k \in 0..(n + 1) |-> IF k = n + 1 THEN c ELSE h[k]]
<1>10. /\ DOMAIN g = 0..(n + 1) /\ g[n + 1] = c
       /\ \A k \in 0..n : g[k] = h[k]
  OBVIOUS
<1> HIDE DEF g
<1>11. \A k \in 0..(n + 1) : k = n + 1 \/ k \in 0..n
  OBVIOUS
<1>12. /\ DOMAIN h[0] = {} /\ h[n] = resting
       /\ \A k \in 0..n : IsBook(h[k]) /\ Uncrossed(h[k])
       /\ \A k \in 1..n : Moves(h[k - 1], tape[k], h[k])
  BY <1>1, <1>8 DEF History
<1>13. \A k \in 0..(n + 1) : IsBook(g[k]) /\ Uncrossed(g[k])
  BY <1>5, <1>6, <1>10, <1>11, <1>12
<1>14. \A k \in 1..(n + 1) : Moves(g[k - 1], tape'[k], g[k])
  <2> SUFFICES ASSUME NEW k \in 1..(n + 1) PROVE Moves(g[k - 1], tape'[k], g[k])
    OBVIOUS
  <2>1. CASE k = n + 1
    <3>1. g[k - 1] = resting /\ g[k] = c /\ tape'[k] = m
      BY <1>9, <1>10, <1>12, <2>1
    <3> QED BY <1>4, <3>1
  <2>2. CASE k # n + 1
    <3>1. k \in 1..n /\ k - 1 \in 0..n /\ k \in 0..n
      BY <2>2
    <3>2. g[k - 1] = h[k - 1] /\ g[k] = h[k] /\ tape'[k] = tape[k]
      BY <1>9, <1>10, <3>1
    <3> QED BY <1>12, <3>1, <3>2
  <2> QED BY <2>1, <2>2
<1>15. History(g)'
  <2>1. DOMAIN g[0] = {}
    BY <1>10, <1>12
  <2> QED
    BY <1>5, <1>9, <1>10, <1>13, <1>14, <2>1 DEF History
<1>16. Follows(g)'
  <2> SUFFICES ASSUME Unbroken PROVE Len(decoded) <= n + 1 /\ Mirrors(g[Len(decoded)])'
    BY <1>7, <1>9 DEF Follows, Unbroken
  <2>1. Len(decoded) <= n /\ Mirrors(h[Len(decoded)]) /\ Len(decoded) \in Nat
    BY <1>1, <1>8 DEF Follows
  <2>2. g[Len(decoded)] = h[Len(decoded)] /\ Len(decoded) <= n + 1
    BY <1>10, <2>1
  <2> QED
    BY <1>7, <2>1, <2>2 DEF Mirrors, Draws
<1>17. RestingWereAdded'
  <2> SUFFICES ASSUME NEW id \in DOMAIN c
               PROVE  \E i \in DOMAIN tape' : tape'[i].kind = "add" /\ tape'[i].id = id
    BY <1>5 DEF RestingWereAdded
  <2>1. CASE id \in DOMAIN resting
    <3>1. PICK i \in DOMAIN tape : tape[i].kind = "add" /\ tape[i].id = id
      BY <2>1 DEF MirrorInv, RestingWereAdded
    <3>2. i \in DOMAIN tape' /\ tape'[i] = tape[i]
      BY <1>9, <3>1
    <3> QED BY <3>1, <3>2
  <2>2. CASE m.kind = "add" /\ id = m.id
    <3>1. n + 1 \in DOMAIN tape'
      BY <1>9
    <3> QED BY <1>9, <2>2, <3>1
  <2> QED BY <1>6, <2>1, <2>2
<1>18. DecodedWasSent'
  <2>1. \A i \in DOMAIN decoded : decoded[i] \in 1..(n + 1)
    BY <1>8 DEF MirrorInv, DecodedWasSent
  <2> QED BY <1>7, <1>9, <2>1 DEF DecodedWasSent
<1> QED
  BY <1>15, <1>16, <1>17, <1>18 DEF MirrorInv

LEMMA MirrorDecodeStep ==
  ASSUME SequenceInv, MarketInv, MirrorInv, DecodeMessage
  PROVE  MirrorInv'
<1>1. PICK h : History(h) /\ Follows(h)
  BY DEF MirrorInv
<1>2. /\ packet # NoPacket /\ position < packet.carried
      /\ Decode(tape[At]) /\ decoded' = Append(decoded, At) /\ UNCHANGED <<tape, resting>>
  BY DEF DecodeMessage, AtMessage, venueVars, At
<1>3. tape \in Seq(VenueMessage) /\ At \in DOMAIN tape
  <2>1. packet.first + packet.count - 1 <= Len(tape)
    BY <1>2 DEF MarketInv, OnTape
  <2>2. tape \in Seq(VenueMessage)
    BY DEF MarketInv, VenueTypes
  <2> QED
    BY <1>2, <2>1, <2>2, InsideDatagram DEF At
<1>4. decoded \in Seq(Nat) /\ Len(decoded) \in Nat /\ At \in Nat
  BY <1>2, InsideDatagram DEF SequenceInv, SequenceTypes
<1>5. /\ Len(decoded') = Len(decoded) + 1 /\ DOMAIN decoded = 1..Len(decoded)
      /\ decoded'[Len(decoded) + 1] = At /\ DOMAIN decoded' = 1..(Len(decoded) + 1)
      /\ \A i \in DOMAIN decoded : decoded'[i] = decoded[i]
  BY <1>2, <1>4
<1>6. History(h)'
  BY <1>1, <1>2 DEF History
<1>7. Follows(h)'
  <2> SUFFICES ASSUME Unbroken' PROVE Follows(h)'
    BY DEF Follows
  <2>1. At = Len(decoded) + 1
    <3>1. Len(decoded) + 1 \in DOMAIN decoded'
      BY <1>4, <1>5
    <3> QED BY <1>5, <3>1 DEF Unbroken
  <2>2. Unbroken
    BY <1>4, <1>5 DEF Unbroken
  <2>3. Len(decoded) <= Len(tape) /\ Mirrors(h[Len(decoded)])
    BY <1>1, <2>2 DEF Follows
  <2>4. PICK n \in 1..Len(tape) : n = At
    BY <1>3
  <2>5. Len(tape) \in Nat /\ n \in Nat /\ Len(decoded) = n - 1 /\ n - 1 \in 0..Len(tape)
    BY <1>3, <1>4, <2>1, <2>4
  <2>6. Moves(h[n - 1], tape[n], h[n]) /\ IsBook(h[n - 1])
    BY <1>1, <2>5 DEF History
  <2>7. tape[n] \in VenueMessage /\ levels \in Levels
    BY <1>3, <2>4 DEF MarketInv, DecoderTypes
  <2>8. Decode(tape[n]) /\ Mirrors(h[n - 1])
    BY <1>2, <2>3, <2>4, <2>5
  <2>9. Mirrors(h[n])'
    BY <2>6, <2>7, <2>8, MirrorDecode
  <2>10. Len(decoded') = n /\ tape' = tape /\ n <= Len(tape)
    BY <1>2, <1>5, <2>4, <2>5
  <2> QED
    BY <2>9, <2>10 DEF Follows, Mirrors, Draws
<1>8. DecodedWasSent'
  <2>1. At \in 1..Len(tape)
    BY <1>3
  <2> QED BY <1>2, <1>5, <2>1 DEF MirrorInv, DecodedWasSent
<1>9. RestingWereAdded'
  BY <1>2 DEF MirrorInv, RestingWereAdded
<1> QED
  BY <1>6, <1>7, <1>8, <1>9 DEF MirrorInv

LEMMA MirrorStep ==
  ASSUME SequenceInv, MarketInv, MirrorInv, [Next]_handlerVars
  PROVE  MirrorInv'
<1>1. CASE VenueStep
  BY <1>1, MirrorVenue DEF MarketInv, SequenceInv, SequenceTypes
<1>2. CASE DecodeMessage
  BY <1>2, MirrorDecodeStep
<1>3. CASE \/ \E first \in 1..MaxTape, count \in 1..MaxBatch : \E carried \in 0..count :
                count - carried <= MaxCut /\ OnPayload(first, count, carried)
           \/ SkipMessage \/ PublishUpdate \/ PayloadDone \/ UNCHANGED handlerVars
  <2>1. UNCHANGED <<tape, resting, decoded, orders, levels, unknown_references>>
    BY <1>3 DEF OnPayload, SkipMessage, PublishUpdate, PayloadDone, handlerVars, venueVars,
         decoderVars
  <2> QED BY <2>1, MirrorStutter
<1> QED
  BY <1>1, <1>2, <1>3 DEF Next

LEMMA MirrorAlways == Spec => []MirrorInv
BY MirrorInit, MirrorStep, SequenceAlways, MarketAlways, PTL DEF Spec

(* As many messages decoded as sent, none twice: all of them were decoded.  *)
LEMMA AllDecoded ==
  ASSUME NEW n \in Nat, NEW f \in [1..n -> 1..n],
         \A i, j \in 1..n : i < j => f[i] < f[j]
  PROVE  \A i \in 1..n : f[i] = i
<1>1. \A i \in 1..n : f[i] \in Nat /\ f[i] >= 1 /\ f[i] <= n
  OBVIOUS
<1>2. \A i \in 1..n : f[i] >= i
  <2> DEFINE Low == {i \in 1..n : f[i] < i}
  <2> SUFFICES ASSUME Low # {} PROVE FALSE
    BY <1>1
  <2>1. Low \in SUBSET Nat
    OBVIOUS
  <2>2. PICK i \in Low : \A k \in Low : i <= k
    <3> HIDE DEF Low
    <3> QED BY <2>1, LeastNatural
  <2>3. i \in 1..n /\ f[i] < i /\ i # 1
    BY <1>1
  <2>4. i - 1 \in 1..n /\ i - 1 < i
    BY <2>3
  <2>5. f[i - 1] < f[i]
    BY <2>3, <2>4
  <2>6. i - 1 \in Low
    BY <1>1, <2>3, <2>4, <2>5
  <2> QED
    BY <2>2, <2>3, <2>6
<1>3. \A i \in 1..n : f[i] <= i
  <2> DEFINE High == {i \in 1..n : f[i] > i}
  <2> SUFFICES ASSUME High # {} PROVE FALSE
    BY <1>1
  <2>1. High \in SUBSET Int /\ IsFiniteSet(High)
    <3>1. IsFiniteSet(1..n) /\ High \in SUBSET (1..n)
      BY FS_Interval
    <3>2. IsFiniteSet(High)
      <4> HIDE DEF High
      <4> QED BY <3>1, FS_Subset
    <3> QED BY <3>2
  <2>2. PICK i \in High : \A k \in High : k <= i
    <3> HIDE DEF High
    <3> QED BY <2>1, Largest
  <2>3. i \in 1..n /\ f[i] > i /\ i # n
    BY <1>1
  <2>4. i + 1 \in 1..n /\ i < i + 1
    BY <2>3
  <2>5. f[i] < f[i + 1]
    BY <2>3, <2>4
  <2>6. i + 1 \in High
    BY <1>1, <2>3, <2>4, <2>5
  <2> QED
    BY <2>2, <2>3, <2>6
<1> QED
  BY <1>1, <1>2, <1>3

LEMMA CaughtUp ==
  ASSUME SequenceInv, DecodedWasSent, Len(decoded) = Len(tape)
  PROVE  Unbroken
<1>1. decoded \in Seq(Nat) /\ AtMostOnceInOrder
  BY DEF SequenceInv, SequenceTypes, OrderInv
<1>2. PICK n \in Nat : n = Len(decoded)
  BY <1>1
<1>3. DOMAIN decoded = 1..n /\ decoded \in [1..n -> Nat]
  BY <1>1, <1>2
<1>4. decoded \in [1..n -> 1..n]
  <2>1. \A i \in 1..n : decoded[i] \in 1..n
    BY <1>2, <1>3 DEF DecodedWasSent
  <2> QED BY <1>3, <2>1
<1>5. \A i, j \in 1..n : i < j => decoded[i] < decoded[j]
  BY <1>1, <1>3 DEF AtMostOnceInOrder
<1>6. \A i \in 1..n : decoded[i] = i
  BY <1>4, <1>5, AllDecoded
<1> QED
  BY <1>3, <1>6 DEF Unbroken

(* A handler that has decoded all the venue sent holds its resting orders   *)
(* and the sums of their sizes, however the datagrams came.                 *)
THEOREM LevelsAreTheMarketAlways == Spec => []LevelsAreTheMarket
<1>1. SequenceInv /\ VenueTypes /\ MirrorInv => LevelsAreTheMarket
  <2> SUFFICES ASSUME SequenceInv, VenueTypes, MirrorInv, Len(decoded) = Len(tape)
               PROVE  /\ orders = resting
                      /\ \A s \in Symbol, side \in Side, p \in Price :
                           levels[s][side][p] =
                             MapThenSumSet(LAMBDA id : resting[id].size, OrdersAt(s, side, p))
    BY DEF LevelsAreTheMarket
  <2>1. PICK h : History(h) /\ Follows(h)
    BY DEF MirrorInv
  <2>2. Len(tape) \in 0..Len(tape)
    BY DEF VenueTypes
  <2>3. Unbroken
    BY CaughtUp DEF MirrorInv
  <2>4. Mirrors(resting) /\ IsBook(resting)
    BY <2>1, <2>2, <2>3 DEF History, Follows
  <2>5. ASSUME NEW s \in Symbol, NEW side \in Side, NEW p \in Price
        PROVE  levels[s][side][p] =
                 MapThenSumSet(LAMBDA id : resting[id].size, OrdersAt(s, side, p))
    <3>1. OrdersAt(s, side, p) = AtLevel(resting, s, side, p)
      BY DEF OrdersAt, AtLevel, LiesAt
    <3>2. OrdersAt(s, side, p) \in SUBSET DOMAIN resting
      BY DEF OrdersAt
    <3>3. Sized(resting, OrdersAt(s, side, p))
      BY <2>4, <3>2, BookSized
    <3>4. MapThenSumSet(LAMBDA id : resting[id].size, OrdersAt(s, side, p))
            = Total(resting, OrdersAt(s, side, p))
      BY <3>3, SumIsTotal
    <3> QED
      BY <2>4, <3>1, <3>4 DEF Mirrors, Draws, LevelOf
  <2> QED
    BY <2>4, <2>5 DEF Mirrors
<1>2. MarketInv => VenueTypes
  BY DEF MarketInv
<1> QED
  BY <1>1, <1>2, SequenceAlways, MarketAlways, MirrorAlways, PTL

-----------------------------------------------------------------------------
(* Whatever was lost: the levels against the orders the decoder knows.      *)

(* No level of lv is above that of the book b.                              *)
Within(lv, b) ==
  \A s \in Symbol, side \in Side, p \in Price : lv[s][side][p] <= LevelOf(b, s, side, p)

(* Each order the decoder knows was added by a message handed to it, and    *)
(* the numbers of added orders ascend: an add is never of a known order.    *)
KnownWereAdded ==
  \A id \in DOMAIN orders :
    \E i \in DOMAIN decoded : tape[decoded[i]].kind = "add" /\ tape[decoded[i]].id = id

AddsAscend ==
  \A i, j \in DOMAIN tape :
    i < j /\ tape[i].kind = "add" /\ tape[j].kind = "add" => tape[i].id < tape[j].id

WithinInv ==
  /\ IsBook(orders) /\ Within(levels, orders)
  /\ KnownWereAdded /\ AddsAscend /\ DecodedWasSent

(* An update takes no level above a book that takes back no more than it.   *)
LEMMA AddLevelWithin ==
  ASSUME NEW lv \in Levels, NEW o \in Order, NEW d \in Int, NEW b, NEW c, IsBook(b), IsBook(c),
         Within(lv, b),
         \A s \in Symbol, side \in Side, p \in Price :
           LevelOf(c, s, side, p)
             >= LevelOf(b, s, side, p) + (IF LiesAt(o, s, side, p) THEN d ELSE 0),
         NEW new, new = AddLevel(lv, o, d)
  PROVE  new \in Levels /\ Within(new, c)
<1>1. new \in Levels
  BY AddLevelAt
<1>2. ASSUME NEW s \in Symbol, NEW side \in Side, NEW p \in Price
      PROVE  new[s][side][p] <= LevelOf(c, s, side, p)
  <2>1. LevelOf(c, s, side, p) \in Nat /\ LevelOf(b, s, side, p) \in Nat
    BY LevelSplit
  <2>2. lv[s][side][p] <= LevelOf(b, s, side, p) /\ lv[s][side][p] \in Nat
    BY DEF Within, Levels
  <2>3. CASE LiesAt(o, s, side, p)
    <3>1. s = o.symbol /\ side = o.side /\ p = o.price
      BY <2>3 DEF LiesAt
    <3>2. new[s][side][p] = NewTotal(lv, o, d)
      BY <3>1, AddLevelHere
    <3>3. LevelOf(c, s, side, p) >= LevelOf(b, s, side, p) + d
      BY <2>3
    <3>4. NewTotal(lv, o, d) = IF lv[s][side][p] + d <= 0 THEN 0 ELSE lv[s][side][p] + d
      BY <3>1 DEF NewTotal
    <3> QED
      BY <2>1, <2>2, <3>2, <3>3, <3>4
  <2>4. CASE ~LiesAt(o, s, side, p)
    <3>1. ~(s = o.symbol /\ side = o.side /\ p = o.price)
      BY <2>4 DEF LiesAt
    <3>2. new[s][side][p] = lv[s][side][p]
      BY <3>1, AddLevelElsewhere
    <3>3. LevelOf(c, s, side, p) >= LevelOf(b, s, side, p) + 0
      BY <2>4
    <3> QED
      BY <2>1, <2>2, <3>2, <3>3
  <2> QED BY <2>3, <2>4
<1> QED
  BY <1>1, <1>2 DEF Within

(* What a known order has at its level, and what is there without it.       *)
LEMMA KnownShare ==
  ASSUME IsBook(orders), NEW id \in DOMAIN orders, NEW s, NEW side, NEW p
  PROVE  /\ LevelOf(orders, s, side, p)
              = Rest(orders, id, s, side, p)
                + (IF LiesAt(orders[id], s, side, p) THEN orders[id].size ELSE 0)
         /\ Rest(orders, id, s, side, p) \in Nat
<1>1. Own(orders, id, s, side, p)
        = IF LiesAt(orders[id], s, side, p) THEN orders[id].size ELSE 0
  BY DEF Own
<1> QED
  BY <1>1, LevelSplit

LEMMA WithinAdd ==
  ASSUME IsBook(orders), Within(levels, orders), levels \in Levels, NEW m \in VenueMessage,
         m.id \in OrderId \ DOMAIN orders, OrderAdd(m)
  PROVE  IsBook(orders') /\ Within(levels', orders')
<1> DEFINE o == OrderOf(m)
           c == Put(orders, m.id, o)
<1>1. o \in VenueOrder
  BY DEF VenueMessage, VenueOrder, OrderOf
<1>2. orders' = c /\ levels' = AddLevel(levels, o, o.size)
  BY DEF OrderAdd, Remember, Put, OrderOf
<1>3. o \in Order /\ o.size \in Int
  BY <1>1, OrderFields
<1>4. IsBook(c)
  BY <1>1, PutBook
<1> HIDE DEF o
<1>5. ASSUME NEW s \in Symbol, NEW side \in Side, NEW p \in Price
      PROVE  LevelOf(c, s, side, p)
               >= LevelOf(orders, s, side, p) + (IF LiesAt(o, s, side, p) THEN o.size ELSE 0)
  <2>1. Own(orders, m.id, s, side, p) = 0
    BY DEF Own
  <2>2. /\ LevelOf(orders, s, side, p) = Rest(orders, m.id, s, side, p)
        /\ Rest(orders, m.id, s, side, p) \in Nat
    BY <2>1, LevelSplit
  <2>3. LevelOf(c, s, side, p)
          = Rest(orders, m.id, s, side, p) + (IF LiesAt(o, s, side, p) THEN o.size ELSE 0)
    BY <1>1, PutBook
  <2> HIDE DEF c
  <2> QED
    BY <1>3, <2>2, <2>3
<1> HIDE DEF c
<1> QED
  BY <1>2, <1>3, <1>4, <1>5, AddLevelWithin

LEMMA WithinDelete ==
  ASSUME IsBook(orders), Within(levels, orders), levels \in Levels, NEW m, OrderDelete(m)
  PROVE  IsBook(orders') /\ Within(levels', orders')
<1> DEFINE o == orders[m.id]
           c == Drop(orders, m.id)
           d == -o.size
<1>1. m.id \in DOMAIN orders /\ o \in VenueOrder
  BY DEF OrderDelete, Known, IsBook
<1>2. orders' = c /\ levels' = AddLevel(levels, o, d)
  BY DEF OrderDelete, Forget, Drop
<1>3. o \in Order /\ o.size \in Nat /\ d \in Int
  BY <1>1, OrderFields
<1>4. IsBook(c)
  BY DropBook
<1>5. ASSUME NEW s \in Symbol, NEW side \in Side, NEW p \in Price
      PROVE  LevelOf(c, s, side, p)
               >= LevelOf(orders, s, side, p) + (IF LiesAt(o, s, side, p) THEN d ELSE 0)
  <2>1. LevelOf(c, s, side, p) = Rest(orders, m.id, s, side, p)
    BY DropBook
  <2>2. /\ LevelOf(orders, s, side, p)
             = Rest(orders, m.id, s, side, p) + (IF LiesAt(o, s, side, p) THEN o.size ELSE 0)
        /\ Rest(orders, m.id, s, side, p) \in Nat
    BY <1>1, KnownShare
  <2> HIDE DEF o, c
  <2> QED
    BY <1>3, <2>1, <2>2
<1> HIDE DEF o, c, d
<1> QED
  BY <1>2, <1>3, <1>4, <1>5, AddLevelWithin

LEMMA WithinModify ==
  ASSUME IsBook(orders), Within(levels, orders), levels \in Levels, NEW m \in VenueMessage,
         OrderModify(m)
  PROVE  IsBook(orders') /\ Within(levels', orders')
<1> DEFINE o == orders[m.id]
           moved == Moved(o, m)
           c == Put(orders, m.id, moved)
           b == Drop(orders, m.id)
           left == AddLevel(levels, o, -o.size)
<1>1. m.id \in DOMAIN orders /\ m.id \in OrderId /\ o \in VenueOrder
  BY DEF OrderModify, Known, IsBook
<1>2. /\ orders' = c
      /\ \/ m.price = o.price /\ levels' = AddLevel(levels, o, m.size - o.size)
         \/ m.price # o.price /\ levels' = AddLevel(left, moved, m.size)
  BY DEF OrderModify, Remember, Put, Moved
<1>3. m.size \in 1..MaxSize /\ m.size \in Nat /\ m.price \in Price
  BY MessageTypes
<1>4. /\ moved \in VenueOrder /\ moved.symbol = o.symbol /\ moved.side = o.side
      /\ moved.price = m.price /\ moved.size = m.size
  <2> HIDE DEF o
  <2> QED BY <1>1, <1>3 DEF Moved, VenueOrder
<1>5. /\ o \in Order /\ o.size \in Nat /\ -o.size \in Int /\ moved \in Order
      /\ m.size - o.size \in Int /\ m.size \in Int
  BY <1>1, <1>3, <1>4, OrderFields
<1>6. IsBook(c) /\ IsBook(b)
  BY <1>1, <1>4, PutBook, DropBook
<1>7. ASSUME NEW s \in Symbol, NEW side \in Side, NEW p \in Price
      PROVE  /\ LevelOf(orders, s, side, p)
                  = Rest(orders, m.id, s, side, p)
                    + (IF LiesAt(o, s, side, p) THEN o.size ELSE 0)
             /\ LevelOf(c, s, side, p)
                  = Rest(orders, m.id, s, side, p)
                    + (IF LiesAt(moved, s, side, p) THEN m.size ELSE 0)
             /\ LevelOf(b, s, side, p) = Rest(orders, m.id, s, side, p)
             /\ Rest(orders, m.id, s, side, p) \in Nat
  <2>1. LevelOf(c, s, side, p)
          = Rest(orders, m.id, s, side, p) + (IF LiesAt(moved, s, side, p) THEN moved.size ELSE 0)
    BY <1>1, <1>4, PutBook
  <2>2. moved.size = m.size
    BY <1>4
  <2> HIDE DEF moved
  <2> QED
    BY <1>1, <2>1, <2>2, KnownShare, DropBook
<1> HIDE DEF o, moved, c, b
<1>8. CASE m.price = o.price /\ levels' = AddLevel(levels, o, m.size - o.size)
  <2> DEFINE d == m.size - o.size
  <2>1. ASSUME NEW s \in Symbol, NEW side \in Side, NEW p \in Price
        PROVE  LevelOf(c, s, side, p)
                 >= LevelOf(orders, s, side, p) + (IF LiesAt(o, s, side, p) THEN d ELSE 0)
    <3>1. LiesAt(moved, s, side, p) <=> LiesAt(o, s, side, p)
      BY <1>4, <1>8 DEF LiesAt
    <3> QED
      BY <1>3, <1>5, <1>7, <3>1
  <2>2. d \in Int /\ levels' = AddLevel(levels, o, d)
    BY <1>5, <1>8
  <2> HIDE DEF d
  <2> QED
    BY <1>2, <1>5, <1>6, <2>1, <2>2, AddLevelWithin
<1>9. CASE levels' = AddLevel(left, moved, m.size)
  <2> DEFINE d == -o.size
  <2>1. ASSUME NEW s \in Symbol, NEW side \in Side, NEW p \in Price
        PROVE  LevelOf(b, s, side, p)
                 >= LevelOf(orders, s, side, p) + (IF LiesAt(o, s, side, p) THEN d ELSE 0)
    BY <1>5, <1>7
  <2>2. ASSUME NEW s \in Symbol, NEW side \in Side, NEW p \in Price
        PROVE  LevelOf(c, s, side, p)
                 >= LevelOf(b, s, side, p) + (IF LiesAt(moved, s, side, p) THEN m.size ELSE 0)
    BY <1>3, <1>7
  <2>3. d \in Int /\ left = AddLevel(levels, o, d)
    BY <1>5
  <2> HIDE DEF d, left
  <2>4. left \in Levels /\ Within(left, b)
    BY <1>5, <1>6, <2>1, <2>3, AddLevelWithin
  <2> QED
    BY <1>2, <1>5, <1>6, <1>9, <2>2, <2>4, AddLevelWithin
<1> QED
  BY <1>2, <1>8, <1>9

(* An execution takes off the level at least what it takes off the order.   *)
LEMMA WithinExecuted ==
  ASSUME IsBook(orders), Within(levels, orders), levels \in Levels, NEW m \in VenueMessage,
         OrderExecuted(m)
  PROVE  IsBook(orders') /\ Within(levels', orders')
<1> DEFINE o == orders[m.id]
           rest == Filled(o, m)
           d == -m.size
<1>1. m.id \in DOMAIN orders /\ m.id \in OrderId /\ o \in VenueOrder
  BY DEF OrderExecuted, Known, IsBook
<1>2. /\ orders' = IF m.size >= o.size THEN Drop(orders, m.id) ELSE Put(orders, m.id, rest)
      /\ levels' = AddLevel(levels, o, d)
  BY DEF OrderExecuted, Remember, Forget, Put, Drop, Filled
<1>3. m.size \in 1..MaxSize /\ m.size \in Nat /\ d \in Int
  BY MessageTypes
<1>4. o \in Order /\ o.size \in Nat /\ o.size \in 1..MaxSize
  BY <1>1, OrderFields
<1>5. ASSUME NEW s \in Symbol, NEW side \in Side, NEW p \in Price
      PROVE  /\ LevelOf(orders, s, side, p)
                  = Rest(orders, m.id, s, side, p)
                    + (IF LiesAt(o, s, side, p) THEN o.size ELSE 0)
             /\ Rest(orders, m.id, s, side, p) \in Nat
  BY <1>1, KnownShare
<1>6. CASE m.size >= o.size
  <2>1. orders' = Drop(orders, m.id)
    BY <1>2, <1>6
  <2>2. IsBook(orders')
    BY <2>1, DropBook
  <2>3. ASSUME NEW s \in Symbol, NEW side \in Side, NEW p \in Price
        PROVE  LevelOf(orders', s, side, p)
                 >= LevelOf(orders, s, side, p) + (IF LiesAt(o, s, side, p) THEN d ELSE 0)
    <3>1. LevelOf(orders', s, side, p) = Rest(orders, m.id, s, side, p)
      BY <2>1, DropBook
    <3>2. d = 0 - m.size
      BY <1>3
    <3> HIDE DEF o, d
    <3> QED
      BY <1>3, <1>4, <1>5, <1>6, <3>1, <3>2
  <2> HIDE DEF o, d
  <2> QED
    BY <1>2, <1>3, <1>4, <2>2, <2>3, AddLevelWithin
<1>7. CASE ~(m.size >= o.size)
  <2>1. orders' = Put(orders, m.id, rest)
    BY <1>2, <1>7
  <2>2. /\ rest \in VenueOrder /\ rest.symbol = o.symbol /\ rest.side = o.side
        /\ rest.price = o.price /\ rest.size = o.size - m.size
    <3> HIDE DEF o, d
    <3>1. o.size - m.size \in 1..MaxSize
      BY <1>3, <1>4, <1>7, HandlerAssumption
    <3> QED
      BY <1>1, <3>1 DEF Filled, VenueOrder
  <2>3. IsBook(orders')
    BY <1>1, <2>1, <2>2, PutBook
  <2>4. ASSUME NEW s \in Symbol, NEW side \in Side, NEW p \in Price
        PROVE  LevelOf(orders', s, side, p)
                 >= LevelOf(orders, s, side, p) + (IF LiesAt(o, s, side, p) THEN d ELSE 0)
    <3>1. LevelOf(orders', s, side, p)
            = Rest(orders, m.id, s, side, p) + (IF LiesAt(rest, s, side, p) THEN rest.size ELSE 0)
      BY <1>1, <2>1, <2>2, PutBook
    <3>2. LiesAt(rest, s, side, p) <=> LiesAt(o, s, side, p)
      BY <2>2 DEF LiesAt
    <3>3. rest.size = o.size - m.size /\ d = 0 - m.size
      BY <1>3, <2>2
    <3> HIDE DEF o, rest, d
    <3> QED
      BY <1>3, <1>4, <1>5, <3>1, <3>2, <3>3
  <2> HIDE DEF o, d
  <2> QED
    BY <1>2, <1>3, <1>4, <2>3, <2>4, AddLevelWithin
<1> QED
  BY <1>6, <1>7

(* The orders known after a message are those known before, and the one it  *)
(* adds.                                                                    *)
LEMMA KnownGrows ==
  ASSUME NEW m, Decode(m)
  PROVE  DOMAIN orders' \subseteq DOMAIN orders \cup (IF m.kind = "add" THEN {m.id} ELSE {})
<1>1. CASE OrderAdd(m)
  BY <1>1 DEF OrderAdd, Remember
<1>2. CASE OrderDelete(m)
  BY <1>2 DEF OrderDelete, Forget, Restrict
<1>3. CASE OrderModify(m)
  BY <1>3 DEF OrderModify, Known, Remember
<1>4. CASE OrderExecuted(m)
  BY <1>4 DEF OrderExecuted, Known, Remember, Forget, Restrict
<1>5. CASE UnknownReference(m) \/ TradeReport(m) \/ Ignored(m)
  BY <1>5 DEF UnknownReference, TradeReport, Ignored, decoderVars
<1> QED
  BY <1>1, <1>2, <1>3, <1>4, <1>5 DEF Decode

LEMMA WithinDecode ==
  ASSUME SequenceInv, MarketInv, WithinInv, DecodeMessage
  PROVE  WithinInv'
<1>1. /\ packet # NoPacket /\ position < packet.carried /\ skip = 0
      /\ Decode(tape[At]) /\ decoded' = Append(decoded, At) /\ UNCHANGED <<tape, resting>>
  BY DEF DecodeMessage, AtMessage, venueVars, At
<1>2. tape \in Seq(VenueMessage) /\ At \in DOMAIN tape /\ levels \in Levels
  <2>1. packet.first + packet.count - 1 <= Len(tape)
    BY <1>1 DEF MarketInv, OnTape
  <2>2. tape \in Seq(VenueMessage) /\ levels \in Levels
    BY DEF MarketInv, VenueTypes, DecoderTypes
  <2> QED
    BY <1>1, <2>1, <2>2, InsideDatagram DEF At
<1>3. decoded \in Seq(Nat) /\ Len(decoded) \in Nat /\ At \in Nat /\ expected \in Nat
  BY <1>1, InsideDatagram DEF SequenceInv, SequenceTypes
<1>4. /\ DOMAIN decoded = 1..Len(decoded) /\ DOMAIN decoded' = 1..(Len(decoded) + 1)
      /\ decoded'[Len(decoded) + 1] = At
      /\ \A i \in DOMAIN decoded : decoded'[i] = decoded[i]
  BY <1>1, <1>3
<1> DEFINE m == tape[At]
<1>5. m \in VenueMessage /\ (m.kind = "add" => m.id \in OrderId)
  BY <1>2 DEF MarketInv, VenueTypes
<1>6. \A i \in DOMAIN decoded : decoded[i] < At /\ decoded[i] \in DOMAIN tape
  <2>1. expected <= At
    BY <1>1, <1>3 DEF SequenceInv, OrderInv
  <2>2. \A i \in DOMAIN decoded : decoded[i] < expected \/ decoded[i] < At
    BY <1>1 DEF SequenceInv, OrderInv
  <2>3. \A i \in DOMAIN decoded : decoded[i] \in DOMAIN tape /\ decoded[i] \in Nat
    BY <1>2, <1>3 DEF WithinInv, DecodedWasSent
  <2> QED
    BY <1>3, <2>1, <2>2, <2>3
<1>7. m.kind = "add" => m.id \notin DOMAIN orders
  <2> SUFFICES ASSUME m.kind = "add", m.id \in DOMAIN orders PROVE FALSE
    OBVIOUS
  <2>1. PICK i \in DOMAIN decoded :
          tape[decoded[i]].kind = "add" /\ tape[decoded[i]].id = m.id
    BY DEF WithinInv, KnownWereAdded
  <2>2. m.id < m.id
    BY <1>2, <1>6, <2>1 DEF WithinInv, AddsAscend
  <2>3. m.id \in Nat
    BY <1>5, HandlerAssumption
  <2> QED
    BY <2>2, <2>3
<1>8. KnownWereAdded'
  <2> SUFFICES ASSUME NEW id \in DOMAIN orders'
               PROVE  \E i \in DOMAIN decoded' :
                        tape[decoded'[i]].kind = "add" /\ tape[decoded'[i]].id = id
    BY <1>1 DEF KnownWereAdded
  <2>1. CASE id \in DOMAIN orders
    <3>1. PICK i \in DOMAIN decoded : tape[decoded[i]].kind = "add" /\ tape[decoded[i]].id = id
      BY <2>1 DEF WithinInv, KnownWereAdded
    <3>2. i \in DOMAIN decoded' /\ decoded'[i] = decoded[i]
      BY <1>3, <1>4
    <3> QED
      BY <3>1, <3>2
  <2>2. CASE id \notin DOMAIN orders
    <3>1. m.kind = "add" /\ id = m.id
      BY <1>1, <2>2, KnownGrows
    <3>2. Len(decoded) + 1 \in DOMAIN decoded'
      BY <1>3, <1>4
    <3> QED
      BY <1>4, <3>1, <3>2
  <2> QED
    BY <2>1, <2>2
<1>9. DecodedWasSent'
  <2>1. At \in 1..Len(tape)
    BY <1>2
  <2> QED
    BY <1>1, <1>4, <2>1 DEF WithinInv, DecodedWasSent
<1>10. AddsAscend'
  BY <1>1 DEF WithinInv, AddsAscend
<1>11. IsBook(orders') /\ Within(levels', orders')
  <2>1. IsBook(orders) /\ Within(levels, orders) /\ Decode(m)
    BY <1>1 DEF WithinInv
  <2> HIDE DEF m
  <2>2. CASE OrderAdd(m)
    <3>1. m.kind = "add"
      BY <2>2 DEF OrderAdd
    <3> QED
      BY <1>2, <1>5, <1>7, <2>1, <2>2, <3>1, WithinAdd
  <2>3. CASE OrderDelete(m)
    BY <1>2, <2>1, <2>3, WithinDelete
  <2>4. CASE OrderModify(m)
    BY <1>2, <1>5, <2>1, <2>4, WithinModify
  <2>5. CASE OrderExecuted(m)
    BY <1>2, <1>5, <2>1, <2>5, WithinExecuted
  <2>6. CASE UnknownReference(m) \/ TradeReport(m) \/ Ignored(m)
    <3>1. UNCHANGED <<orders, levels>>
      BY <2>6 DEF UnknownReference, TradeReport, Ignored, decoderVars
    <3> QED
      BY <2>1, <3>1
  <2> QED
    BY <2>1, <2>2, <2>3, <2>4, <2>5, <2>6 DEF Decode
<1>12. IsBook(orders)' /\ Within(levels, orders)'
  BY <1>11 DEF Within
<1> QED
  BY <1>8, <1>9, <1>10, <1>12 DEF WithinInv

LEMMA WithinVenue ==
  ASSUME VenueTypes, WithinInv, VenueStep
  PROVE  WithinInv'
<1>1. UNCHANGED <<orders, levels, decoded>>
  BY DEF VenueStep, decoderVars
<1>2. tape \in Seq(VenueMessage) /\ Len(tape) \in Nat
  BY DEF VenueTypes
<1>3. \E m, book : /\ Sends(m, book)
                   /\ m.kind = "add" =>
                        \A i \in DOMAIN tape : tape[i].kind = "add" => tape[i].id < m.id
  <2>1. CASE VenueAdds
    <3>1. PICK id \in OrderId, o \in [symbol : Symbol, side : Side, price : Price, size : Size] :
            /\ \A i \in DOMAIN tape : tape[i].kind = "add" => tape[i].id < id
            /\ Sends(Message("add", id, o), Rests(id, o))
      BY <2>1 DEF VenueAdds
    <3> QED
      BY <3>1, MessageFields
  <2>2. ASSUME NEW m, NEW book, Sends(m, book), m.kind # "add"
        PROVE  \E n, c : /\ Sends(n, c)
                         /\ n.kind = "add" =>
                              \A i \in DOMAIN tape : tape[i].kind = "add" => tape[i].id < n.id
    BY <2>2
  <2>3. CASE VenueDeletes
    <3>1. PICK id \in DOMAIN resting : Sends(Message("delete", id, resting[id]), Leaves(id))
      BY <2>3 DEF VenueDeletes
    <3>2. Message("delete", id, resting[id]).kind # "add"
      BY MessageFields
    <3> QED
      BY <2>2, <3>1, <3>2
  <2>4. CASE VenueModifies
    <3>1. PICK id \in DOMAIN resting, p \in Price, n \in Size :
            LET o == [resting[id] EXCEPT !.price = p, !.size = n]
            IN  o # resting[id] /\ Sends(Message("modify", id, o), Rests(id, o))
      BY <2>4, Zenon DEF VenueModifies
    <3> DEFINE o == [resting[id] EXCEPT !.price = p, !.size = n]
    <3>2. Sends(Message("modify", id, o), Rests(id, o))
      BY <3>1
    <3> HIDE DEF o
    <3>3. Message("modify", id, o).kind # "add"
      BY MessageFields
    <3> QED
      BY <2>2, <3>2, <3>3
  <2>5. CASE VenueExecutes
    <3>1. PICK id \in DOMAIN resting : \E n \in 1..resting[id].size :
            LET o == resting[id]
            IN  Sends(Message("executed", id, [o EXCEPT !.size = n]),
                      IF n = o.size THEN Leaves(id) ELSE Rests(id, [o EXCEPT !.size = o.size - n]))
      BY <2>5, Zenon DEF VenueExecutes
    <3>2. PICK n \in 1..resting[id].size :
            Sends(Message("executed", id, [resting[id] EXCEPT !.size = n]),
                  IF n = resting[id].size THEN Leaves(id)
                  ELSE Rests(id, [resting[id] EXCEPT !.size = resting[id].size - n]))
      BY <3>1
    <3> DEFINE o == [resting[id] EXCEPT !.size = n]
    <3>3. PICK book : Sends(Message("executed", id, o), book)
      BY <3>2
    <3> HIDE DEF o
    <3>4. Message("executed", id, o).kind # "add"
      BY MessageFields
    <3> QED
      BY <2>2, <3>3, <3>4
  <2>6. CASE VenueOther
    <3> DEFINE somewhere == CHOOSE p \in Price : TRUE
               o(s) == [symbol |-> s, side |-> "B", price |-> somewhere, size |-> 1]
    <3>1. PICK kind \in {"trade", "other"}, s \in Symbol : Sends(Message(kind, 0, o(s)), resting)
      BY <2>6 DEF VenueOther
    <3> HIDE DEF o
    <3>2. Message(kind, 0, o(s)).kind # "add"
      BY MessageFields
    <3> QED
      BY <2>2, <3>1, <3>2
  <2> QED
    BY <2>1, <2>3, <2>4, <2>5, <2>6 DEF VenueStep
<1>4. PICK m, book : /\ Sends(m, book)
                     /\ m.kind = "add" =>
                          \A i \in DOMAIN tape : tape[i].kind = "add" => tape[i].id < m.id
  BY <1>3
<1>5. PICK n \in Nat : n = Len(tape)
  BY <1>2
<1>6. /\ DOMAIN tape = 1..n /\ DOMAIN tape' = 1..(n + 1) /\ tape'[n + 1] = m
      /\ \A i \in 1..n : tape'[i] = tape[i]
  BY <1>2, <1>4, <1>5 DEF Sends
<1>7. AddsAscend'
  <2> SUFFICES ASSUME NEW i \in 1..(n + 1), NEW j \in 1..(n + 1), i < j,
                      tape'[i].kind = "add", tape'[j].kind = "add"
               PROVE  tape'[i].id < tape'[j].id
    BY <1>6 DEF AddsAscend
  <2>1. i \in 1..n /\ tape'[i] = tape[i]
    BY <1>6
  <2>2. CASE j = n + 1
    BY <1>4, <1>6, <2>1, <2>2
  <2>3. CASE j # n + 1
    <3>1. j \in 1..n /\ tape'[j] = tape[j]
      BY <1>6, <2>3
    <3> QED
      BY <1>6, <2>1, <3>1 DEF WithinInv, AddsAscend
  <2> QED
    BY <2>2, <2>3
<1>8. DecodedWasSent'
  <2>1. \A i \in DOMAIN decoded : decoded[i] \in 1..(n + 1)
    BY <1>5 DEF WithinInv, DecodedWasSent
  <2>2. Len(tape') = n + 1
    BY <1>2, <1>4, <1>5 DEF Sends
  <2> QED
    BY <1>1, <2>1, <2>2 DEF DecodedWasSent
<1>9. KnownWereAdded'
  <2> SUFFICES ASSUME NEW id \in DOMAIN orders
               PROVE  \E i \in DOMAIN decoded :
                        tape'[decoded[i]].kind = "add" /\ tape'[decoded[i]].id = id
    BY <1>1 DEF KnownWereAdded
  <2>1. PICK i \in DOMAIN decoded : tape[decoded[i]].kind = "add" /\ tape[decoded[i]].id = id
    BY DEF WithinInv, KnownWereAdded
  <2>2. decoded[i] \in 1..n
    BY <1>5 DEF WithinInv, DecodedWasSent
  <2> QED
    BY <1>6, <2>1, <2>2
<1> QED
  BY <1>1, <1>7, <1>8, <1>9 DEF WithinInv, Within

LEMMA WithinInit == Init => WithinInv
<1> SUFFICES ASSUME Init PROVE WithinInv
  OBVIOUS
<1>1. /\ tape = <<>> /\ decoded = <<>> /\ orders = [id \in {} |-> 0]
      /\ levels = [s \in Symbol |-> [side \in Side |-> [p \in Price |-> 0]]]
  BY DEF Init, DecoderInit
<1>2. DOMAIN orders = {} /\ DOMAIN tape = {} /\ DOMAIN decoded = {}
  BY <1>1
<1>3. IsBook(orders) /\ \A s, side, p : LevelOf(orders, s, side, p) = 0
  BY <1>2, EmptyBookLevels
<1>4. Within(levels, orders)
  BY <1>1, <1>3 DEF Within
<1> QED
  BY <1>2, <1>3, <1>4 DEF WithinInv, KnownWereAdded, AddsAscend, DecodedWasSent

LEMMA WithinStep ==
  ASSUME SequenceInv, MarketInv, WithinInv, [Next]_handlerVars
  PROVE  WithinInv'
<1>1. CASE VenueStep
  BY <1>1, WithinVenue DEF MarketInv
<1>2. CASE DecodeMessage
  BY <1>2, WithinDecode
<1>3. CASE \/ \E first \in 1..MaxTape, count \in 1..MaxBatch : \E carried \in 0..count :
                count - carried <= MaxCut /\ OnPayload(first, count, carried)
           \/ SkipMessage \/ PublishUpdate \/ PayloadDone \/ UNCHANGED handlerVars
  <2>1. UNCHANGED <<tape, decoded, orders, levels>>
    BY <1>3 DEF OnPayload, SkipMessage, PublishUpdate, PayloadDone, handlerVars, venueVars,
         decoderVars
  <2> QED
    BY <2>1 DEF WithinInv, Within, KnownWereAdded, AddsAscend, DecodedWasSent
<1> QED
  BY <1>1, <1>2, <1>3 DEF Next

LEMMA WithinAlways == Spec => []WithinInv
BY WithinInit, WithinStep, SequenceAlways, MarketAlways, PTL DEF Spec

(* Whatever was lost, no level shows more than the known orders at it sum   *)
(* up to.                                                                   *)
THEOREM LevelsStayWithinOrders == Spec => []LevelsWithinOrders
<1>1. WithinInv => LevelsWithinOrders
  <2> SUFFICES ASSUME WithinInv, NEW s \in Symbol, NEW side \in Side, NEW p \in Price
               PROVE  levels[s][side][p] <=
                        MapThenSumSet(LAMBDA id : orders[id].size, KnownAt(s, side, p))
    BY DEF LevelsWithinOrders
  <2>1. KnownAt(s, side, p) = AtLevel(orders, s, side, p)
    BY DEF KnownAt, AtLevel, LiesAt
  <2>2. KnownAt(s, side, p) \in SUBSET DOMAIN orders
    BY DEF KnownAt
  <2>3. Sized(orders, KnownAt(s, side, p))
    BY <2>2, BookSized DEF WithinInv
  <2>4. MapThenSumSet(LAMBDA id : orders[id].size, KnownAt(s, side, p))
          = Total(orders, KnownAt(s, side, p))
    BY <2>3, SumIsTotal
  <2> QED
    BY <2>1, <2>4 DEF WithinInv, Within, LevelOf
<1> QED
  BY <1>1, WithinAlways, PTL

-----------------------------------------------------------------------------
(* The published book is not crossed while nothing is missed: what it shows *)
(* is, or is about to be, what an uncrossed book of the venue holds.        *)

(* What is published is held, unless the update that takes it back is next. *)
ShownIsHeld ==
  \A s \in Symbol, side \in Side, p \in Price :
    golden.books[s][side][p] > 0 /\ levels[s][side][p] = 0 =>
      out # <<>> /\ Touches(out[1], s, side, p)

(* An update that shows something shows what is held.                       *)
ShowsHeld ==
  \A i \in DOMAIN out, s \in Symbol, side \in Side, p \in Price :
    Touches(out[i], s, side, p) /\ out[i].size > 0 => levels[s][side][p] > 0

NeverCrossed == Unbroken => golden.crossed = 0

CrossingInv == ShownIsHeld /\ ShowsHeld /\ NeverCrossed

LEMMA ModPositive ==
  ASSUME NEW n \in Nat, n % SizeLimit > 0
  PROVE  n > 0
BY ModZero

LEMMA LevelTypes ==
  ASSUME NEW lv \in Levels, NEW s \in Symbol, NEW side \in Side, NEW p \in Price
  PROVE  lv[s][side][p] \in Nat
BY DEF Levels

(* One level changes and is published first.                                *)
LEMMA CrossingOneLevel ==
  ASSUME DecoderTypes, ShownIsHeld, out = <<>>, golden' = golden,
         NEW o \in Order, NEW d \in Int, levels' = AddLevel(levels, o, d),
         out' \in Seq(Update), out' # <<>>, out'[1] = LevelUpdate(levels, o, d),
         \A i \in DOMAIN out' : i > 1 => out'[i].type = "T"
  PROVE  ShownIsHeld' /\ ShowsHeld'
<1>1. levels \in Levels /\ 1 \in DOMAIN out'
  BY DEF DecoderTypes
<1>2. \A i \in DOMAIN out' : i = 1 \/ out'[i].type = "T"
  BY <1>1
<1>3. ASSUME NEW s \in Symbol, NEW side \in Side, NEW p \in Price
      PROVE  /\ Touches(out'[1], s, side, p) <=> (s = o.symbol /\ side = o.side /\ p = o.price)
             /\ out'[1].size = NewTotal(levels, o, d) % SizeLimit
             /\ levels'[s][side][p] = IF s = o.symbol /\ side = o.side /\ p = o.price
                                      THEN NewTotal(levels, o, d) ELSE levels[s][side][p]
  BY <1>1, AddLevelAt, LevelUpdateType DEF Touches
<1>4. ShownIsHeld'
  BY <1>3 DEF ShownIsHeld
<1>5. ShowsHeld'
  <2> SUFFICES ASSUME NEW i \in DOMAIN out', NEW s \in Symbol, NEW side \in Side, NEW p \in Price,
                      Touches(out'[i], s, side, p), out'[i].size > 0
               PROVE  levels'[s][side][p] > 0
    BY DEF ShowsHeld
  <2>1. i = 1
    BY <1>2 DEF Touches, Side
  <2>2. NewTotal(levels, o, d) \in Nat
    BY <1>1, NewTotalType
  <2> QED
    BY <1>3, <2>1, <2>2, ModPositive
<1> QED
  BY <1>4, <1>5

(* An order moves to a level where it is shown to rest.                     *)
LEMMA CrossingTwoLevels ==
  ASSUME DecoderTypes, ShownIsHeld, out = <<>>, golden' = golden,
         NEW o \in Order, NEW q \in Order, NEW d \in Int, NEW e \in Int, e > 0,
         q.symbol = o.symbol, q.side = o.side, q.price # o.price,
         NEW left, left = AddLevel(levels, o, d),
         levels' = AddLevel(left, q, e),
         out' = <<LevelUpdate(levels, o, d), LevelUpdate(left, q, e)>>
  PROVE  ShownIsHeld' /\ ShowsHeld'
<1>1. levels \in Levels /\ left \in Levels
  BY AddLevelAt DEF DecoderTypes
<1>2. DOMAIN out' = {1, 2} /\ out' # <<>> /\ out'[1] = LevelUpdate(levels, o, d)
      /\ out'[2] = LevelUpdate(left, q, e)
  OBVIOUS
<1>3. /\ out'[1].size = NewTotal(levels, o, d) % SizeLimit /\ NewTotal(levels, o, d) \in Nat
      /\ NewTotal(left, q, e) \in Nat
  BY <1>1, <1>2, LevelUpdateType, NewTotalType
<1>4. ASSUME NEW s \in Symbol, NEW side \in Side, NEW p \in Price
      PROVE  /\ Touches(out'[1], s, side, p) <=> (s = o.symbol /\ side = o.side /\ p = o.price)
             /\ Touches(out'[2], s, side, p) <=> (s = o.symbol /\ side = o.side /\ p = q.price)
  BY <1>1, <1>2, LevelUpdateType DEF Touches
<1>5. /\ left[o.symbol][o.side][o.price] = NewTotal(levels, o, d)
      /\ levels'[q.symbol][q.side][q.price] = NewTotal(left, q, e)
  BY <1>1, AddLevelHere
<1>6. NewTotal(left, q, e) > 0
  <2>1. left[q.symbol][q.side][q.price] \in Nat
    BY <1>1 DEF Levels, Order
  <2> QED
    BY <2>1 DEF NewTotal
<1>7. ASSUME NEW s \in Symbol, NEW side \in Side, NEW p \in Price
      PROVE  /\ ~(s = o.symbol /\ side = o.side /\ p = o.price)
                  => left[s][side][p] = levels[s][side][p]
             /\ ~(s = q.symbol /\ side = q.side /\ p = q.price)
                  => levels'[s][side][p] = left[s][side][p]
  BY <1>1, AddLevelElsewhere
<1>8. ShownIsHeld'
  <2> SUFFICES ASSUME NEW s \in Symbol, NEW side \in Side, NEW p \in Price,
                      golden.books[s][side][p] > 0, levels'[s][side][p] = 0
               PROVE  Touches(out'[1], s, side, p)
    BY <1>2 DEF ShownIsHeld
  <2>1. levels[s][side][p] # 0
    BY DEF ShownIsHeld
  <2>2. ~(s = q.symbol /\ side = q.side /\ p = q.price)
    BY <1>5, <1>6
  <2> QED
    BY <1>4, <1>7, <2>1, <2>2
<1>9. ShowsHeld'
  <2> SUFFICES ASSUME NEW i \in DOMAIN out', NEW s \in Symbol, NEW side \in Side, NEW p \in Price,
                      Touches(out'[i], s, side, p), out'[i].size > 0
               PROVE  levels'[s][side][p] > 0
    BY DEF ShowsHeld
  <2>1. CASE i = 1
    <3>1. s = o.symbol /\ side = o.side /\ p = o.price
      BY <1>4, <2>1
    <3>2. levels'[s][side][p] = NewTotal(levels, o, d)
      BY <1>5, <1>7, <3>1
    <3> QED
      BY <1>3, <2>1, <3>2, ModPositive
  <2>2. CASE i = 2
    BY <1>4, <1>5, <1>6, <2>2
  <2> QED
    BY <1>2, <2>1, <2>2
<1> QED
  BY <1>8, <1>9

LEMMA CrossingNoLevel ==
  ASSUME ShownIsHeld, out = <<>>, golden' = golden, levels' = levels,
         \A i \in DOMAIN out' : out'[i].type = "T"
  PROVE  ShownIsHeld' /\ ShowsHeld'
BY DEF ShownIsHeld, ShowsHeld, Touches, Side

LEMMA CrossingDecode ==
  ASSUME DecoderTypes, ShownIsHeld, out = <<>>, golden' = golden,
         NEW m \in VenueMessage, Decode(m)
  PROVE  ShownIsHeld' /\ ShowsHeld'
<1>1. levels \in Levels /\ m.size \in Nat /\ m.size \in 1..MaxSize
  BY MessageTypes DEF DecoderTypes
<1>2. CASE OrderAdd(m)
  <2> DEFINE o == [symbol |-> m.symbol, side |-> m.side, price |-> m.price, size |-> m.size]
  <2>1. o \in Order /\ o.size \in Int
    BY MessageTypes DEF Order
  <2>2. levels' = AddLevel(levels, o, o.size) /\ out' = <<LevelUpdate(levels, o, o.size)>>
    BY <1>2 DEF OrderAdd
  <2> HIDE DEF o
  <2>3. LevelUpdate(levels, o, o.size) \in Update
    BY <1>1, <2>1, LevelUpdateType
  <2>4. out' \in Seq(Update) /\ out' # <<>> /\ out'[1] = LevelUpdate(levels, o, o.size)
        /\ \A i \in DOMAIN out' : i > 1 => out'[i].type = "T"
    BY <2>2, <2>3
  <2> QED
    BY <2>1, <2>2, <2>4, CrossingOneLevel
<1>3. CASE OrderDelete(m)
  <2> DEFINE o == orders[m.id]
             d == -o.size
  <2>1. o \in Order /\ d \in Int
    BY <1>3, KnownOrder DEF OrderDelete
  <2>2. levels' = AddLevel(levels, o, d) /\ out' = <<LevelUpdate(levels, o, d)>>
    BY <1>3 DEF OrderDelete
  <2> HIDE DEF o, d
  <2>3. LevelUpdate(levels, o, d) \in Update
    BY <1>1, <2>1, LevelUpdateType
  <2>4. out' \in Seq(Update) /\ out' # <<>> /\ out'[1] = LevelUpdate(levels, o, d)
        /\ \A i \in DOMAIN out' : i > 1 => out'[i].type = "T"
    BY <2>2, <2>3
  <2> QED
    BY <2>1, <2>2, <2>4, CrossingOneLevel
<1>4. CASE OrderModify(m)
  <2> DEFINE o == orders[m.id]
             moved == [o EXCEPT !.price = m.price, !.size = m.size]
             d == -o.size
             left == AddLevel(levels, o, d)
             e == m.size - o.size
  <2>1. o \in Order /\ o.size \in Nat /\ d \in Int /\ e \in Int
    BY <1>1, <1>4, KnownOrder DEF OrderModify
  <2>2. moved \in Order /\ moved.symbol = o.symbol /\ moved.side = o.side /\ moved.price = m.price
    <3>1. m.price \in Price
      BY MessageTypes
    <3> HIDE DEF o
    <3> QED
      BY <1>1, <2>1, <3>1 DEF Order
  <2>3. \/ levels' = AddLevel(levels, o, e) /\ out' = <<LevelUpdate(levels, o, e)>>
        \/ /\ m.price # o.price
           /\ levels' = AddLevel(left, moved, m.size)
           /\ out' = <<LevelUpdate(levels, o, d), LevelUpdate(left, moved, m.size)>>
    BY <1>4 DEF OrderModify
  <2> HIDE DEF o, moved, d, e
  <2>4. CASE levels' = AddLevel(levels, o, e) /\ out' = <<LevelUpdate(levels, o, e)>>
    <3>1. LevelUpdate(levels, o, e) \in Update
      BY <1>1, <2>1, LevelUpdateType
    <3>2. out' \in Seq(Update) /\ out' # <<>> /\ out'[1] = LevelUpdate(levels, o, e)
          /\ \A i \in DOMAIN out' : i > 1 => out'[i].type = "T"
      BY <2>4, <3>1
    <3> QED
      BY <2>1, <2>4, <3>2, CrossingOneLevel
  <2>5. CASE /\ m.price # o.price
             /\ levels' = AddLevel(left, moved, m.size)
             /\ out' = <<LevelUpdate(levels, o, d), LevelUpdate(left, moved, m.size)>>
    <3>1. m.size \in Int /\ m.size > 0 /\ left = AddLevel(levels, o, d)
      BY <1>1
    <3> HIDE DEF left
    <3> QED
      BY <2>1, <2>2, <2>5, <3>1, CrossingTwoLevels
  <2> QED
    BY <2>3, <2>4, <2>5
<1>5. CASE OrderExecuted(m)
  <2> DEFINE o == orders[m.id]
             d == -m.size
  <2>1. o \in Order /\ d \in Int
    BY <1>1, <1>5, KnownOrder DEF OrderExecuted
  <2>2. levels' = AddLevel(levels, o, d)
        /\ out' = <<LevelUpdate(levels, o, d), Trade(o.symbol, m.price, m.size)>>
    BY <1>5 DEF OrderExecuted
  <2> HIDE DEF o, d
  <2>3. /\ LevelUpdate(levels, o, d) \in Update
        /\ Trade(o.symbol, m.price, m.size) \in Update
        /\ Trade(o.symbol, m.price, m.size).type = "T"
    <3>1. o.symbol \in Symbol /\ m.price \in Price
      BY <2>1, MessageTypes DEF Order
    <3> QED
      BY <1>1, <2>1, <3>1, LevelUpdateType, TradeType
  <2>4. out' \in Seq(Update) /\ out' # <<>> /\ out'[1] = LevelUpdate(levels, o, d)
        /\ \A i \in DOMAIN out' : i > 1 => out'[i].type = "T"
    <3>1. DOMAIN out' = 1..2 /\ out'[2] = Trade(o.symbol, m.price, m.size)
      BY <2>2
    <3>2. \A i \in DOMAIN out' : i > 1 => i = 2
      BY <3>1
    <3> QED
      BY <2>2, <2>3, <3>1, <3>2
  <2> QED
    BY <2>1, <2>2, <2>4, CrossingOneLevel
<1>6. CASE UnknownReference(m) \/ TradeReport(m) \/ Ignored(m)
  <2>1. levels' = levels /\ (out' = <<>> \/ out' = <<Trade(m.symbol, m.price, m.size)>>)
    BY <1>6 DEF UnknownReference, TradeReport, Ignored, decoderVars
  <2>2. \A i \in DOMAIN out' : out'[i].type = "T"
    <3>1. CASE out' = <<>>
      <4>1. DOMAIN out' = {}
        BY <3>1
      <4> QED BY <4>1
    <3>2. CASE out' = <<Trade(m.symbol, m.price, m.size)>>
      <4>1. DOMAIN out' = {1} /\ out'[1].type = "T"
        BY <3>2 DEF Trade
      <4> QED BY <4>1
    <3> QED BY <2>1, <3>1, <3>2
  <2> QED
    BY <2>1, <2>2, CrossingNoLevel
<1> QED
  BY <1>2, <1>3, <1>4, <1>5, <1>6 DEF Decode

(* Each of the prices is that of an order.                                  *)
Backed(b, s, side, prices) ==
  prices \subseteq Price /\ \A p \in prices : \E id \in DOMAIN b : LiesAt(b[id], s, side, p)

(* The prices of one side of a book that has finitely many orders have a    *)
(* highest and a lowest.                                                    *)
LEMMA FinitePrices ==
  ASSUME NEW b, IsBook(b), NEW s, NEW side, NEW P, Backed(b, s, side, P)
  PROVE  IsFiniteSet(P) /\ P \in SUBSET Int
<1> DEFINE T == {id \in DOMAIN b : b[id].symbol = s /\ b[id].side = side}
           f == [id \in T |-> b[id].price]
           V == {f[id] : id \in T}
<1>1. IsFiniteSet(T)
  BY FS_Subset DEF IsBook
<1>2. f \in Surjection(T, V)
  BY DEF Surjection
<1>3. IsFiniteSet(V)
  <2> HIDE DEF T, f, V
  <2> QED BY <1>1, <1>2, FS_Surjection
<1>4. P \in SUBSET V
  BY DEF LiesAt, Backed
<1>5. IsFiniteSet(P)
  <2> HIDE DEF V
  <2> QED BY <1>3, <1>4, FS_Subset
<1> QED
  BY <1>5, DecoderAssumption DEF Backed

(* A picture of an uncrossed book is not crossed.                           *)
LEMMA PictureUncrossed ==
  ASSUME NEW b, IsBook(b), Uncrossed(b), NEW s \in Symbol,
         NEW picture \in [Side -> [Price -> Nat]],
         \A side \in Side, p \in Price :
           picture[side][p] > 0 => \E id \in DOMAIN b : LiesAt(b[id], s, side, p)
  PROVE  ~Golden!Crossed(picture)
<1> SUFFICES ASSUME Golden!Crossed(picture) PROVE FALSE
  OBVIOUS
<1> DEFINE B == Golden!Bids(picture)
           S == Golden!Asks(picture)
<1>1. B # {} /\ S # {} /\ Golden!Max(B) >= Golden!Min(S)
  BY DEF Golden!Crossed
<1>2. Backed(b, s, "B", B) /\ Backed(b, s, "S", S)
  BY DEF Golden!Bids, Golden!Asks, Side, Backed
<1> HIDE DEF B, S
<1>3. IsFiniteSet(B) /\ B \in SUBSET Int /\ IsFiniteSet(S) /\ S \in SUBSET Int
  BY <1>2, FinitePrices
<1>4. PICK high \in B : \A p \in B : p <= high
  BY <1>1, <1>3, Largest
<1>5. PICK low \in S : \A p \in S : low <= p
  BY <1>1, <1>3, Smallest
<1>6. Golden!Max(B) \in B
  <2>1. \E x \in B : \A y \in B : x >= y
    BY <1>3, <1>4
  <2> QED BY <2>1 DEF Golden!Max
<1>7. Golden!Min(S) \in S
  <2>1. \E x \in S : \A y \in S : x =< y
    BY <1>5
  <2> QED BY <2>1 DEF Golden!Min
<1>8. PICK i \in DOMAIN b : LiesAt(b[i], s, "B", Golden!Max(B))
  BY <1>2, <1>6 DEF Backed
<1>9. PICK j \in DOMAIN b : LiesAt(b[j], s, "S", Golden!Min(S))
  BY <1>2, <1>7 DEF Backed
<1>10. Golden!Max(B) < Golden!Min(S)
  BY <1>8, <1>9 DEF LiesAt, Uncrossed
<1>11. Golden!Max(B) \in Int /\ Golden!Min(S) \in Int
  BY <1>3, <1>6, <1>7
<1> QED
  BY <1>1, <1>10, <1>11

LEMMA CrossingPublish ==
  ASSUME SequenceInv, MarketInv, MirrorInv, CrossingInv, PublishUpdate
  PROVE  CrossingInv'
<1> DEFINE u == Head(out)
<1>1. /\ out # <<>> /\ out' = Tail(out) /\ golden' = Golden!AppliedToSet(golden, u)
      /\ UNCHANGED <<orders, levels, unknown_references, decoded, tape>>
  BY DEF PublishUpdate, venueVars
<1>2. out \in Seq(Update) /\ golden.books \in Levels /\ levels \in Levels
  BY DEF MarketInv, DecoderTypes
<1>3. /\ u \in Update /\ u = out[1] /\ out' \in Seq(Update) /\ Len(out) \in Nat \ {0}
      /\ DOMAIN out = 1..Len(out) /\ DOMAIN out' = 1..(Len(out) - 1)
      /\ \A i \in DOMAIN out' : out'[i] = out[i + 1]
  BY <1>1, <1>2
<1> HIDE DEF u
<1>4. 1 \in DOMAIN out /\ \A i \in DOMAIN out' : i + 1 \in DOMAIN out
  BY <1>3
<1>5. /\ golden'.books \in Levels
      /\ \A s \in Symbol, side \in Side, p \in Price :
           golden'.books[s][side][p] =
             IF Touches(u, s, side, p) THEN u.size ELSE golden.books[s][side][p]
  BY <1>1, <1>2, <1>3, PublishedBook
<1>6. ASSUME NEW s \in Symbol, NEW side \in Side, NEW p \in Price, golden'.books[s][side][p] > 0
      PROVE  levels[s][side][p] > 0
  <2>1. levels[s][side][p] \in Nat
    BY <1>2 DEF Levels
  <2>2. CASE Touches(u, s, side, p)
    BY <1>3, <1>4, <1>5, <1>6, <2>2 DEF CrossingInv, ShowsHeld
  <2>3. CASE ~Touches(u, s, side, p)
    BY <1>3, <1>5, <1>6, <2>1, <2>3 DEF CrossingInv, ShownIsHeld
  <2> QED BY <2>2, <2>3
<1>7. ShownIsHeld'
  <2> SUFFICES ASSUME NEW s \in Symbol, NEW side \in Side, NEW p \in Price,
                      golden'.books[s][side][p] > 0, levels[s][side][p] = 0
               PROVE  FALSE
    BY <1>1 DEF ShownIsHeld
  <2> QED BY <1>6
<1>8. ShowsHeld'
  BY <1>1, <1>3, <1>4 DEF CrossingInv, ShowsHeld
<1>9. NeverCrossed'
  <2> SUFFICES ASSUME Unbroken PROVE golden'.crossed = 0
    BY <1>1 DEF NeverCrossed, Unbroken
  <2>1. golden.crossed = 0
    BY DEF CrossingInv, NeverCrossed
  <2>2. PICK h : History(h) /\ Follows(h)
    BY DEF MirrorInv
  <2> DEFINE b == h[Len(decoded)]
  <2>3. Len(decoded) \in 0..Len(tape) /\ Mirrors(b)
    <3>1. Len(decoded) \in Nat /\ Len(tape) \in Nat
      BY DEF SequenceInv, SequenceTypes, MarketInv, VenueTypes
    <3> QED BY <2>2, <3>1 DEF Follows
  <2>4. IsBook(b) /\ Uncrossed(b)
    BY <2>2, <2>3 DEF History
  <2> HIDE DEF b
  <2> DEFINE picture == golden'.books[u.symbol]
  <2>5. u.symbol \in Symbol /\ picture \in [Side -> [Price -> Nat]]
    BY <1>3, <1>5 DEF Levels, Update
  <2>6. ASSUME NEW side \in Side, NEW p \in Price, picture[side][p] > 0
        PROVE  \E id \in DOMAIN b : LiesAt(b[id], u.symbol, side, p)
    <3>1. levels[u.symbol][side][p] > 0
      BY <1>6, <2>5, <2>6
    <3>2. LevelOf(b, u.symbol, side, p) # 0
      BY <2>3, <2>5, <3>1 DEF Mirrors, Draws
    <3> QED BY <3>2, LevelHasOrder
  <2> HIDE DEF picture
  <2>7. ~Golden!Crossed(picture)
    BY <2>4, <2>5, <2>6, PictureUncrossed
  <2>8. picture = Golden!Applied(golden.books[u.symbol], u)
    BY <1>1, <1>2, <2>5 DEF Golden!AppliedToSet, Levels, picture
  <2>9. golden'.crossed =
          IF u.type # "T" /\ Golden!Crossed(Golden!Applied(golden.books[u.symbol], u))
          THEN golden.crossed + 1 ELSE golden.crossed
    BY <1>1 DEF Golden!AppliedToSet
  <2> QED
    BY <2>1, <2>7, <2>8, <2>9
<1> QED
  BY <1>7, <1>8, <1>9 DEF CrossingInv

LEMMA CrossingInit == Init => CrossingInv
<1> SUFFICES ASSUME Init PROVE CrossingInv
  OBVIOUS
<1>1. /\ golden = Golden!NoBooks /\ out = <<>>
  BY DEF Init, DecoderInit
<1>2. golden.books = [s \in Symbol |-> [side \in Side |-> [p \in Price |-> 0]]]
      /\ golden.crossed = 0
  BY <1>1 DEF Golden!NoBooks, Golden!EmptyBook, Side
<1>3. DOMAIN out = {}
  BY <1>1
<1> QED
  BY <1>2, <1>3 DEF CrossingInv, ShownIsHeld, ShowsHeld, NeverCrossed

LEMMA CrossingStep ==
  ASSUME SequenceInv, MarketInv, MirrorInv, CrossingInv, [Next]_handlerVars
  PROVE  CrossingInv'
<1>1. CASE DecodeMessage
  <2> DEFINE m == tape[At]
  <2>1. /\ packet # NoPacket /\ out = <<>> /\ position < packet.carried
        /\ Decode(m) /\ golden' = golden /\ decoded' = Append(decoded, At)
    BY <1>1 DEF DecodeMessage, AtMessage, At
  <2>2. tape \in Seq(VenueMessage) /\ At \in DOMAIN tape
    <3>1. packet.first + packet.count - 1 <= Len(tape)
      BY <2>1 DEF MarketInv, OnTape
    <3>2. tape \in Seq(VenueMessage)
      BY DEF MarketInv, VenueTypes
    <3> QED
      BY <2>1, <3>1, <3>2, InsideDatagram DEF At
  <2>3. m \in VenueMessage
    BY <2>2
  <2> HIDE DEF m
  <2>4. ShownIsHeld' /\ ShowsHeld'
    BY <2>1, <2>3, CrossingDecode DEF MarketInv, CrossingInv
  <2>5. Unbroken' => Unbroken
    <3>1. decoded \in Seq(Nat)
      BY DEF SequenceInv, SequenceTypes
    <3>2. /\ DOMAIN decoded \subseteq DOMAIN decoded'
          /\ \A i \in DOMAIN decoded : decoded'[i] = decoded[i]
      BY <2>1, <3>1
    <3> QED BY <3>2 DEF Unbroken
  <2> QED
    BY <2>1, <2>4, <2>5 DEF CrossingInv, NeverCrossed
<1>2. CASE PublishUpdate
  BY <1>2, CrossingPublish
<1>3. CASE \/ \E first \in 1..MaxTape, count \in 1..MaxBatch : \E carried \in 0..count :
                count - carried <= MaxCut /\ OnPayload(first, count, carried)
           \/ VenueStep \/ SkipMessage \/ PayloadDone \/ UNCHANGED handlerVars
  <2>1. UNCHANGED <<out, levels, golden, decoded>>
    BY <1>3 DEF OnPayload, SkipMessage, VenueStep, PayloadDone, handlerVars, decoderVars
  <2> QED
    BY <2>1 DEF CrossingInv, ShownIsHeld, ShowsHeld, NeverCrossed, Unbroken
<1> QED
  BY <1>1, <1>2, <1>3 DEF Next

LEMMA CrossingAlways == Spec => []CrossingInv
BY CrossingInit, CrossingStep, SequenceAlways, MarketAlways, MirrorAlways, PTL DEF Spec

(* A crossed book in the publisher, or a reference to an unknown order,     *)
(* tells a loss, and never the order of updates of one message.             *)
THEOREM TroubleMeansLossAlways == Spec => []TroubleMeansLoss
<1>1. MirrorInv /\ CrossingInv => TroubleMeansLoss
  BY DEF MirrorInv, Follows, Mirrors, CrossingInv, NeverCrossed, TroubleMeansLoss
<1> QED
  BY <1>1, MirrorAlways, CrossingAlways, PTL
=============================================================================
