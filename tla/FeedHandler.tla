----------------------------- MODULE FeedHandler -----------------------------
(***************************************************************************)
(* FeedHandler::on_payload (src/src/feedhandler.cpp) with the IEX-TP framing *)
(* (src/src/iextp.h), the decoder and the publisher's golden BookSet: from  *)
(* the venue's datagrams to the level updates that are published.           *)
(*                                                                         *)
(* The venue is external: it numbers its messages from 1 and never shows a  *)
(* crossed book.  A datagram carries any run of consecutive messages, and   *)
(* datagrams are lost, repeated, late and overlapping at will; a datagram   *)
(* may also end before the last message its header announces.               *)
(***************************************************************************)
EXTENDS DeepPlusDecoder, FiniteSets, FiniteSetsExt

CONSTANTS
  MaxTape,   \* bound: messages the venue sends
  MaxSize,   \* bound: size of an order
  MaxBatch,  \* bound: messages of one datagram
  MaxCut     \* bound: announced messages missing from a datagram

(* A size on the wire is as wide as a published one; order ids are numbers. *)
ASSUME HandlerAssumption ==
  /\ Price # {} /\ MaxTape \in Nat /\ OrderId \subseteq Nat
  /\ MaxSize \in Nat \ {0} /\ MaxSize < SizeLimit
  /\ MaxBatch \in Nat /\ MaxCut \in Nat

VARIABLES
  tape,          \* external: the messages the venue has sent
  resting,       \* external: the orders resting at the venue
  packet,        \* the datagram on_payload is working on
  position,      \* messages of it that iextp_for_each_message has passed
  skip,
  expected,
  capture_gaps,
  golden,        \* Bucket::golden, for all buckets together
  decoded,       \* history: numbers of the messages handed to the decoder
  cut            \* history: a datagram ended early

venueVars == <<tape, resting>>
handlerVars == <<tape, resting, packet, position, skip, expected, capture_gaps,
                 orders, levels, unknown_references, out, golden, decoded, cut>>

Golden == INSTANCE BookSet

NoPacket == [first |-> 0, count |-> 0, carried |-> 0]
Size == 1..MaxSize

Init ==
  /\ DecoderInit
  /\ tape = <<>>
  /\ resting = [id \in {} |-> 0]
  /\ packet = NoPacket
  /\ position = 0
  /\ skip = 0
  /\ expected = 0
  /\ capture_gaps = 0
  /\ golden = Golden!NoBooks
  /\ decoded = <<>>
  /\ cut = FALSE

-----------------------------------------------------------------------------
(* The venue.                                                               *)

Uncrossed(book) ==
  \A i, j \in DOMAIN book :
    book[i].symbol = book[j].symbol /\ book[i].side = "B" /\ book[j].side = "S"
      => book[i].price < book[j].price

Message(kind, id, o) ==
  [kind |-> kind, id |-> id, symbol |-> o.symbol, side |-> o.side,
   price |-> o.price, size |-> o.size]

Rests(id, o) == [i \in DOMAIN resting \cup {id} |-> IF i = id THEN o ELSE resting[i]]
Leaves(id) == Restrict(resting, DOMAIN resting \ {id})

Sends(m, book) ==
  /\ Len(tape) < MaxTape
  /\ Uncrossed(book)
  /\ tape' = Append(tape, m)
  /\ resting' = book

(* Numbers of orders are not used twice.                                    *)
VenueAdds ==
  \E id \in OrderId, o \in [symbol : Symbol, side : Side, price : Price, size : Size] :
    /\ \A i \in DOMAIN tape : tape[i].kind = "add" => tape[i].id < id
    /\ \A n \in OrderId : n < id => \E i \in DOMAIN tape : tape[i].kind = "add" /\ tape[i].id = n
    /\ Sends(Message("add", id, o), Rests(id, o))

VenueDeletes ==
  \E id \in DOMAIN resting : Sends(Message("delete", id, resting[id]), Leaves(id))

VenueModifies ==
  \E id \in DOMAIN resting, p \in Price, n \in Size :
    LET o == [resting[id] EXCEPT !.price = p, !.size = n]
    IN  o # resting[id] /\ Sends(Message("modify", id, o), Rests(id, o))

VenueExecutes ==
  \E id \in DOMAIN resting : \E n \in 1..resting[id].size :
    LET o == resting[id]
    IN  Sends(Message("executed", id, [o EXCEPT !.size = n]),
              IF n = o.size THEN Leaves(id) ELSE Rests(id, [o EXCEPT !.size = o.size - n]))

(* A match of hidden orders, or a message that concerns no order at all.    *)
VenueOther ==
  \E kind \in {"trade", "other"}, s \in Symbol :
    LET somewhere == CHOOSE p \in Price : TRUE IN
    Sends(Message(kind, 0, [symbol |-> s, side |-> "B", price |-> somewhere, size |-> 1]),
          resting)

(* A bound on interleaving: what is sent while a datagram is being handled  *)
(* could as well be sent after it.                                          *)
VenueStep ==
  /\ packet = NoPacket
  /\ VenueAdds \/ VenueDeletes \/ VenueModifies \/ VenueExecutes \/ VenueOther
  /\ UNCHANGED <<decoderVars, packet, position, skip, expected, capture_gaps,
                 golden, decoded, cut>>

-----------------------------------------------------------------------------
(* on_payload().                                                            *)

(* Seeded fault: a datagram heard before is decoded again.                  *)
AlreadySeenNever(first) == 0

(* Messages at the front of the datagram that were handled before.          *)
AlreadySeen(first) == IF expected # 0 /\ first < expected THEN expected - first ELSE 0

Gap(first) == IF expected # 0 /\ first > expected THEN first - expected ELSE 0

(* A DEEP+ datagram with messages; any other returns early.                 *)
OnPayload(first, count, carried) ==
  /\ packet = NoPacket
  /\ first + count - 1 <= Len(tape)
  /\ packet' = [first |-> first, count |-> count, carried |-> carried]
  /\ position' = 0
  /\ capture_gaps' = capture_gaps + Gap(first)
  /\ skip' = AlreadySeen(first)
  /\ cut' = (cut \/ carried < count)
  /\ UNCHANGED <<venueVars, decoderVars, expected, golden, decoded>>

AtMessage == packet # NoPacket /\ out = <<>> /\ position < packet.carried

SkipMessage ==
  /\ AtMessage /\ skip > 0
  /\ skip' = skip - 1
  /\ position' = position + 1
  /\ UNCHANGED <<venueVars, decoderVars, packet, expected, capture_gaps, golden,
                 decoded, cut>>

DecodeMessage ==
  /\ AtMessage /\ skip = 0
  /\ Decode(tape[packet.first + position])
  /\ decoded' = Append(decoded, packet.first + position)
  /\ position' = position + 1
  /\ UNCHANGED <<venueVars, packet, skip, expected, capture_gaps, golden, cut>>

(* publisher.publish(out[i]): the golden book, before any loss.             *)
PublishUpdate ==
  /\ out # <<>>
  /\ golden' = Golden!AppliedToSet(golden, Head(out))
  /\ out' = Tail(out)
  /\ UNCHANGED <<venueVars, orders, levels, unknown_references, packet, position,
                 skip, expected, capture_gaps, decoded, cut>>

(* Seeded fault: a late datagram takes `expected' back.                     *)
ExpectedAfterLast == packet.first + packet.count

ExpectedAfter ==
  IF packet.first + packet.count > expected THEN packet.first + packet.count ELSE expected

PayloadDone ==
  /\ packet # NoPacket /\ out = <<>> /\ position = packet.carried
  /\ expected' = ExpectedAfter
  /\ packet' = NoPacket /\ position' = 0 /\ skip' = 0
  /\ UNCHANGED <<venueVars, decoderVars, capture_gaps, golden, decoded, cut>>

Next ==
  \/ VenueStep
  \/ \E first \in 1..MaxTape, count \in 1..MaxBatch : \E carried \in 0..count :
       count - carried <= MaxCut /\ OnPayload(first, count, carried)
  \/ SkipMessage \/ DecodeMessage \/ PublishUpdate \/ PayloadDone

Spec == Init /\ [][Next]_handlerVars

-----------------------------------------------------------------------------
(* Properties.                                                              *)

Update == [type : {"B", "S", "T"}, symbol : Symbol, price : Price, size : 0..(SizeLimit - 1)]

(* The handler's counters, the decoder's maps and the updates have their    *)
(* types; no level is ever negative.                                        *)
TypeOK ==
  /\ packet \in [first : Nat, count : Nat, carried : Nat]
  /\ position \in 0..packet.carried
  /\ skip \in Nat /\ expected \in Nat /\ capture_gaps \in Nat
  /\ DOMAIN orders \subseteq OrderId
  /\ \A id \in DOMAIN orders : orders[id] \in Order
  /\ levels \in [Symbol -> [Side -> [Price -> Nat]]]
  /\ unknown_references \in Nat
  /\ out \in Seq(Update)
  /\ decoded \in Seq(Nat)
  /\ cut \in BOOLEAN

(* However datagrams repeat, overlap and overtake each other, the decoder   *)
(* gets each venue message at most once and in the venue's order.           *)
AtMostOnceInOrder ==
  \A i, j \in DOMAIN decoded : i < j => decoded[i] < decoded[j]

Heard == expected # 0 /\ packet = NoPacket

(* `capture_gaps' counts exactly the messages that were passed over since   *)
(* the first datagram, unless datagrams ended before their last message.    *)
GapsAreCounted ==
  Heard /\ ~cut =>
    /\ decoded # <<>>
    /\ capture_gaps = (expected - decoded[1]) - Len(decoded)

(* Nothing was missed so far, from the venue's first message on.            *)
Unbroken == \A i \in DOMAIN decoded : decoded[i] = i

OrdersAt(s, side, p) ==
  {id \in DOMAIN resting :
     resting[id].symbol = s /\ resting[id].side = side /\ resting[id].price = p}

(* A handler that has decoded all the venue sent knows the resting orders,  *)
(* and the total of each level is the sum of the orders that rest there.    *)
LevelsAreTheMarket ==
  Len(decoded) = Len(tape) =>
    /\ orders = resting
    /\ \A s \in Symbol, side \in Side, p \in Price :
         levels[s][side][p] =
           MapThenSumSet(LAMBDA id : resting[id].size, OrdersAt(s, side, p))

KnownAt(s, side, p) ==
  {id \in DOMAIN orders :
     orders[id].symbol = s /\ orders[id].side = side /\ orders[id].price = p}

(* Whatever was lost, a level never shows more than the orders the decoder  *)
(* knows to rest there.  A lost modify can make it show less: an execution  *)
(* then takes more from the level than its order had.  The other way round  *)
(* the level would keep shares of no order, and nothing would ever take     *)
(* them off again.                                                          *)
LevelsWithinOrders ==
  \A s \in Symbol, side \in Side, p \in Price :
    levels[s][side][p] <= MapThenSumSet(LAMBDA id : orders[id].size, KnownAt(s, side, p))

(* Even after losses the updates published so far draw exactly the levels   *)
(* the decoder holds, up to the 32 bits of a size.                          *)
UpdatesDrawTheLevels ==
  out = <<>> =>
    \A s \in Symbol, side \in Side, p \in Price :
      golden.books[s][side][p] = levels[s][side][p] % SizeLimit

(* The health report: while nothing is missed the published book is never   *)
(* crossed and no reference is unknown, so either of them means a loss.     *)
TroubleMeansLoss ==
  Unbroken => golden.crossed = 0 /\ unknown_references = 0
=============================================================================
