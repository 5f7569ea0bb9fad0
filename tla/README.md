# Mega-Feed-Handler: TLA+ models, model checking and proofs

The repository replays an exchange's DEEP+ feed, decodes it into price-level
updates and republishes those on a reliable multicast of its own. This directory
holds its formal development: modules translated from the sources, TLC
configurations that check them on small instances, and theorems that TLAPS
checks for every instance. All paths below are relative to the repository.

## 1. The system

    exchange --IEX-TP datagrams--> feedhandler --our datagrams--> visualizer
    (a capture replayed)           decoder, publisher             Subscriber, Book
                                   repair server <--TCP repair--------'

| Part | Source | State | Operations | Hard behaviour |
|---|---|---|---|---|
| Subscriber | `src/subscriber.h` | per bucket `next_sequence`, `parked`, `gone`, `holes`; one repair connection | `drain_udp`, `drain_tcp`, `nak`, `deliver`, `run` | loss, duplication, reordering, answers racing late datagrams, expiry, failed and lost connections |
| FeedPublisher | `src/feedpublisher.h` | per bucket a ring of slots and `next_sequence`; `ring_mutex` | `publish`, `finish` | ring overwritten while read, loss injection, terminators lost |
| Repair server | `src/feedpublisher.h` | a thread per connection | `serve_repairs`, `serve_one_client` | interleaving with the publisher, clients that leave, death of the process |
| DEEP+ decoder | `src/deepplus.h` | `orders`, `levels`, `unknown_references` | `decode`, `addLevel` | messages missed before or in between, 32-bit totals |
| Feed handler | `src/feedhandler.cpp`, `src/iextp.h` | `expected`, `capture_gaps` | `on_payload` | late, repeated, overlapping and short datagrams |
| Receive loop | `src/feedhandler.cpp` | `packets`, `last_receive`, `g_stop` | `main` | silence as the only end of a session, a venue that starts late or never, a full socket, signals |
| Book, BookSet | `src/book.h` | two price maps per symbol, last touch, fingerprint | `apply`, `bbo` | crossed books |
| Visualizer | `src/visualizer.cpp` | a Subscriber and a Book | `main` | joins live, in the middle of the stream |
| Pcapng reader | `src/pcapng_reader.h` | file position, byte order, table of interfaces | `open`, `next_packet` | sections that change byte order and interfaces, frames that fall short, files that end badly |
| exchange | `src/exchange.cpp` | packets sent, time of the first | `main` | pacing in blocks, nobody listening, signals |
| checkcap | `src/checkcap.cpp` | packets read | `main` | its verdict against what exchange does |
| net, helpers, env | `src/net.h`, `src/helpers.h`, `src/env.h` | none | socket wrappers, encodings, constants | partial writes, blocking writes, signals |

The publisher and the repair threads share the rings under `ring_mutex`. The
publisher and the receivers share nothing: they talk by lossy datagrams and by a
TCP connection a receiver opens when it has something to ask for. All of a
receiver runs in one thread.

What makes each part correct:

- Subscriber: every sequence from the point of entry on is delivered once, in
  order, or counted unrecoverable; nothing is forgotten in between; no gap stalls
  a bucket; only a real reason writes a message off.
- Publisher: an answer is the message of the number it names or a truthful
  "overwritten"; the ring is the window of the last messages whenever anybody
  can look; datagram and ring agree; the mutex is handed back.
- Feed handler and decoder: each venue message is decoded at most once and in
  order; gaps are counted; levels are the sums of the resting orders; what is
  published draws those levels; a crossed book means a loss.
- Repair connection: however the bytes are cut, no header is read out of the middle of
  a frame, on either side and across connections; full buffers drain; two writers never
  wait for each other for ever; what is due is asked for in the end.
- Reader and exchange: the payloads of the file, all of them, in order, with the units
  of their own interface; checkcap's verdict is what exchange then does.
- Receive loop: it ends by itself, not before the replay does, and the exit code is true.
- Book: a size of zero deletes a level, any other replaces its total; the picture is
  the one the venue shows.

## 2. Modules

| Module | Models | Lines of code behind it |
|---|---|---|
| `Subscriber` | the receiver in an open environment | `src/subscriber.h` |
| `OrderedFeed` | what a consumer is promised | the contract of `deliver` |
| `SubscriberProofs` | theorems about `Subscriber` | |
| `FeedPublisher` | publisher, repair threads, mutex, connections | `src/feedpublisher.h` |
| `FeedPublisherProofs` | theorems about `FeedPublisher` | |
| `FeedPublisherRefinement` | the theorem that it implements `RetransmitService` | |
| `RetransmitService` | the atomic service the publisher implements | the contract of `serve_one_client` |
| `ReliableFeed` | `Subscriber` + `RetransmitService` + network | both |
| `ReliableFeedProofs` | theorems about the composition | |
| `RepairStream` | one repair connection as bytes in bounded sockets | `src/subscriber.h`, `src/feedpublisher.h`, `src/net.h` |
| `RepairStreamProofs` | theorems about `RepairStream` | |
| `DeepPlusDecoder` | the decoder | `src/deepplus.h` |
| `BookSet` | level maps and crossed check | `src/book.h` |
| `FeedHandler` | venue + framing + decoder + golden book | `src/feedhandler.cpp`, `src/iextp.h` |
| `FeedHandlerProofs` | theorems about `FeedHandler` | |
| `FeedHandlerMain` | the receive loop, from joining to the exit code | `src/feedhandler.cpp` |
| `PcapngReader` | block by block reading of a capture | `src/pcapng_reader.h` |
| `Replay` | exchange and checkcap over the reader | `src/exchange.cpp`, `src/checkcap.cpp` |
| `Session` | `Replay` + `FeedHandlerMain` on one host, with time | both |
| `SessionProofs` | theorems about `Session` and all it is made of | |
| `Numbers` | lemmas the proof modules share: division, finite sets, least numbers | |

**Subscriber.** `phase` and `turn` are the position in `run()` and `pump()`: poll,
drain every bucket's socket, drain and parse the repair connection, then nak and
deliver for each bucket. Each handler is one action; a datagram or a frame taken
is one step, because the kernel may fill the socket between two `recv` calls.
`AcceptOrderMessage` covers `drain_udp` and `accept_OrderMessage`; `AcceptFrame`
one frame of `drain_tcp`; `PeerClosed` and `BadFrame` its two resets;
`NakQuiet`, `NakSent` and `NakFailed` are the three ways through `nak`, each with
the expiry walk in front; `DeliverParked` and `SkipGone` one turn of `deliver`.
A hole keeps two ages instead of two time stamps, saturated one unit past the
largest threshold; `Tick` may happen at any point. `start`, `seen`, `delivered` and
`lost` are history. A message is its bucket and sequence; the terminator of bucket
`b` is number `End[b]`.

The environment is open: any sequence of the stream may arrive at any time, as
often as it likes, or never; the server answers anything for any sequence below
one already heard (the code asks for nothing else: `AsksBelowSeen`).

**FeedPublisher.** The main thread writes a slot in two steps (number, payload)
and a batch is answered one sequence per step, so a missing or misplaced lock
shows as a torn answer. The connections are queues of requests and frames. A
connection that breaks may lose a suffix of what was written. `Exit` is the end
of `main()` in `src/feedhandler.cpp`, which ends the detached threads where they
are. `golden` and the counters are left to `FeedHandler`. A connection takes all
that is written to it; what a bounded one does is the business of `RepairStream`.

**RetransmitService** answers a whole batch from one instant of the rings.
`FeedPublisher!ServiceKept` maps a batch to the moment its thread gives the mutex
back, a published message to the unlock.

**ReliableFeed** extends `Subscriber` with the service and a set of datagrams in
flight per bucket (any order, any delay; what is lost never enters it). The
connection is in order and carries whole frames. Duplication on the wire is left
to `Subscriber`'s own runs.

**RepairStream** is the connection under `Subscriber` and `FeedPublisher`, which deal
in whole frames. A byte is known by the kind of its frame and its place in it, so a
header that is read at the wrong place shows; request bytes are only counted, since the
server looks at nothing but their number. `Receive`, `Drained`, `PeerClosed`,
`ParseFrame`, `BadFrame` and `Parsed` are `drain_tcp`; `Refused`, `Connect`, `Ask`, `Write`
and `GiveUpWrite` the network side of `nak` with `write_all` and its time limit;
`ReadRequest` and `WriteResponse` the server's `read_exact` and `write_all`. The server's
socket may start to listen late (its thread is detached), a connection may break with a
prefix of its bytes still to come, and the server's process may end at any point.
`RequestsGetThrough` means by "asked for" what `nak` does, that the whole request was
written: one that is lost with the connection counts, and the next `nak` after
`NAK_REPEAT_MS` replaces it. A frame of kind `odd` has a length that is not ours, as some other peer would announce.

**PcapngReader** reads one block per step. A block is its type and what the reader looks
at of its body (`AnyBlock`); a byte order that does not fit makes the next block illegible. What
the reader ought to yield (`YieldsTheCapture`) is defined on the whole file, without
the reader's table and flags. A packet block shorter than its own header is a block that does
not fit: the code reads up to 20 bytes past such a block before its length test rejects it,
whatever was read. `Replay` puts the two loops over it: exchange counts what
it hands to `sendto`, sleeps when a block of packets was quicker than its time, and
stops at `PCAP_PACKET_COUNT`; checkcap reads to the end.

**FeedHandlerMain** is `main()` around `on_payload()`: `Prepare` (signals, the publisher, the
detached thread), `Join`, `PollReturns`, `Receive`, `Drained`, `Check` (both time-outs, then
the loop's condition), `Finish`, `Exit`. `PrepareFails` and `JoinFails` are the exits inside
`init()` and `udp_recv_socket()`, whose sockets or addresses may fail. `Listen` and `ListenFails` are `tcp_listen()` in the thread of
the repair server, at any point of the session. `Die` ends the whole process: no `finish()`,
exit code 1. Clocks are ages that grow up to one unit past the time-out they are compared
with, and `started` is taken after the join. `FeedPublisher` and `ReliableFeed` need no
action of their own for this end: a process that dies early is to the others one that takes
no more steps and whose connections break, and the receiver's properties assume no step of it.

**Session** runs it against `Replay`. A datagram that arrives before the join, or at a full
socket, is lost (`missed`); time may pass at any point, and `stalled` remembers that it
passed while a program had something to do. The two histories, with `heard_in_time`, are
what the properties say of a host that keeps up and of one that does not.

**FeedHandler** instantiates `BookSet` for the publisher's golden book and extends
`DeepPlusDecoder`. The venue is external: it numbers messages from 1, does not
reuse order numbers and never rests a crossed book. A datagram is any run of
consecutive messages, delivered any number of times in any order. A payload is
handled message by message, update by update. Heartbeats, other protocols and
bad versions return early and change nothing, so they are left out. While a
datagram is handled the venue waits: what it would send is not looked at before
the next datagram.

**BookSet** keeps the level maps and the count of crossed updates. The touch and the
fingerprint of its changes are left out: the comment in `src/book.h` has a consumer
compare fingerprints, but only the publisher has a BookSet and no program compares
anything.

Each module also holds seeded faults: operators named after the one they would
replace (`WriteOffForgotten` for `WriteOff`), which nothing uses. `PROJECT.json`
pairs each with the property that has to notice when it takes the other's place.

## 3. What TLC checks

| Run | Question | Bounds |
|---|---|---|
| `receiver_history` | safety of a receiver that demands history | one bucket, stream of 6, give-up age 3, batch 2 |
| `receiver_live` | tuning in live with a rewind; two buckets in one loop | two streams of 3, backfill 1 |
| `publisher_threads` | torn answers, ring as window | ring of 2, sequences 1 and 3 in the same slot, two clients (symmetric) |
| `publisher_service` | implements the service; mutex released | two buckets, ring of 1, two rounds of terminators |
| `feed_shared` | one connection for two buckets; reasons for writing off | streams of 2 and 3, ring of 2, two rounds of terminators |
| `feed_live` | no stall, termination | stream of 4, ring of 2, give-up age 2 |
| `handler_sequence` | late, repeated, overlapping, short datagrams | 4 messages, datagrams up to 4, one missing at the end |
| `handler_market` | decoder and book against the venue | 4 messages, 2 orders, 2 prices, sizes to 2, size width 3 |
| `repair_stream` | framing, room and blocking of one connection | 2 buckets, header 2, message 2, odd length 3, buffer and sockets 5, request 2, one break |
| `session` | the reader; checkcap against exchange; end of a session | 3157 captures, 6 of them replayed; 3 packets, pause 2, idle 2, start 3, socket 2 |

`feed_gone` and `feed_silent` are the two runs that end in a violation (below).

Why these are enough. In a stream of six with batches of two there are several
holes at once, holes on both sides of a parked message, a full and a partial batch,
expiry of a proper prefix and of everything; ages matter only relative to the
thresholds, which are all crossed. A ring of two slots under three or more
messages has a slot overwritten while it is asked for; two clients and the
publisher contend for the mutex three ways. In `feed_shared` the ring of the longer
stream is overwritten once its terminator is published, so an answer can be "gone"
while the other bucket uses the same connection. Published sizes are taken modulo
three (`SizeLimit`, 2^32 in the code): two orders of sizes one and two make a total
that is published as zero. `handler_market` takes messages in datagrams of up to two,
each lost or not; longer datagrams and short ones are the business of
`handler_sequence`, where a single price is enough.

In `repair_stream` an answer of up to three frames is longer than a socket and than the
buffer, frames of two and of four bytes never divide either evenly, a third bucket's
request would not fit: so every cut of a frame, a full buffer, both sockets full at once
and a write without room all occur. In `session` the captures are every shortcoming a
frame can have, every sequence of up to four blocks after the first section header, and
every odd block between two packets; a longer file meets no table, order or frame
these do not. Only six files are replayed, since exchange looks at nothing of a
payload but that it exists: none, fewer than, as many as and more than `PacketCount`.
The pause is as long as the idle time-out, its largest permitted value.

Bounds are constants named as such in the modules (`MaxPublished`, `MaxPipelined`,
`MaxUnread`, `MaxTape`, `MaxSize`, `MaxBatch` of the handler, `MaxCut`, `MaxBreaks`;
`Answer`, `Capture` and `Replayed` are the inputs that are tried). Two assumptions say what the
configuration has to grant: `StreamAssumption` (the buffer holds the longest frame a
header can announce, a new connection one request of every bucket) and `PaceAssumption`
(exchange pauses no longer than the idle time-out). The constants of `src/env.h` and
`src/helpers.h` satisfy both: 88064 bytes against 65547, 20 ms against 2000. With
fewer than three `BUCKETS` the buffer would be smaller than that frame, and a peer that
announces one could keep the parser waiting with a full buffer for ever.
No run turns deadlock checking off; programs that have ended stutter explicitly
(`Returned`, `Exited`).

**Fairness.** `FairFeedSpec` assumes only that the receiver's thread is scheduled
(weak fairness of its steps as a whole: `poll` has a 2 ms timeout) and that time
passes. Nothing is assumed of the publisher, the server or the network: the
give-up time alone has to end a chase. `FairSpec` of the publisher assumes that a
`publish()` or `finish()` once entered goes on, and that each repair thread runs
when it can; with a single client this needs no fairness of the mutex itself. In
`RepairStream` the server's two threads and the client are scheduled and the back-off
passes; the network owes nothing, and `RequestsGetThrough` rests on `MaxBreaks` being
finite. In `Session` both programs are scheduled, exchange among them, and time passes; nothing is
assumed of the handler's detached thread. That exchange is scheduled matters little, since it
is finite. Elsewhere no fairness is assumed of the venue, of clients or of new calls to
`publish()`.

### Where code and documentation differ

Two of them are runs whose property TLC finds violated.

- `feed_gone`: the comment in `nak()` calls the give-up walk the one place where
  data is written off; a "gone" answer does so too (`WrittenOffForAReason` states
  what does hold).
- `feed_silent`: the comment of `run()` says it returns false when the feed never
  spoke; it waits for ever.

More are seen by reading and need no run. `README.md` says (98-100) that a handler which
joins too late ends with `Packets received: 0` "with no error at all", while
`src/feedhandler.cpp` (141-150) explains what happened and returns 1, which is what
`ExitTellsWhy` states. The same code 1 is the exit of a handler that could not get a socket,
and only there do the terminators stay away that its comment says "every subscriber waits
for". `README.md` says the visualizer
demands history from sequence 1, while `src/visualizer.cpp` joins live and says so;
the comment on `BookSet` says equal fingerprints mean every message arrived,
while a message that leaves the touch alone never enters the fingerprint.
In `src/subscriber.h` `repair_len_` is "always < REPAIR_BUF_CAP", yet `drain_tcp` may fill the
buffer; it is so again once parsing is done, which is `RoomIsRegained`. The comment in
`main()` of `src/feedhandler.cpp` wants the repair server listening before the first datagram
goes out, and nothing waits for its thread; a refused connection is tried again
(`RequestsGetThrough`). `src/visualizer.cpp` blames a crossed book on the data upstream,
while a receiver that has written messages off, or has joined live, can draw one from a
feed that never crosses. A time unit the pcapng reader does not support is replaced by
microseconds without a word.

## 4. What is proved

Every safety invariant and action property of a passing run is also a theorem, and so are
both refinements (`PromiseKept`, `ServiceKept`). The theorems hold for every value of the
constants the assumptions allow, and no others are made:

| Assumption | Asks that | Because |
|---|---|---|
| `SubscriberAssumption` | the timers and bounds are numbers, batches are not empty, `NAK_DELAY_MS <= REPAIR_GIVEUP_MS` | the constants of `src/env.h` |
| `PublisherAssumption`, `HolderAssumption` | there is a bucket, a slot and a round of terminators; names of different things differ | arrays of fixed size, a loop that runs |
| `FeedAssumption` | the same of the composition | |
| `DecoderAssumption`, `HandlerAssumption` | prices and order numbers are numbers, there is a price, a size on the wire fits a published one | both are 32 bits wide |
| `StreamAssumption` | every frame fits the buffer, a new connection holds one request of each bucket | `REPAIR_BUF_CAP` and `BUCKETS` |
| `CaptureAssumption` | a capture is a sequence of blocks with the fields of the format | what is no block ends the file |
| `ReplayAssumption`, `MainAssumption` | counts and time-outs are numbers, the socket holds a datagram | |
| `PaceAssumption` | exchange pauses no longer than the idle time-out | 20 ms against 2000 |

The invariants of `SessionProofs` and `CrossingInv` of `FeedHandlerProofs`, the ones easiest
to get wrong, were checked by TLC on the instances of `session` and `handler_market` before
they were proved (`TimesAgree` also with blocks of two packets).

**`SubscriberProofs`.** The environment of `Subscriber` is open, so these hold of a
receiver under any network and any server. `Inv` is inductive: `TypeOK` and, for each
bucket, `BucketInv` with the parts

- `Untuned`: before the first datagram of a live join the bucket is empty;
- `InWindow`: what is parked or chased lies between the delivery point and the
  highest sequence heard, what is gone lies below that;
- `Covered`: every sequence in that window is parked, gone or chased;
- `StillMissing`: what is chased is neither parked nor gone;
- `Aging`: the ages of the holes never increase with their sequence;
- `Settled`: delivered and lost split what lies behind the delivery point.

The properties are not inductive alone. `Settled` needs `InWindow` and `Covered` to
know that `deliver` stops only at a hole; `Covered` needs `InWindow` because the gap
scan of `accept_OrderMessage` starts at the highest sequence heard and not at the
delivery point; `Aging` needs the fact that new holes lie above all old ones
(`MissingAboveSeen`). From `Inv` follow `TypeCorrect`, `NothingIsForgotten`,
`OnlyMissingIsChased`, `ExpiryIsAPrefix`, `SettledExactlyOnce` and
`ParkedIsNeverLost`, and with one lemma about `deliver` that what is handed over was heard
(`HeardBeforeDelivered`). `ReceiverKeepsPromise` shows that the receiver implements
`OrderedFeed` under the refinement mapping of `Subscriber`.

**`FeedPublisherProofs`.** `PublisherInv` is inductive:

- `MutexInv`: the publishing thread holds the mutex exactly inside its critical
  sections, and a thread that is answering holds it too;
- `RingInv`: for each bucket the phase of the publication in progress (`settled`,
  `stamped`, `filled`) fixes how `next_sequence`, the numbers in the slots
  (`Window`) and their payloads (`Text`) relate to the log;
- `CurrentInv`: the local copies `publish()` sends after it has unlocked are what it
  wrote;
- `FramesInv`: every frame written or about to be written is true of the log.

`RingIsTheWindow` says nothing while the publisher writes, so it cannot carry a
proof through `publish()`: `RingInv` is its extension to the half-written slot. A
slot is identified by a residue; `ModGap` and `ModShift` of `Numbers` show that two sequences of one
slot are a whole ring apart, from which `Window` follows step by step. Then
`WindowTheorem`, `AnswersTheorem` and `SentTheorem` are consequences, and
`PublisherTypeCorrect` is the type invariant.

**`FeedPublisherRefinement`.** `ServiceTheorem`: locked rings, read one sequence after the
other, are the service that answers a whole batch from one instant. The instant is the one
at which a thread gives the mutex back, so the frames it has collected until then must be
those the service would give at that moment. `AnswersSoFar` says so of a batch in progress;
it is stable because the log grows only at the unlock of `publish()` and `finish()`, which `MutexInv` excludes
while a thread answers, and a new frame joins it because `RingInv` makes the ring the window
of the log. `ConnectionGood` adds that a thread with nothing to answer has no frames and
that a connection nobody has opened, or that is lost, has no requests left. Every action is
then shown to be a step of the service or a stutter; the lemmas about `Asked` and `Unread`
say what the mapping makes of a batch that is taken, answered, cut short or left behind.

**`ReliableFeedProofs`.** `FeedIsSubscriber`: publisher, network and service together are an
environment `Subscriber` allows, so what is proved of the receiver alone holds of the
multicast. It also discharges the one restriction that environment had: an answer concerns
a sequence below one already heard (`AskedBelowSeen`). `FeedInv` is `Inv` of the receiver
with `StreamInv` (nothing in flight or heard is beyond what is published) and
`ConnectionInv` (what is on the connection is `Askable` one way and `Usable` the other, and
the two ends agree on whether it is there). `Usable` is what makes an answer "gone" true
for good: what the ring has lost it never has again, so the answer may be delayed as long as
it likes. From it follow `WrittenOffAlwaysForAReason`,
`NothingInvented` (what is heard, parked or delivered was published; for what is delivered it
takes `HeardBeforeDelivered`), and `ServerNeverRejects`: the branch of `serve_one_client` that hangs up
on a malformed request is there for other clients than ours.

**`FeedHandlerProofs`.** The venue, the datagrams and their fate are arbitrary up to the
named bounds, which are themselves arbitrary. Five invariants carry the proofs.

`SequenceInv` is about numbers. `AtMostOnceInOrder` speaks of what was decoded only; for
the next message to be larger than all of it, `OrderInv` adds that everything decoded lies
behind `expected` or in front of the current position of the datagram, and that the
messages still to be skipped end exactly at `expected`. `GapInv` follows `capture_gaps`
through a datagram: `Front` is the position once it has passed `expected`, and before the
first datagram is done the count is that of its own messages. `DecodedOnceInOrder` and
`GapsAreCountedAlways` follow.

`MarketInv` is about the published book. `UpdatesDrawTheLevels` holds only between messages, so
`DrawInv` says of every level that it is in the published book already, or in the last
update of it that waits to be published. A message then falls in one of three shapes,
whatever its kind: it changes one level and says so (`OneLevel`), it moves an order from
one level to another (`TwoLevels`: here the order of the updates matters), or it changes
none (`NoLevel`); publishing the head of the queue keeps the invariant because a later
update of the same level, if there is one, outlives it. `SequenceInv` is needed once
more: what is decoded must be on the tape. `HandlerTypeCorrect` and `UpdatesDrawAlways`
follow. Neither supposes that anything arrives: they hold after any loss.

`MirrorInv` compares the decoder with the venue while nothing is missed (`Unbroken`). The
decoder lags behind by the datagrams that are still on their way, so it equals a book of the
past: `History` is a sequence of books, one after each message of the tape and each a move
of the venue away from the one before, and `Follows` says that the decoder `Mirrors` the one
behind the last message it decoded. `MirrorDecode` is the step: what the venue does to its
book by a message, `decode()` does to `orders` and `levels`. A level is the sum of the sizes
resting at its price. The library defines the sum by recursion over a set and the provers
cannot do that induction, so the orders are cut into shares: a sum is the number of pairs of
an order and a number up to its size (`SumIsTotal`, where the least size of a counterexample
takes the place of the induction, `LeastNatural`), and one order more or less changes that
number by its size. `LevelsAreTheMarketAlways` follows.

`CrossingInv` carries this to the published book: what it shows at a price is held at that
price, unless the update that takes it back is the next one to be published (`ShownIsHeld`,
`ShowsHeld`). A book that crossed would then be a crossed book of the venue. With the fact
that `Mirrors` leaves no order unknown this is `TroubleMeansLossAlways`.

A message may be lost, and then the decoder's levels and its orders part ways: an execution
takes its size from the level even if the order it names is known to be smaller.
`LevelsStayWithinOrders` says in which direction. `WithinInv` adds to it that every order the
decoder knows was added by a message it decoded (`KnownWereAdded`, `DecodedWasSent`) and that
the venue's adds ascend (`AddsAscend`): with `SequenceInv` an add is then never of an order
already known, whose shares would otherwise stay in a level without an order. Whatever
moves shares is one `AddLevel` or two that take back at least what the orders lose
(`AddLevelWithin`), over the same sums of shares.

**`RepairStreamProofs`.** The sizes of headers, messages, requests, buffer and sockets are
arbitrary, and so is what a request is answered with, as long as it is whole frames and
every frame fits the buffer (`StreamAssumption`). `RepairInv` is inductive. `StreamIsFramed`
says of a stream that ends anywhere that its bytes are in their places; to append the next
answer the last frame must not be cut, so `FrameInv` adds that it is whole (`Complete`) as
long as the connection is open. Being framed is said byte by byte, not frame by frame, so
no induction is needed: a prefix of a framed stream is framed (`CutFrames`, a connection
that is lost), whole frames with more behind them are (`JoinFrames`, an answer), and what
is left of a stream is when the frame at its front is taken off (`DropFrame`). The parser
takes that frame off and nothing else because the header in the buffer can only be its own
(`HeaderOfBuffer`). `LinkInv` ties the thread of the server to the connection: a connection
that is not open has no request on its way, so a new one starts at the first byte of a
request. `StreamIsFramedAlways`, `RequestsFramedAlways`, `RoomRegainedAlways` and
`RepairTypeCorrect` follow.

**`SessionProofs`.** Any capture of well-formed blocks, any pace, any time-outs, any room in
the socket. `SessionInv` has four parts.

- `ReaderInv`. `YieldsTheCapture` is defined on the whole file, the reader knows a table and
  a flag; `TableHolds` says that behind each block the table has the interfaces declared since
  the section began, each at its number, and that the flag is the byte order of the section.
  `LegibleIsSound` and `TableAnswers` are the two questions the reader asks of them.
  `CaptureIsYielded` and `PayloadsInFrames` follow.
- `ReplayInv`: what has been read is what has been counted, but for the packet in hand
  (`Counting`), and a verdict is about that count (`Judged`); `VerdictsAlwaysAgree`. That the
  count is the one checkcap gives needs `PayloadPerPacket` (no packet yields two payloads)
  and `ReadableSoFar` (what exchange leaves unread can only add to them).
- `HandlerInv`: the flags of the receive loop say why it was left (`HandlerControl`), and a
  datagram that was there in time keeps the start time-out from ending the session
  (`HeardIsQueued`). A process that died did so before the join, and then nothing was
  received, or in the repair thread, which then never listened; `ExitAlwaysTellsWhy`.
- `TimesAgree` relates the clocks of the two programs. `HeardOut` concerns one moment, the end
  of a silence; the proof has to follow the silence from the last datagram on. `OnTime` and
  `SentOnTime` keep exchange on its timetable, `SilenceSinceSent` measures the silence on it,
  so that `SilenceIsPause` bounds it by a pause while anything is still to come. With
  `PaceAssumption` a silence longer than the idle time-out is the end (`SilenceMeansOver`).
  Both conditions of the property are needed: a datagram that is lost, or a program that
  stands still while time passes, breaks the relation of the clocks.

**Only model-checked**: liveness, which the provers do not reach: `LockIsReleased`,
`NoBucketStalls`, `EndsOnceHeard`, `WriterIsFreed`, `ServerIsFreed`, `RequestsGetThrough`,
`SessionEnds`.

## 5. Not modelled

- Byte layouts of messages, headers and blocks, socket options, multicast membership,
  printing and drawing. A conversion between byte orders matters in `PcapngReader` alone,
  where a block read in the wrong order is illegible.
- The visualizer's own book. It is `BookSet`'s for one symbol, fed by a `Subscriber`; while
  nothing is lost it is the publisher's, which `handler_market` checks, and after a loss it
  promises nothing. Composing venue, handler, network and receiver in one run would
  multiply state spaces that meet only in a sequence of updates, which `ReliableFeed` and
  `OrderedFeed` deliver as it is.
- The touch and fingerprint of `BookSet`, which no program compares, and the totals that
  `checkcap` and the other programs print.
- Several connections to one repair server as bytes: they share nothing but the mutex,
  which `FeedPublisher` has, and no thread holds it while it reads or writes.
- Wrap-around of 64-bit sequence numbers; a publisher that restarts and numbers from
  1 again (the code has no session identifier, so neither has the model).

## 6. Plan

What is left, most useful first.

1. The safety half of the liveness properties: that a receiver with a hole has a step that
   brings it closer to an answer or to giving up, that a thread which holds `ring_mutex` can
   always go on, that in `RepairStream` one of the three threads can move while bytes are due.
2. The path of an update from the handler to a consumer: `FeedHandler`'s updates as the stream
   of `ReliableFeed`, and that a consumer's book equals the publisher's while nothing is lost.
