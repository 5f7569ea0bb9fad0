------------------------------ MODULE Subscriber ------------------------------
(***************************************************************************)
(* The receiving side of the reliable multicast (src/src/subscriber.h): one *)
(* thread that takes sequenced datagrams from the multicast group of every  *)
(* joined bucket, notices the sequences that are missing, asks the repair   *)
(* server for them over TCP and hands the messages to its caller in order.  *)
(*                                                                         *)
(* The environment is open.  Datagrams may be lost, duplicated, delayed and *)
(* reordered; the repair server answers "here it is" or "overwritten" for   *)
(* any sequence this subscriber may have asked for, in any order, or not at *)
(* all, and may hang up or garble the stream.  Whatever is proved here      *)
(* holds for every publisher; ReliableFeed closes the system with ours.     *)
(*                                                                         *)
(* A message is identified by its bucket and its sequence number, and       *)
(* End[b] is the number of bucket b's 'E' terminator.  Time is discrete:    *)
(* a hole keeps the ages `now - noticed' and `now - asked', which is all    *)
(* the code ever computes from its time stamps.  Ages saturate one past the *)
(* largest threshold they are compared with.                                *)
(***************************************************************************)
EXTENDS Integers, Sequences, FiniteSets, Functions

CONSTANTS
  NumBuckets,     \* joined buckets, numbered in the order of buckets_
  End,            \* End[b]: sequence number of the terminator of bucket b
  FirstExpected,  \* first_expected: 0 = tune in live
  Backfill,       \* sequences to rewind when tuning in live
  MaxBatch,       \* MAX_REPAIR_BATCH
  NakDelay,       \* nak_delay_ns_
  NakRepeat,      \* nak_repeat_ns_
  RepairRetry,    \* repair_retry_ns_
  GiveUp          \* giveup_ns_

Bucket == 1..NumBuckets

ASSUME SubscriberAssumption ==
  /\ NumBuckets \in Nat \ {0}
  /\ End \in [Bucket -> Nat \ {0}]
  /\ FirstExpected \in Nat
  /\ Backfill \in Nat
  /\ MaxBatch \in Nat \ {0}
  /\ NakDelay \in Nat /\ NakRepeat \in Nat /\ RepairRetry \in Nat /\ GiveUp \in Nat
  /\ NakDelay <= GiveUp

VARIABLES
  nextSequence, synced, done,  \* struct Bucket, one entry per joined bucket
  parked,       \* sequences of early arrivals waiting for their turn
  gone,         \* sequences written off as unrecoverable
  holes,        \* known-missing sequences, each with its two ages
  connected,    \* repair_fd_ >= 0
  blocked,      \* time left until repair_blocked_until_
  phase, turn,  \* where run() and pump() are, and at which bucket
  start,        \* history: the sequence at which bucket b was taken up
  seen,         \* history: highest sequence received in a datagram
  delivered,    \* history: sequences handed to on_OrderMessage, in order
  lost          \* history: sequences counted in stats.unrecoverable

repairVars == <<connected, blocked>>
loopVars == <<phase, turn>>
subscriberVars == <<nextSequence, synced, done, parked, gone, holes, connected,
                    blocked, phase, turn, start, seen, delivered, lost>>

NotAsked == -1
NewHole == [noticed |-> 0, asked |-> NotAsked]
Hole == [noticed : 0..(GiveUp + 1), asked : NotAsked..(NakRepeat + 1)]

Init ==
  /\ nextSequence = [b \in Bucket |-> IF FirstExpected > 0 THEN FirstExpected ELSE 1]
  /\ synced = [b \in Bucket |-> FirstExpected > 0]
  /\ done = [b \in Bucket |-> FALSE]
  /\ parked = [b \in Bucket |-> {}]
  /\ gone = [b \in Bucket |-> {}]
  /\ holes = [b \in Bucket |-> [s \in {} |-> NewHole]]
  /\ connected = FALSE
  /\ blocked = 0
  /\ phase = "poll"
  /\ turn = 1
  /\ start = [b \in Bucket |-> FirstExpected]
  /\ seen = [b \in Bucket |-> 0]
  /\ delivered = [b \in Bucket |-> <<>>]
  /\ lost = [b \in Bucket |-> {}]

-----------------------------------------------------------------------------
(* run(): wait for a socket or the 2 ms timeout, then pump() once.          *)

Wake ==
  /\ phase = "poll"
  /\ phase' = "udp" /\ turn' = 1
  /\ UNCHANGED <<nextSequence, synced, done, parked, gone, holes, repairVars,
                 start, seen, delivered, lost>>

(* g_stop was set by a signal: the loop condition ends run() with false.    *)
Interrupted ==
  /\ phase = "poll"
  /\ phase' = "stopped"
  /\ UNCHANGED <<nextSequence, synced, done, parked, gone, holes, repairVars,
                 turn, start, seen, delivered, lost>>

(* Move on to the next bucket in phase p, or to phase q after the last one. *)
Advance(p, q) ==
  IF turn < NumBuckets
  THEN phase' = p /\ turn' = turn + 1
  ELSE phase' = q /\ turn' = 1

-----------------------------------------------------------------------------
(* drain_udp() and accept_OrderMessage().                                   *)

(* Where a stream first heard at sequence s is taken up.                    *)
StartUnclamped(s) == s - Backfill   \* seeded fault: backfill reaches below 1

StartAt(s) ==
  CASE Backfill = 0 -> s
    [] Backfill > 0 /\ s > Backfill -> s - Backfill
    [] OTHER -> 1

ResyncAlways(b, s) == StartAt(s)    \* seeded fault: the bucket never stays synced
RewindIgnored(b, s) == IF synced[b] THEN nextSequence[b] ELSE s   \* seeded fault

Expected(b, s) == IF synced[b] THEN nextSequence[b] ELSE StartAt(s)

DuplicateOrNext(b, s) == s <= Expected(b, s) \/ s \in parked[b]   \* seeded fault

Duplicate(b, s) == s < Expected(b, s) \/ s \in parked[b]

(* Seeded faults: the gap scan re-stamps known holes, or chases arrivals.   *)
MissingAgain(b, s) == {m \in Expected(b, s)..(s - 1) : m \notin parked[b] \cup gone[b]}
MissingParked(b, s) ==
  {m \in Expected(b, s)..(s - 1) : m \notin gone[b] \cup DOMAIN holes[b]}

Missing(b, s) ==
  {m \in Expected(b, s)..(s - 1) : m \notin parked[b] \cup gone[b] \cup DOMAIN holes[b]}

Unless(h, S) == Restrict(h, DOMAIN h \ S)

WithNew(h, S) ==
  [s \in DOMAIN h \cup S |-> IF s \in S THEN NewHole ELSE h[s]]

AcceptOrderMessage(b, s) ==
  /\ phase = "udp" /\ turn = b
  /\ s \in 1..End[b]
  /\ nextSequence' = [nextSequence EXCEPT ![b] = Expected(b, s)]
  /\ start' = [start EXCEPT ![b] = IF synced[b] THEN start[b] ELSE StartAt(s)]
  /\ synced' = [synced EXCEPT ![b] = TRUE]
  /\ seen' = [seen EXCEPT ![b] = IF s > seen[b] THEN s ELSE seen[b]]
  /\ \/ /\ Duplicate(b, s)
        /\ UNCHANGED <<parked, holes>>
     \/ /\ ~Duplicate(b, s)
        /\ holes' = [holes EXCEPT ![b] = Unless(WithNew(holes[b], Missing(b, s)), {s})]
        /\ parked' = [parked EXCEPT ![b] = parked[b] \cup {s}]
  /\ UNCHANGED <<done, gone, repairVars, loopVars, delivered, lost>>

UdpDrained ==
  /\ phase = "udp"
  /\ Advance("udp", "tcp")
  /\ UNCHANGED <<nextSequence, synced, done, parked, gone, holes, repairVars,
                 start, seen, delivered, lost>>

-----------------------------------------------------------------------------
(* drain_tcp(): first recv() until the socket is empty, then parse frames.  *)

ResetRepair == connected' = FALSE

TcpDrained ==
  /\ phase = "tcp"
  /\ phase' = IF connected THEN "parse" ELSE "nak"
  /\ UNCHANGED <<nextSequence, synced, done, parked, gone, holes, repairVars,
                 turn, start, seen, delivered, lost>>

(* recv() returned 0.  Everything received in this call goes unparsed.      *)
PeerClosed ==
  /\ phase = "tcp" /\ connected
  /\ ResetRepair
  /\ phase' = "nak"
  /\ UNCHANGED <<nextSequence, synced, done, parked, gone, holes, blocked,
                 turn, start, seen, delivered, lost>>

(* One frame: sequence s, with its message or with the "gone" marker.  The  *)
(* server echoes what it was asked for, and only sequences below one already *)
(* heard are ever asked for.                                                *)
AcceptFrame(b, s, inRing) ==
  /\ phase = "parse"
  /\ s < seen[b]
  /\ holes' = [holes EXCEPT ![b] = Unless(holes[b], {s})]
  /\ IF s < nextSequence[b]
     THEN UNCHANGED <<parked, gone>>
     ELSE IF inRing
          THEN /\ parked' = [parked EXCEPT ![b] = parked[b] \cup {s}]
               /\ UNCHANGED gone
          ELSE /\ gone' = [gone EXCEPT ![b] = gone[b] \cup {s}]
               /\ UNCHANGED parked
  /\ UNCHANGED <<nextSequence, synced, done, repairVars, loopVars,
                 start, seen, delivered, lost>>

(* A length that is neither a payload nor "gone": resynchronise.            *)
BadFrame ==
  /\ phase = "parse"
  /\ ResetRepair
  /\ phase' = "nak"
  /\ UNCHANGED <<nextSequence, synced, done, parked, gone, holes, blocked,
                 turn, start, seen, delivered, lost>>

Parsed ==
  /\ phase = "parse"
  /\ phase' = "nak"
  /\ UNCHANGED <<nextSequence, synced, done, parked, gone, holes, repairVars,
                 turn, start, seen, delivered, lost>>

-----------------------------------------------------------------------------
(* nak(): write off the expired holes, then ask for the others.             *)

(* The walk over the ordered map stops at the first hole still worth        *)
(* chasing.                                                                 *)
Expired(b) ==
  {s \in DOMAIN holes[b] :
     \A t \in DOMAIN holes[b] : t <= s => holes[b][t].noticed > GiveUp}

Chased(b) == Unless(holes[b], Expired(b))

Due(hole) ==
  \/ hole.asked = NotAsked /\ hole.noticed > NakDelay
  \/ hole.asked # NotAsked /\ hole.asked > NakRepeat

(* Seeded fault: the next sequence is asked for before it is missing.       *)
ToRequestAhead(b) ==
  {s \in DOMAIN Chased(b) : Due(Chased(b)[s])} \cup {seen[b] + 1}

(* The oldest holes that are due, at most a full batch of them.             *)
ToRequest(b) ==
  LET due == {s \in DOMAIN Chased(b) : Due(Chased(b)[s])}
  IN  {s \in due : Cardinality({t \in due : t < s}) < MaxBatch}

BackingOff == ~connected /\ blocked > 0

Asks(b) == ~BackingOff /\ ToRequest(b) # {}

Stamp(h, S) ==
  [s \in DOMAIN h |-> IF s \in S THEN [h[s] EXCEPT !.asked = 0] ELSE h[s]]

(* Seeded fault: an expired hole is erased and not remembered as gone.      *)
WriteOffForgotten(b) == UNCHANGED gone

WriteOff(b) == gone' = [gone EXCEPT ![b] = gone[b] \cup Expired(b)]

(* Nothing to ask for, or backing off after a failure.                      *)
NakQuiet(b) ==
  /\ phase = "nak" /\ turn = b /\ ~Asks(b)
  /\ WriteOff(b)
  /\ holes' = [holes EXCEPT ![b] = Chased(b)]
  /\ phase' = "deliver"
  /\ UNCHANGED <<nextSequence, synced, done, parked, repairVars, turn,
                 start, seen, delivered, lost>>

(* The request went out, on the open connection or on a new one.            *)
NakSent(b) ==
  /\ phase = "nak" /\ turn = b /\ Asks(b)
  /\ WriteOff(b)
  /\ holes' = [holes EXCEPT ![b] = Stamp(Chased(b), ToRequest(b))]
  /\ connected' = TRUE
  /\ phase' = "deliver"
  /\ UNCHANGED <<nextSequence, synced, done, parked, blocked, turn,
                 start, seen, delivered, lost>>

(* Seeded fault: a failed connect writes the batch off.                     *)
NakFailedDrops(b) ==
  /\ phase = "nak" /\ turn = b /\ Asks(b)
  /\ gone' = [gone EXCEPT ![b] = gone[b] \cup Expired(b) \cup ToRequest(b)]
  /\ holes' = [holes EXCEPT ![b] = Unless(Chased(b), ToRequest(b))]
  /\ ResetRepair
  /\ blocked' = RepairRetry
  /\ phase' = "deliver"
  /\ UNCHANGED <<nextSequence, synced, done, parked, turn,
                 start, seen, delivered, lost>>

(* tcp_connect() or write_all() failed: every hole stays as it was.         *)
NakFailed(b) ==
  /\ phase = "nak" /\ turn = b /\ Asks(b)
  /\ WriteOff(b)
  /\ holes' = [holes EXCEPT ![b] = Chased(b)]
  /\ ResetRepair
  /\ blocked' = RepairRetry
  /\ phase' = "deliver"
  /\ UNCHANGED <<nextSequence, synced, done, parked, turn,
                 start, seen, delivered, lost>>

-----------------------------------------------------------------------------
(* deliver(): one turn of its loop per step.                                *)

DeliverParked(b) ==
  /\ phase = "deliver" /\ turn = b /\ ~done[b]
  /\ nextSequence[b] \in parked[b]
  /\ parked' = [parked EXCEPT ![b] = parked[b] \ {nextSequence[b]}]
  /\ nextSequence' = [nextSequence EXCEPT ![b] = nextSequence[b] + 1]
  /\ IF nextSequence[b] = End[b]
     THEN /\ done' = [done EXCEPT ![b] = TRUE]
          /\ UNCHANGED delivered
     ELSE /\ delivered' = [delivered EXCEPT ![b] = Append(delivered[b], nextSequence[b])]
          /\ UNCHANGED done
  /\ UNCHANGED <<synced, gone, holes, repairVars, loopVars, start, seen, lost>>

(* Seeded faults: the written-off set is consulted before the parked         *)
(* messages; a sequence is skipped without being counted.                   *)
SkipGoneFirst(b) ==
  /\ phase = "deliver" /\ turn = b /\ ~done[b]
  /\ nextSequence[b] \in gone[b]
  /\ gone' = [gone EXCEPT ![b] = gone[b] \ {nextSequence[b]}]
  /\ nextSequence' = [nextSequence EXCEPT ![b] = nextSequence[b] + 1]
  /\ lost' = [lost EXCEPT ![b] = lost[b] \cup {nextSequence[b]}]
  /\ UNCHANGED <<synced, done, parked, holes, repairVars, loopVars, start, seen,
                 delivered>>

SkipGoneSilently(b) ==
  /\ phase = "deliver" /\ turn = b /\ ~done[b]
  /\ nextSequence[b] \in gone[b] \ parked[b]
  /\ gone' = [gone EXCEPT ![b] = gone[b] \ {nextSequence[b]}]
  /\ nextSequence' = [nextSequence EXCEPT ![b] = nextSequence[b] + 1]
  /\ UNCHANGED <<synced, done, parked, holes, repairVars, loopVars, start, seen,
                 delivered, lost>>

SkipGone(b) ==
  /\ phase = "deliver" /\ turn = b /\ ~done[b]
  /\ nextSequence[b] \in gone[b] \ parked[b]
  /\ gone' = [gone EXCEPT ![b] = gone[b] \ {nextSequence[b]}]
  /\ nextSequence' = [nextSequence EXCEPT ![b] = nextSequence[b] + 1]
  /\ lost' = [lost EXCEPT ![b] = lost[b] \cup {nextSequence[b]}]
  /\ UNCHANGED <<synced, done, parked, holes, repairVars, loopVars, start, seen,
                 delivered>>

(* The loop of deliver() ends; after the last bucket run() tests done().    *)
DeliverEnds(b) ==
  /\ phase = "deliver" /\ turn = b
  /\ done[b] \/ nextSequence[b] \notin parked[b] \cup gone[b]
  /\ Advance("nak", IF \A c \in Bucket : done[c] THEN "ended" ELSE "poll")
  /\ UNCHANGED <<nextSequence, synced, done, parked, gone, holes, repairVars,
                 start, seen, delivered, lost>>

-----------------------------------------------------------------------------
Running == phase \notin {"ended", "stopped"}

Older(age, cap) == IF age < cap THEN age + 1 ELSE age

(* CLOCK_MONOTONIC advances by one unit, at any point of the loop.          *)
Aged(hole) ==
  [noticed |-> Older(hole.noticed, GiveUp + 1),
   asked |-> IF hole.asked = NotAsked THEN NotAsked ELSE Older(hole.asked, NakRepeat + 1)]

Tick ==
  /\ Running
  /\ holes' = [b \in Bucket |-> [s \in DOMAIN holes[b] |-> Aged(holes[b][s])]]
  /\ blocked' = IF blocked > 0 THEN blocked - 1 ELSE 0
  /\ UNCHANGED <<nextSequence, synced, done, parked, gone, connected, loopVars,
                 start, seen, delivered, lost>>

(* run() has returned: the program is over, not deadlocked.                 *)
Returned == ~Running /\ UNCHANGED subscriberVars

Next ==
  \/ Wake \/ Interrupted
  \/ UdpDrained \/ \E b \in Bucket : \E s \in 1..End[b] : AcceptOrderMessage(b, s)
  \/ TcpDrained \/ PeerClosed \/ BadFrame \/ Parsed
  \/ \E b \in Bucket : \E s \in 1..End[b], r \in BOOLEAN : AcceptFrame(b, s, r)
  \/ \E b \in Bucket : NakQuiet(b) \/ NakSent(b) \/ NakFailed(b)
  \/ \E b \in Bucket : DeliverParked(b) \/ SkipGone(b) \/ DeliverEnds(b)
  \/ Tick
  \/ Returned

Spec == Init /\ [][Next]_subscriberVars

-----------------------------------------------------------------------------
(* Properties.                                                              *)

(* Every variable of the receiver has its type: the fields of each Bucket,  *)
(* the repair connection and the position in run().                         *)
TypeOK ==
  /\ nextSequence \in [Bucket -> Nat \ {0}]
  /\ synced \in [Bucket -> BOOLEAN]
  /\ done \in [Bucket -> BOOLEAN]
  /\ parked \in [Bucket -> SUBSET (Nat \ {0})]
  /\ gone \in [Bucket -> SUBSET (Nat \ {0})]
  /\ DOMAIN holes = Bucket
  /\ \A b \in Bucket : holes[b] \in [DOMAIN holes[b] -> Hole]
                       /\ DOMAIN holes[b] \subseteq Nat \ {0}
  /\ connected \in BOOLEAN
  /\ blocked \in 0..RepairRetry
  /\ phase \in {"poll", "udp", "tcp", "parse", "nak", "deliver", "ended", "stopped"}
  /\ turn \in Bucket
  /\ start \in [Bucket -> Nat]
  /\ seen \in [Bucket -> Nat]
  /\ delivered \in [Bucket -> Seq(Nat)]
  /\ lost \in [Bucket -> SUBSET Nat]

(* No sequence falls between the cracks: whatever lies between the next     *)
(* sequence to deliver and the highest one heard is parked, being chased or *)
(* written off.  A sequence in none of the three would stall its bucket for *)
(* good, the failure the comments of accept_OrderMessage() and drain_tcp()  *)
(* guard against.                                                           *)
NothingForgotten ==
  \A b \in Bucket : synced[b] =>
    \A s \in nextSequence[b]..seen[b] : s \in parked[b] \cup gone[b] \cup DOMAIN holes[b]

(* Only sequences that are still missing are chased: a hole is ahead of the *)
(* delivery point, below a sequence already heard, and neither parked nor   *)
(* written off, so nak() never asks for what has arrived.                   *)
HolesAreMissing ==
  \A b \in Bucket : \A s \in DOMAIN holes[b] :
    /\ s \in nextSequence[b]..(seen[b] - 1)
    /\ s \notin parked[b] \cup gone[b]

(* "A hole's `noticed' never decreases as its sequence rises": the claim in *)
(* nak() that lets the expiry walk stop at the first live hole.             *)
OldestFirst ==
  \A b \in Bucket : \A s, t \in DOMAIN holes[b] :
    s < t => holes[b][s].noticed >= holes[b][t].noticed

(* Exactly once, in order, nothing silently skipped: from the sequence at   *)
(* which a bucket was taken up to the delivery point, each message was      *)
(* either handed to the caller, once and in increasing order, or counted    *)
(* unrecoverable, and never both; a finished bucket has reached its end.    *)
ExactlyOnceInOrder ==
  \A b \in Bucket :
    /\ \A i, j \in DOMAIN delivered[b] : i < j => delivered[b][i] < delivered[b][j]
    /\ Range(delivered[b]) \cap lost[b] = {}
    /\ synced[b] => Range(delivered[b]) \cup lost[b]
                       = (start[b]..(nextSequence[b] - 1)) \ {End[b]}
    /\ done[b] => nextSequence[b] = End[b] + 1

(* A message that is here is delivered, even when it had been written off   *)
(* before it came: deliver() looks at the parked messages first.            *)
ArrivedIsNeverLost == \A b \in Bucket : parked[b] \cap lost[b] = {}

(* The receiver keeps the promise of the abstract feed.                     *)
Promise == INSTANCE OrderedFeed WITH
  position <- [b \in Bucket |-> IF synced[b] THEN nextSequence[b] ELSE 0],
  ended <- done

PromiseKept == Promise!Spec
=============================================================================
