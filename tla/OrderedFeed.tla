----------------------------- MODULE OrderedFeed -----------------------------
(***************************************************************************)
(* What the reliable multicast promises one consumer, with no network, no   *)
(* repair and no clock: per bucket, sequences are settled one after the     *)
(* other from the point where the consumer tuned in, each exactly once,     *)
(* either by delivering its message or by declaring it unrecoverable, until *)
(* the terminator, which is never written off.                              *)
(***************************************************************************)
EXTENDS Integers, Sequences

CONSTANTS Bucket, End, FirstExpected

VARIABLES
  position,   \* next sequence to settle; 0 while not tuned in
  delivered,  \* sequences handed to the consumer, in order
  lost,       \* sequences declared unrecoverable
  ended       \* the terminator has been reached

feedVars == <<position, delivered, lost, ended>>

Init ==
  /\ position = [b \in Bucket |-> FirstExpected]
  /\ delivered = [b \in Bucket |-> <<>>]
  /\ lost = [b \in Bucket |-> {}]
  /\ ended = [b \in Bucket |-> FALSE]

TuneIn(b) ==
  /\ position[b] = 0
  /\ \E s \in 1..End[b] : position' = [position EXCEPT ![b] = s]
  /\ UNCHANGED <<delivered, lost, ended>>

Settle(b) ==
  /\ position[b] # 0 /\ ~ended[b]
  /\ position' = [position EXCEPT ![b] = position[b] + 1]

Deliver(b) ==
  /\ Settle(b) /\ position[b] < End[b]
  /\ delivered' = [delivered EXCEPT ![b] = Append(delivered[b], position[b])]
  /\ UNCHANGED <<lost, ended>>

WriteOff(b) ==
  /\ Settle(b) /\ position[b] < End[b]
  /\ lost' = [lost EXCEPT ![b] = lost[b] \cup {position[b]}]
  /\ UNCHANGED <<delivered, ended>>

Finish(b) ==
  /\ Settle(b) /\ position[b] = End[b]
  /\ ended' = [ended EXCEPT ![b] = TRUE]
  /\ UNCHANGED <<delivered, lost>>

Next == \E b \in Bucket : TuneIn(b) \/ Deliver(b) \/ WriteOff(b) \/ Finish(b)

Spec == Init /\ [][Next]_feedVars
=============================================================================
