-------------------------------- MODULE Replay --------------------------------
(***************************************************************************)
(* The two programs that read a capture: exchange (src/src/exchange.cpp)    *)
(* replays it as the venue's feed, checkcap (src/src/checkcap.cpp) says     *)
(* beforehand whether that will work.  One of them runs.                    *)
(***************************************************************************)
EXTENDS PcapngReader

CONSTANTS
  Replayed,     \* the captures exchange is given; checkcap is given any
  PacketCount,  \* PCAP_PACKET_COUNT
  PaceBlock,    \* packets between two looks at the clock (1000)
  BlockTime     \* the time they should take: PaceBlock / REPLAY_PPS

ASSUME ReplayAssumption ==
  /\ Replayed \subseteq Capture
  /\ PacketCount \in Nat \ {0} /\ PaceBlock \in Nat \ {0} /\ BlockTime \in Nat

VARIABLES
  program,   \* "exchange" or "checkcap"
  replay,    \* its position: "start", "loop", "sleep" or "exited"
  packets,
  elapsed,   \* time since exchange began to send
  halted,    \* g_stop of exchange
  verdict    \* exit code

replayVars == <<readerVars, program, replay, packets, elapsed, halted, verdict>>

NoVerdict == -1

ReplayInit ==
  /\ ReaderInit
  /\ program \in {"exchange", "checkcap"}
  /\ program = "exchange" => file \in Replayed
  /\ replay = "start"
  /\ packets = 0 /\ elapsed = 0
  /\ halted = FALSE
  /\ verdict = NoVerdict

Start ==
  /\ replay = "start"
  /\ \/ Opens /\ replay' = "loop" /\ UNCHANGED verdict
     \/ /\ ~Opens \/ program = "exchange"   \* no socket to send on, a bad address
        /\ replay' = "exited" /\ verdict' = 1
  /\ UNCHANGED <<readerVars, program, packets, elapsed, halted>>

(* Seeded fault: one packet too many.                                       *)
MorePackets == packets <= PacketCount

(* The condition of exchange's loop; checkcap reads on to the end.          *)
Enough == packets < PacketCount

GoesOn == program = "checkcap" \/ (~halted /\ Enough)

AskNext ==
  /\ replay = "loop" /\ call \in {"none", "returned"} /\ packets = Len(payloads)
  /\ GoesOn
  /\ NextPacket
  /\ UNCHANGED <<program, replay, packets, elapsed, halted, verdict>>

ReadOn ==
  /\ replay = "loop" /\ ReaderStep
  /\ UNCHANGED <<program, replay, packets, elapsed, halted, verdict>>

(* checkcap counts what it reads, exchange what it has handed to sendto(),  *)
(* whether that succeeded or not, and sleeps at the end of a block.         *)
Due == (packets \div PaceBlock) * BlockTime

Count ==
  /\ replay = "loop" /\ call = "returned" /\ packets < Len(payloads)
  /\ packets' = packets + 1
  /\ replay' = IF program = "exchange" /\ packets' % PaceBlock = 0 /\ elapsed < Due'
               THEN "sleep" ELSE "loop"
  /\ UNCHANGED <<readerVars, program, elapsed, halted, verdict>>

(* nanosleep() ends in time or on a signal.                                 *)
WakeUp ==
  /\ replay = "sleep"
  /\ elapsed >= Due \/ halted
  /\ replay' = "loop"
  /\ UNCHANGED <<readerVars, program, packets, elapsed, halted, verdict>>

(* Seeded fault: any capture with a payload will do.                        *)
VerdictOfAny == IF packets = 0 THEN 1 ELSE 0

CheckcapVerdict ==
  IF packets = 0 THEN 1 ELSE IF packets < PacketCount THEN 2 ELSE 0

Finished == call = "failed" \/ (packets = Len(payloads) /\ ~GoesOn)

ReplayExits ==
  /\ replay = "loop" /\ Finished
  /\ replay' = "exited"
  /\ verdict' = IF program = "checkcap" THEN CheckcapVerdict
                ELSE IF halted THEN 130 ELSE 0
  /\ UNCHANGED <<readerVars, program, packets, elapsed, halted>>

Halt ==
  /\ program = "exchange" /\ replay \in {"loop", "sleep"} /\ ~halted
  /\ halted' = TRUE
  /\ UNCHANGED <<readerVars, program, replay, packets, elapsed, verdict>>

-----------------------------------------------------------------------------
(* Properties.                                                              *)

InCapture == IF Opens THEN Cardinality(Readable(Len(file))) ELSE 0

(* "Reads the whole file the way exchange does": checkcap is content with   *)
(* exactly the captures of which exchange, left alone, sends PacketCount    *)
(* packets, and a shorter one is replayed whole.                            *)
VerdictsAgree ==
  /\ program = "checkcap" /\ replay = "exited" =>
       verdict = IF InCapture = 0 THEN 1 ELSE IF InCapture < PacketCount THEN 2 ELSE 0
  /\ program = "exchange" /\ verdict = 0 => packets = Min({InCapture, PacketCount})
  /\ program = "exchange" => packets <= PacketCount
=============================================================================
