-------------------------------- MODULE Session --------------------------------
(***************************************************************************)
(* exchange and feedhandler started in any order on one host: Replay sends, *)
(* FeedHandlerMain receives, and the only sign of the end of the session is *)
(* silence.  exchange pauses between blocks of packets, so the two programs *)
(* must agree about time.  checkcap runs alone.                             *)
(***************************************************************************)
EXTENDS Replay, FeedHandlerMain

(* The pauses of the replay are no longer than what ends the session        *)
(* (20 ms against 2000).                                                    *)
ASSUME PaceAssumption == BlockTime <= IdleStop

VARIABLES
  missed,   \* history: a datagram did not reach the socket
  heard_in_time, \* history: one did before the start time-out
  stalled   \* history: time passed while a program had something to do

sessionVars == <<replayVars, mainVars, missed, heard_in_time, stalled>>
historyVars == <<missed, heard_in_time, stalled>>

Init ==
  /\ ReplayInit /\ MainInit
  /\ missed = FALSE /\ heard_in_time = FALSE /\ stalled = FALSE

(* sendto() over loopback: it may fail, and nobody may be listening.        *)
Send ==
  /\ Count /\ program = "exchange"
  /\ \/ /\ Arrive
        /\ missed' = (missed \/ ~Hears)
        /\ heard_in_time' = (heard_in_time \/ (Hears /\ since_start <= StartTimeout))
     \/ missed' = TRUE /\ UNCHANGED <<mainVars, heard_in_time>>
  /\ UNCHANGED stalled

ReplayAlone ==
  /\ \/ Start \/ AskNext \/ ReadOn \/ WakeUp \/ ReplayExits
     \/ Count /\ program = "checkcap"
  /\ UNCHANGED <<mainVars, historyVars>>

ReplayStep == Send \/ ReplayAlone

HandlerStep == program = "exchange" /\ MainStep /\ UNCHANGED <<replayVars, historyVars>>

(* The detached thread of the handler.                                      *)
ThreadStep == program = "exchange" /\ RepairsStep /\ UNCHANGED <<replayVars, historyVars>>

(* Either program may be told to stop.                                      *)
Signalled ==
  /\ program = "exchange"
  /\ \/ Halt /\ UNCHANGED mainVars
     \/ Signal /\ UNCHANGED replayVars
  /\ UNCHANGED historyVars

Waiting ==
  /\ replay \in {"start", "exited"} \/ (replay = "sleep" /\ elapsed < Due)
  /\ stage \in {"init"} \cup Ended \/ (stage = "poll" /\ queue = 0)

(* A unit of time passes, at any point; `stalled' remembers whether either  *)
(* program was kept from a step it could have taken.                        *)
Tick ==
  /\ program = "exchange"
  /\ MainAges
  /\ elapsed' = IF replay \in {"loop", "sleep"} /\ elapsed < PacketCount * BlockTime
                THEN elapsed + 1 ELSE elapsed
  /\ stalled' = (stalled \/ ~Waiting)
  /\ UNCHANGED <<readerVars, program, replay, packets, halted, verdict, missed, heard_in_time>>

(* Nothing is left to run.                                                  *)
Over ==
  /\ replay = "exited" /\ (program = "checkcap" \/ stage \in Ended)
  /\ UNCHANGED sessionVars

Next == ReplayStep \/ HandlerStep \/ ThreadStep \/ Signalled \/ Tick \/ Over

(* Both programs are scheduled and time passes; nothing is assumed of the   *)
(* detached thread.                                                         *)
Spec ==
  /\ Init /\ [][Next]_sessionVars
  /\ WF_sessionVars(ReplayStep) /\ WF_sessionVars(HandlerStep) /\ WF_sessionVars(Tick)

-----------------------------------------------------------------------------
(* Properties.                                                              *)

(* Positions, counters and ages have their types; the reader's table holds  *)
(* interfaces only.                                                         *)
TypeOK ==
  /\ file \in Capture /\ position \in 0..Len(file) /\ swapped \in BOOLEAN
  /\ \A k \in DOMAIN interfaces : DOMAIN interfaces[k] = {"link", "unit"}
  /\ call \in {"none", "reading", "returned", "failed"}
  /\ packets \in (Len(payloads) - 1)..Len(payloads)
  /\ replay \in {"start", "loop", "sleep", "exited"}
  /\ verdict \in {NoVerdict, 0, 1, 2, 130}
  /\ stage \in {"init", "start", "poll", "drain", "check", "finish", "exited", "died"}
  /\ repairs \in {"none", "starting", "listening"}
  /\ queue \in 0..SocketRoom /\ received \in 0..packets
  /\ since_receive \in NotYet..(IdleStop + 1) /\ since_start \in 0..(StartTimeout + 1)
  /\ exit_code \in {NotYet, 0, 1, 130}

(* The session is over only when the replay is: while neither program is    *)
(* kept waiting and no datagram is lost, a handler that ends on silence has *)
(* received all that exchange will ever send.                               *)
HeardOut ==
  exit_code = 0 /\ ~stalled /\ ~missed => replay = "exited" /\ received = packets

(* The exit code tells why.  0: something arrived and nobody asked to stop. *)
(* 130: somebody did.  1: nothing arrived before the time-out, or a socket  *)
(* of the process, the repair server's included, could not be had.  Only in *)
(* the last case may the terminators that subscribers wait for be missing.  *)
ExitTellsWhy ==
  /\ exit_code = 0 => received > 0 /\ ~g_stop /\ announced
  /\ exit_code = 130 => g_stop /\ announced
  /\ exit_code = 1 =>
       \/ stage = "died" /\ repairs # "listening"
       \/ stage = "died" /\ received = 0
       \/ announced /\ received = 0 /\ (stalled \/ ~heard_in_time)
  /\ exit_code # NotYet <=> stage \in Ended

(* Once started the handler ends by itself, whatever becomes of the replay  *)
(* and of its datagrams.                                                    *)
SessionEnds == (stage = "poll") ~> (stage \in Ended)
=============================================================================
