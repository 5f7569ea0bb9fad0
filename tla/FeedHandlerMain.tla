---------------------------- MODULE FeedHandlerMain ----------------------------
(***************************************************************************)
(* main() of src/src/feedhandler.cpp around on_payload(): the group is      *)
(* joined, the receive loop runs until the venue has fallen silent, has     *)
(* never spoken or a signal asks to stop, the terminators go out and the    *)
(* exit code says why.  A socket that cannot be had ends the process on the *)
(* spot; the repair server opens its own in a detached thread, at any point *)
(* of all this.  What a datagram does is FeedHandler's business.            *)
(***************************************************************************)
EXTENDS Integers

CONSTANTS
  IdleStop,      \* FEED_IDLE_STOP_MS
  StartTimeout,  \* FEED_START_TIMEOUT_MS
  SocketRoom     \* datagrams SO_RCVBUF holds

ASSUME MainAssumption ==
  IdleStop \in Nat /\ StartTimeout \in Nat /\ SocketRoom \in Nat \ {0}

VARIABLES
  stage,          \* "init", "start", "poll", "drain", "check", "finish", "exited", "died"
  repairs,        \* the thread of serve_repairs(): "none", "starting" or "listening"
  queue,          \* datagrams in the socket
  received,       \* packets
  since_receive,  \* age of last_receive, NotYet before the first
  since_start,    \* age of started
  g_stop,
  never_heard,    \* never_heard_anything
  announced,      \* finish() has sent the terminators
  exit_code

mainVars == <<stage, repairs, queue, received, since_receive, since_start, g_stop, never_heard,
              announced, exit_code>>

Ended == {"exited", "died"}

NotYet == -1

MainInit ==
  /\ stage = "init" /\ repairs = "none" /\ queue = 0 /\ received = 0
  /\ since_receive = NotYet /\ since_start = 0
  /\ g_stop = FALSE /\ never_heard = FALSE /\ announced = FALSE
  /\ exit_code = NotYet

(* die(), and exit() on a bad address: whatever thread calls it, the process *)
(* is over, and nothing more is said on the multicast.                      *)
Die ==
  /\ stage' = "died" /\ exit_code' = 1 /\ queue' = 0
  /\ UNCHANGED <<repairs, received, since_receive, since_start, g_stop, never_heard, announced>>

(* install_sigint() and publisher.init(); the repair server's thread is     *)
(* detached.                                                                *)
Prepare ==
  /\ stage = "init"
  /\ stage' = "start" /\ repairs' = "starting"
  /\ UNCHANGED <<queue, received, since_receive, since_start, g_stop, never_heard,
                 announced, exit_code>>

PrepareFails == stage = "init" /\ Die

(* udp_recv_socket(): from here on the kernel keeps what arrives.           *)
Join ==
  /\ stage = "start"
  /\ stage' = IF g_stop THEN "finish" ELSE "poll"
  /\ UNCHANGED <<repairs, queue, received, since_receive, since_start, g_stop, never_heard,
                 announced, exit_code>>

JoinFails == stage = "start" /\ Die

(* tcp_listen() in the detached thread, while main() is anywhere.           *)
Running == stage \notin {"init"} \cup Ended

Listen ==
  /\ Running /\ repairs = "starting"
  /\ repairs' = "listening"
  /\ UNCHANGED <<stage, queue, received, since_receive, since_start, g_stop, never_heard,
                 announced, exit_code>>

ListenFails == Running /\ repairs = "starting" /\ Die

Joined == stage \in {"poll", "drain", "check"}

(* A datagram reaches this host; nobody keeps one for a socket that has not *)
(* joined, or has no room.                                                  *)
Hears == Joined /\ queue < SocketRoom

Arrive ==
  /\ queue' = IF Hears THEN queue + 1 ELSE queue
  /\ UNCHANGED <<stage, repairs, received, since_receive, since_start, g_stop, never_heard,
                 announced, exit_code>>

(* poll() returns: something has come, or 100 ms or a signal have.          *)
PollReturns ==
  /\ stage = "poll"
  /\ stage' \in IF queue > 0 THEN {"drain"} ELSE {"check"}
  /\ UNCHANGED <<repairs, queue, received, since_receive, since_start, g_stop, never_heard,
                 announced, exit_code>>

(* Seeded fault: a recv() that a signal interrupts is counted like a datagram. *)
ReceiveInterrupted ==
  /\ stage = "drain" /\ queue > 0
  /\ \/ queue' = queue - 1
     \/ g_stop /\ UNCHANGED queue
  /\ received' = received + 1
  /\ since_receive' = 0
  /\ UNCHANGED <<stage, repairs, since_start, g_stop, never_heard, announced, exit_code>>

Receive ==
  /\ stage = "drain" /\ queue > 0
  /\ queue' = queue - 1
  /\ received' = received + 1
  /\ since_receive' = 0
  /\ UNCHANGED <<stage, repairs, since_start, g_stop, never_heard, announced, exit_code>>

Drained ==
  /\ stage = "drain" /\ queue = 0
  /\ stage' = "check"
  /\ UNCHANGED <<repairs, queue, received, since_receive, since_start, g_stop, never_heard,
                 announced, exit_code>>

Heard == since_receive # NotYet

(* Seeded faults: the pause is measured from the start; it ends the session *)
(* only with something left to read; the start time-out applies to a feed   *)
(* that has started.                                                        *)
IdleSinceStart == Heard /\ since_start > IdleStop
IdleWithData == Heard /\ since_receive > IdleStop /\ queue > 0
SilentAnyway == since_start > StartTimeout

Idle == Heard /\ since_receive > IdleStop
Silent == ~Heard /\ since_start > StartTimeout

(* The time-outs are looked at, then the condition of the loop.             *)
Check ==
  /\ stage = "check"
  /\ never_heard' = Silent
  /\ stage' = IF Idle \/ Silent \/ g_stop THEN "finish" ELSE "poll"
  /\ UNCHANGED <<repairs, queue, received, since_receive, since_start, g_stop, announced, exit_code>>

(* close(fd), then publisher.finish().                                      *)
Finish ==
  /\ stage = "finish" /\ ~announced
  /\ announced' = TRUE
  /\ queue' = 0
  /\ UNCHANGED <<stage, repairs, received, since_receive, since_start, g_stop, never_heard, exit_code>>

Exit ==
  /\ stage = "finish" /\ announced
  /\ stage' = "exited"
  /\ exit_code' = IF never_heard THEN 1 ELSE IF g_stop THEN 130 ELSE 0
  /\ UNCHANGED <<repairs, queue, received, since_receive, since_start, g_stop, never_heard, announced>>

Signal ==
  /\ Running /\ ~g_stop
  /\ g_stop' = TRUE
  /\ UNCHANGED <<stage, repairs, queue, received, since_receive, since_start, never_heard,
                 announced, exit_code>>

(* Ages grow up to one unit past the time-out they are compared with.       *)
Older(age, cap) == IF age = NotYet THEN NotYet ELSE IF age < cap THEN age + 1 ELSE age

MainAges ==
  /\ since_receive' = Older(since_receive, IdleStop + 1)
  /\ since_start' = IF stage \in {"init", "start"} THEN 0 ELSE Older(since_start, StartTimeout + 1)
  /\ UNCHANGED <<stage, repairs, queue, received, g_stop, never_heard, announced, exit_code>>

MainStep ==
  \/ Prepare \/ PrepareFails \/ Join \/ JoinFails
  \/ PollReturns \/ Receive \/ Drained \/ Check \/ Finish \/ Exit

RepairsStep == Listen \/ ListenFails
=============================================================================
