---------------------------- MODULE MCSubscriber ----------------------------
(* Small streams for the model checker: the numbers of the terminators.     *)
EXTENDS Subscriber

LongStream == <<6>>
TwoStreams == <<3, 3>>
=============================================================================
