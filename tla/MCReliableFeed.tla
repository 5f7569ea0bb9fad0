---------------------------- MODULE MCReliableFeed ----------------------------
(* Small streams for the model checker: the numbers of the terminators.     *)
EXTENDS ReliableFeed

OneStream == <<4>>
TwoStreams == <<2, 3>>
=============================================================================
