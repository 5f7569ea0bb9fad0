---------------------------- MODULE MCRepairStream ----------------------------
(* Small frames for the model checker: the batches that are answered.       *)
EXTENDS RepairStream

Frames(kinds) == FlattenSeq([i \in DOMAIN kinds |-> Bytes(kinds[i])])

SomeAnswers ==
  {Frames(<<"message", "gone">>), Frames(<<"gone", "message", "message">>), Frames(<<"odd">>)}
=============================================================================
