--------------------------- MODULE MCFeedPublisher ---------------------------
(* Small rings for the model checker.  In a ring of two slots sequences 1   *)
(* and 3 share one, so a reader of either may meet the writer of the other. *)
EXTENDS FeedPublisher, TLC

SharedSlot == {1, 3}
AskedFor == 1..3
FirstTwo == {1, 2}
Clients == Permutations(Client)
=============================================================================
