---------------------------- MODULE MCFeedHandler ----------------------------
(* Prices and a few orders for the model checker.                           *)
EXTENDS FeedHandler

OnePrice == {1}
TwoPrices == {1, 2}
=============================================================================
