------------------------------- MODULE BookSet -------------------------------
(***************************************************************************)
(* Book and BookSet (src/src/book.h): the picture of the market that level  *)
(* updates draw.  A price that is not in the map of its side has size 0.    *)
(* The touch and the fingerprint of its changes are left out: no program    *)
(* reads what BookSet keeps of them.                                        *)
(***************************************************************************)
EXTENDS Integers, Sequences, FiniteSetsExt

CONSTANTS Symbol, Price

EmptyBook == [side \in {"B", "S"} |-> [p \in Price |-> 0]]

Bids(book) == {p \in Price : book["B"][p] > 0}
Asks(book) == {p \in Price : book["S"][p] > 0}

(* Book::apply: size zero deletes the level, any other replaces its total.  *)
Applied(book, u) ==
  IF u.type \in {"B", "S"} THEN [book EXCEPT ![u.type][u.price] = u.size] ELSE book

Crossed(book) ==
  Bids(book) # {} /\ Asks(book) # {} /\ Max(Bids(book)) >= Min(Asks(book))

NoBooks ==
  [books |-> [s \in Symbol |-> EmptyBook],
   crossed |-> 0]

(* BookSet::apply, for every message but the terminator.                    *)
AppliedToSet(set, u) ==
  LET book == Applied(set.books[u.symbol], u)
  IN  [books |-> [set.books EXCEPT ![u.symbol] = book],
       crossed |-> IF u.type # "T" /\ Crossed(book) THEN set.crossed + 1 ELSE set.crossed]
=============================================================================
